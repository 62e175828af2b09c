----------------------------- MODULE MCGateway -----------------------------
(***************************************************************************)
(* Gateway for TLC.                                                        *)
(***************************************************************************)
EXTENDS Gateway

CONSTANT First   \* the request that does all there is to do

Conf(on, shadow, tier, file, explore, budget) ==
  [enabled |-> on, shadowMode |-> shadow, shadowTier |-> tier, log |-> file,
   explore |-> explore, budget |-> budget]

\* Telemetry on and off, a shadow tier that is valid, low or
\* misspelt, every budget, with and without an explorer and a log.
OneConfigs ==
  {Conf(on, s, t, TRUE, FALSE, b) :
     on \in BOOLEAN, s \in BOOLEAN, t \in {NoTier, "Free", "Standard"}, b \in {0, 2}}
  \cup {Conf(TRUE, FALSE, NoTier, f, TRUE, b) : f \in BOOLEAN, b \in {1, 2}}

\* An action constraint.  The other requests follow the first, and meet it at the
\* log: each is a chat that is not streamed, and comes when the first one appends
\* its line, or has; of the streams of the first, behind a short one.
Followers ==
  \A r \in Requests \ {First} : pc[r] = "idle" /\ pc'[r] # "idle" =>
    /\ cfg.enabled /\ cfg.log
    /\ pc[First] \in {"append", "done"} /\ chunks[First] <= 2
    /\ pc'[r] = "classify" /\ ask'[r].endpoint = "chat" /\ ~ask'[r].stream
=============================================================================
