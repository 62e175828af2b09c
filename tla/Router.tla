------------------------------- MODULE Router -------------------------------
(***************************************************************************)
(* Router::classify (src/router.rs) with the classifiers it consults: the  *)
(* embedding router and its shared centroids (src/semantic.rs), the private*)
(* cluster (src/cluster.rs) and the keyword classifier (src/intent.rs).    *)
(*                                                                         *)
(* Of a message the model keeps its role, its size, which keyword lists it *)
(* has a word of and how many files it names; of an embedding, how alike it*)
(* is to the centroid of each tier.                                        *)
(***************************************************************************)
EXTENDS Tiers, SequencesExt

CONSTANTS Requests,     \* the requests a run of the gateway classifies
          Configs,      \* the routing configurations
          Asks,         \* the contents of a request
          FileCountThreshold,   \* the number of files above which a task is agentic
          Exemplars,    \* exemplar prompts to embed before the first route
          Similarities, \* the cosines an embedding may have
          NoRequest     \* nobody holds the permit of the OnceCell

Words    == {"complexity", "tier3", "tier2", "tier1"}
Message  == [role: {"system", "user", "assistant", "tool"}, words: SUBSET Words,
             refs: Nat, tokens: Nat]
AskType  == [messages: Seq(Message), tools: BOOLEAN, toolTokens: Nat]
Intents  == {"Agentic", "Standard", "Trivial"}

\* RoutingConfig, and which of the optional classifiers are configured.
ConfigType == [tier1Threshold: Nat, tier2Threshold: Nat, complexRequiresExplicit: BOOLEAN,
               semantic: BOOLEAN, cluster: BOOLEAN]

ASSUME RouterAssumption ==
  /\ Configs \subseteq ConfigType
  /\ Asks \subseteq AskType
  /\ Exemplars \in Nat \ {0} /\ FileCountThreshold \in Nat
  /\ Similarities \subseteq Int
  /\ NoRequest \notin Requests

VARIABLES cfg,
          cell,      \* OnceCell of the centroids: "empty", "ready" or "none"
          holder,    \* the request that holds the cell's permit
          embedded,  \* exemplars the holder has embedded
          pc,        \* "idle", "cell", "init", "embed", "cluster", "done", "gone"
          ask,       \* ask[r]: the contents of r
          picked,    \* picked[r]: the tier classify returned
          heard      \* history: whether the embedder or the cluster had a say

vars == <<cfg, cell, holder, embedded, pc, ask, picked, heard>>

Waiting == {"cell", "init", "embed", "cluster"}
NoAsk == [messages |-> <<>>, tools |-> FALSE, toolTokens |-> 0]

Init ==
  /\ cfg \in Configs
  /\ cell = "empty" /\ holder = NoRequest /\ embedded = 0
  /\ pc = [r \in Requests |-> "idle"]
  /\ ask = [r \in Requests |-> NoAsk]
  /\ picked = [r \in Requests |-> NoTier]
  /\ heard = [r \in Requests |-> FALSE]

-----------------------------------------------------------------------------
\* The rules.

EstimateTokens(q) == FoldSeq(LAMBDA m, n : m.tokens + n, q.toolTokens, q.messages)

CheckKeywords(q) ==
  \E i \in DOMAIN q.messages : /\ q.messages[i].role = "user"
                               /\ "complexity" \in q.messages[i].words

Explicit(q) == EstimateTokens(q) > cfg.tier2Threshold \/ CheckKeywords(q)

FileReferences(q) == FoldSeq(LAMBDA m, n : m.refs + n, 0, q.messages)

\* The message that decides the intent: the first with a word of any list.
Telling(q) == {i \in DOMAIN q.messages : q.messages[i].words \ {"complexity"} # {}}

IntentOf(words) ==
  IF "tier3" \in words THEN "Agentic" ELSE IF "tier2" \in words THEN "Standard" ELSE "Trivial"

FallbackIntent(q) ==
  IF FileReferences(q) > FileCountThreshold \/ q.tools THEN "Agentic"
  ELSE IF Telling(q) # {} THEN IntentOf(q.messages[Min(Telling(q))].words)
  ELSE IF \E i \in DOMAIN q.messages : q.messages[i].role = "system" THEN "Standard"
  ELSE "Trivial"

TierOf(intent, q) ==
  IF EstimateTokens(q) > cfg.tier1Threshold
  THEN IF intent = "Agentic" THEN "Complex" ELSE "Standard"
  ELSE IF intent = "Agentic" THEN "Standard" ELSE "Free"

\* The governance gate.
Gate(t) == IF cfg.complexRequiresExplicit /\ t = "Complex" THEN "Standard" ELSE t

\* nearest_tier: the most similar centroid; the dearest tier on a tie.
NearestTier(cosine) ==
  CHOOSE t \in Tier : \A u \in Tier : \/ cosine[t] > cosine[u]
                                      \/ cosine[t] = cosine[u] /\ Rank[t] >= Rank[u]

-----------------------------------------------------------------------------
\* classify of request r, from one await to the next.

Pick(r, t) ==
  /\ picked' = [picked EXCEPT ![r] = t]
  /\ pc' = [pc EXCEPT ![r] = "done"]

Goto(r, l) == pc' = [pc EXCEPT ![r] = l] /\ UNCHANGED picked

\* No semantic route: the cluster is asked, or the keywords decide.
AskIntent(r, q) ==
  \/ cfg.cluster /\ Goto(r, "cluster")
  \/ ~cfg.cluster /\ Pick(r, Gate(TierOf(FallbackIntent(q), q)))

Classify(r) ==
  /\ pc[r] = "idle"
  /\ \E q \in Asks : ask' = [ask EXCEPT ![r] = q]
  /\ \/ Explicit(ask'[r]) /\ Pick(r, "Complex")
     \/ ~Explicit(ask'[r]) /\ cfg.semantic /\ Goto(r, "cell")
     \/ ~Explicit(ask'[r]) /\ ~cfg.semantic /\ AskIntent(r, ask'[r])
  /\ UNCHANGED <<cfg, cell, holder, embedded, heard>>

\* Broken variant: the cell is filled without its permit.
GetOrInitUnlocked(r) ==
  /\ pc[r] = "cell"
  /\ \/ cell = "ready" /\ Goto(r, "embed") /\ UNCHANGED <<holder, embedded>>
     \/ cell = "none" /\ AskIntent(r, ask[r]) /\ UNCHANGED <<holder, embedded>>
     \/ cell = "empty" /\ holder' = r /\ embedded' = 0 /\ Goto(r, "init")
  /\ UNCHANGED <<cfg, cell, ask, heard>>

\* OnceCell::get_or_init: the cell's value, or the permit to compute it, or
\* wait until the holder of the permit has either filled the cell or left.
GetOrInit(r) ==
  /\ pc[r] = "cell"
  /\ \/ cell = "ready" /\ Goto(r, "embed") /\ UNCHANGED <<holder, embedded>>
     \/ cell = "none" /\ AskIntent(r, ask[r]) /\ UNCHANGED <<holder, embedded>>
     \/ /\ cell = "empty" /\ holder = NoRequest
        /\ holder' = r /\ embedded' = 0
        /\ Goto(r, "init")
  /\ UNCHANGED <<cfg, cell, ask, heard>>

\* compute_centroids: the exemplars are embedded one by one; the first failure,
\* or vectors that do not fit together, leave None in the cell for good.
EmbedExemplar(r) ==
  /\ pc[r] = "init"
  /\ \/ /\ embedded + 1 < Exemplars
        /\ embedded' = embedded + 1
        /\ UNCHANGED <<cell, holder, pc, picked>>
     \/ /\ embedded + 1 = Exemplars
        /\ cell' = "ready" /\ holder' = NoRequest /\ embedded' = 0
        /\ Goto(r, "embed")
     \/ /\ cell' = "none" /\ holder' = NoRequest /\ embedded' = 0
        /\ AskIntent(r, ask[r])
  /\ UNCHANGED <<cfg, ask, heard>>

\* Broken variants: the gate is not applied; a failure is a route to Standard.
EmbedQueryUngated(r) ==
  /\ pc[r] = "embed"
  /\ \/ /\ \E cosine \in [Tier -> Similarities] : Pick(r, NearestTier(cosine))
        /\ heard' = [heard EXCEPT ![r] = TRUE]
     \/ AskIntent(r, ask[r]) /\ UNCHANGED heard
  /\ UNCHANGED <<cfg, cell, holder, embedded, ask>>

EmbedQueryOrStandard(r) ==
  /\ pc[r] = "embed"
  /\ \/ /\ \E cosine \in [Tier -> Similarities] : Pick(r, Gate(NearestTier(cosine)))
        /\ heard' = [heard EXCEPT ![r] = TRUE]
     \/ Pick(r, "Standard") /\ UNCHANGED heard
  /\ UNCHANGED <<cfg, cell, holder, embedded, ask>>

\* The request itself is embedded: a route, or the intent on failure.
EmbedQuery(r) ==
  /\ pc[r] = "embed"
  /\ \/ /\ \E cosine \in [Tier -> Similarities] : Pick(r, Gate(NearestTier(cosine)))
        /\ heard' = [heard EXCEPT ![r] = TRUE]
     \/ AskIntent(r, ask[r]) /\ UNCHANGED heard
  /\ UNCHANGED <<cfg, cell, holder, embedded, ask>>

\* The cluster names an intent; it fails, or says something else, and the
\* keywords decide.
AskCluster(r) ==
  /\ pc[r] = "cluster"
  /\ \/ /\ \E intent \in Intents : Pick(r, Gate(TierOf(intent, ask[r])))
        /\ heard' = [heard EXCEPT ![r] = TRUE]
     \/ /\ Pick(r, Gate(TierOf(FallbackIntent(ask[r]), ask[r])))
        /\ UNCHANGED heard
  /\ UNCHANGED <<cfg, cell, holder, embedded, ask>>

\* Broken variant: the permit leaves with the request.
DisconnectWithPermit(r) ==
  /\ pc[r] \in Waiting
  /\ Goto(r, "gone")
  /\ UNCHANGED <<cfg, cell, holder, embedded, ask, heard>>

\* The client leaves: the handler is dropped, and the permit it may hold.
Disconnect(r) ==
  /\ pc[r] \in Waiting
  /\ Goto(r, "gone")
  /\ holder' = IF holder = r THEN NoRequest ELSE holder
  /\ embedded' = IF holder = r THEN 0 ELSE embedded
  /\ UNCHANGED <<cfg, cell, ask, heard>>

Quiet == (\A r \in Requests : pc[r] \in {"done", "gone"}) /\ UNCHANGED vars

Await(r) == GetOrInit(r) \/ EmbedExemplar(r) \/ EmbedQuery(r) \/ AskCluster(r)

Next == (\E r \in Requests : Classify(r) \/ Await(r) \/ Disconnect(r)) \/ Quiet

Spec == Init /\ [][Next]_vars

\* Every HTTP call ends: the embedder's client gives up after 10 s, the
\* cluster's after its configured timeout; a released permit wakes a waiter.
FairSpec == Spec /\ \A r \in Requests : WF_vars(Await(r))

-----------------------------------------------------------------------------
\* Every variable has its type, and the permit is held by who computes.
TypeOK ==
  /\ cfg \in Configs
  /\ cell \in {"empty", "ready", "none"}
  /\ holder \in Requests \cup {NoRequest}
  /\ embedded \in 0 .. Exemplars - 1
  /\ pc \in [Requests -> Waiting \cup {"idle", "done", "gone"}]
  /\ ask \in [Requests -> Asks \cup {NoAsk}]
  /\ picked \in [Requests -> Tier \cup {NoTier}]
  /\ heard \in [Requests -> BOOLEAN]
  /\ \A r \in Requests : pc[r] = "done" <=> picked[r] # NoTier

\* With the governance gate on, no classifier, whatever it answers and after
\* whichever failures, routes a request to Complex: only the size and the
\* keywords of the user do.
GateHolds ==
  \A r \in Requests :
    cfg.complexRequiresExplicit /\ picked[r] = "Complex" => Explicit(ask[r])

\* A request that the rules route waits for no service, so it is routed even
\* while the embedder or the cluster hangs.
ExplicitIsImmediate == \A r \in Requests : pc[r] \in Waiting => ~Explicit(ask[r])

\* A failing embedder or cluster costs nothing but time: a request that neither
\* had a say on goes where the keyword heuristic alone would have sent it.
FallsBackToHeuristic ==
  \A r \in Requests :
    pc[r] = "done" /\ ~heard[r] /\ ~Explicit(ask[r]) =>
      picked[r] = Gate(TierOf(FallbackIntent(ask[r]), ask[r]))

\* The classifiers are an addition: what the rules decide does not wait for them,
\* and what they cannot decide is left to the keywords.
ServicesOnlyAdd == ExplicitIsImmediate /\ FallsBackToHeuristic

\* The centroids are settled once, by the one request that holds the permit; all
\* others wait or find them settled, and what they find never changes.
CentroidsSettleOnce == [][cell # "empty" => cell' = cell]_vars

\* A request that waits for the centroids is classified even if the one that
\* computes them leaves.
EveryRequestClassified ==
  \A r \in Requests : pc[r] = "cell" ~> pc[r] \in {"done", "gone"}
=============================================================================
