----------------------------- MODULE Catalogue -----------------------------
(***************************************************************************)
(* What model discovery promises its callers, without mutex, cache or      *)
(* queries: there is one catalogue.  What it says of a source, once it     *)
(* says anything, it says for good, and every answer is read from it; only *)
(* a cluster that has never listed its models may be answered for by a     *)
(* stand-in.                                                               *)
(***************************************************************************)
CONSTANTS Requests, Source, Lists, Nothing, StandIns

VARIABLES listed,    \* listed[s]: the models of source s, or Nothing yet
          answer     \* answer[r][s]: what request r was told of source s

vars == <<listed, answer>>

Silence == [s \in Source |-> Nothing]

Init ==
  /\ listed = Silence
  /\ answer = [r \in Requests |-> Silence]

Learn ==
  /\ listed' \in [Source -> Lists \cup {Nothing}]
  /\ \A s \in Source : listed[s] # Nothing => listed'[s] = listed[s]

\* An answer that the catalogue bears out.
TrueTo(ans, list) ==
  \A s \in Source :
    \/ ans[s] = list[s] /\ list[s] # Nothing
    \/ s = "cluster" /\ list[s] = Nothing /\ ans[s] \in StandIns

Answer(r) ==
  /\ answer[r] = Silence
  /\ \E ans \in [Source -> Lists \cup StandIns] :
       TrueTo(ans, listed') /\ answer' = [answer EXCEPT ![r] = ans]

Next == Learn /\ (UNCHANGED answer \/ \E r \in Requests : Answer(r))

Spec == Init /\ [][Next]_vars
=============================================================================
