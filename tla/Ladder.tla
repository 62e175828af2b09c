------------------------------- MODULE Ladder -------------------------------
(***************************************************************************)
(* What quality escalation promises, without saying how a response is      *)
(* judged: a routed request is tried on one tier at a time, it may move    *)
(* one rung up while its budget of climbs lasts, and it is answered at     *)
(* most once, from the rung it stands on.  A client may leave at any time. *)
(***************************************************************************)
EXTENDS Tiers

CONSTANT Requests

VARIABLES budget,    \* climbs a request may make, fixed at startup
          phase,     \* phase[r]: "new", "trying", "answered" or "gone"
          rung,      \* rung[r]: the tier the request is being tried on
          climbs     \* climbs[r]: how many times it has moved up

vars == <<budget, phase, rung, climbs>>

Init ==
  /\ budget \in Nat
  /\ phase = [r \in Requests |-> "new"]
  /\ rung = [r \in Requests |-> NoTier]
  /\ climbs = [r \in Requests |-> 0]

Enter(r) ==
  /\ phase[r] = "new"
  /\ phase' = [phase EXCEPT ![r] = "trying"]
  /\ \E t \in Tier : rung' = [rung EXCEPT ![r] = t]
  /\ UNCHANGED <<budget, climbs>>

Climb(r) ==
  /\ phase[r] = "trying"
  /\ climbs[r] < budget
  /\ rung[r] # "Complex"
  /\ rung' = [rung EXCEPT ![r] = Escalate(rung[r])]
  /\ climbs' = [climbs EXCEPT ![r] = climbs[r] + 1]
  /\ UNCHANGED <<budget, phase>>

Finish(r) ==
  /\ phase[r] = "trying"
  /\ \E p \in {"answered", "gone"} : phase' = [phase EXCEPT ![r] = p]
  /\ UNCHANGED <<budget, rung, climbs>>

Next == \E r \in Requests : Enter(r) \/ Climb(r) \/ Finish(r)

Spec == Init /\ [][Next]_vars
=============================================================================
