-------------------------- MODULE EscalationProofs --------------------------
(***************************************************************************)
(* What holds of Proxy::forward for every set of requests, configurations  *)
(* and answers.  Neither the types nor the cost of a request are inductive *)
(* by themselves: that a climb lands on a tier needs the budget and the    *)
(* rung recorded when the judge was asked, which ReqInv adds.  TrailInv    *)
(* ties the calls made to where the request stands.                        *)
(***************************************************************************)
EXTENDS Escalation, TLAPS

\* What is known of request r between two steps.
ReqInv(r) ==
  /\ escs[r] <= Budget
  /\ pc[r] = "idle" => escs[r] = 0 /\ trail[r] = <<>> /\ call[r] = "main"
                         /\ tier[r] = NoTier
  /\ pc[r] # "idle" => escs[r] <= Rank[tier[r]]
  /\ pc[r] \in Active /\ call[r] = "judge" =>
       escs[r] < Budget /\ tier[r] # "Complex" /\ reply[r] \in Outcomes
  /\ pc[r] \in Active =>
       Len(trail[r]) <= (IF call[r] = "judge" THEN 2 * escs[r] + 1 ELSE 2 * escs[r])
  /\ pc[r] \in {"done", "gone"} =>
       Len(trail[r]) <= (IF escs[r] < Budget /\ tier[r] # "Complex"
                         THEN 2 * escs[r] + 2 ELSE 2 * escs[r] + 1)

IInv == TypeOK /\ \A r \in Requests : ReqInv(r)

\* The budget is a number, and depends on the configuration only.
LEMMA BudgetNat == ASSUME cfg \in Configs PROVE Budget \in Nat
<1>1. cfg \in ConfigType
  BY ConstantsAssumption
<1>2. cfg.maxEscalations \in Nat
  BY <1>1 DEF ConfigType
<1> QED
  BY <1>2 DEF Budget

\* One rung up from any tier but the top is a tier, one higher.
LEMMA EscalateRank ==
  ASSUME NEW t \in Tier
  PROVE  /\ Rank[t] \in 0 .. 2
         /\ t # "Complex" => Escalate(t) \in Tier /\ Rank[Escalate(t)] = Rank[t] + 1
         /\ t = "Complex" => Rank[t] = 2 /\ Escalate(t) = NoTier
  BY DEF Tier, Rank, Escalate, NoTier

\* A climb is offered exactly below the top with budget left.
LEMMA NextTierOffered ==
  ASSUME NEW r \in Requests, tier[r] \in Tier
  PROVE  /\ NextTier(r) # NoTier <=> escs[r] < Budget /\ tier[r] # "Complex"
         /\ NextTier(r) # NoTier => NextTier(r) \in Tier
                                      /\ Rank[NextTier(r)] = Rank[tier[r]] + 1
  BY DEF NextTier, Tier, Rank, Escalate, NoTier

\* Whatever a call can bring back is of the outcome types.
LEMMA AnswersTyped ==
  ASSUME NEW r \in Requests, NEW out \in Answers(r)
  PROVE  out \in Outcomes \cup Verdicts /\ (call[r] # "judge" => out \in Outcomes)
  BY DEF Answers, Outcomes, Errors, TransportErrors, Verdicts

\* The initial state satisfies the invariant.
LEMMA InitIInv == Init => IInv
<1> SUFFICES ASSUME Init PROVE IInv
  OBVIOUS
<1>1. Budget \in Nat
  BY BudgetNat DEF Init
<1>2. TypeOK
  <2>1. <<>> \in Seq(Calls) /\ 0 \in Nat
    OBVIOUS
  <2> QED
    BY <2>1 DEF Init, TypeOK
<1>3. ASSUME NEW r \in Requests PROVE ReqInv(r)
  BY <1>1 DEF Init, ReqInv, Active
<1> QED
  BY <1>2, <1>3 DEF IInv

\* What forward does with an outcome keeps the invariant: the step every
\* action that ends a forward_once takes.
LEMMA SettleStep ==
  ASSUME IInv, NEW r \in Requests, pc[r] \in Active, NEW out \in Outcomes \cup Verdicts,
         call[r] # "judge" => out \in Outcomes, Settle(r, out),
         UNCHANGED <<cfg, cache, stream>>
  PROVE  IInv'
<1> DEFINE entry == [call |-> call[r], rung |-> tier[r], out |-> out]
<1>1. Budget \in Nat /\ Budget' = Budget
  BY BudgetNat DEF IInv, TypeOK, Budget
<1>2. tier[r] \in Tier /\ escs[r] \in Nat /\ call[r] \in {"main", "judge"}
        /\ reply[r] \in {NoReply} \cup Outcomes /\ trail[r] \in Seq(Calls)
  BY DEF IInv, TypeOK, Active
<1>3. entry \in Calls
  BY <1>2 DEF Calls
<1>4. /\ Append(trail[r], entry) \in Seq(Calls)
      /\ Len(Append(trail[r], entry)) = Len(trail[r]) + 1
      /\ Len(trail[r]) \in Nat
  BY <1>2, <1>3
<1>5. ReqInv(r)
  BY DEF IInv
<1>6. trail' = [trail EXCEPT ![r] = Append(trail[r], entry)]
  BY DEF Settle
<1>7. /\ Rank[tier[r]] \in 0 .. 2
      /\ NextTier(r) # NoTier <=> escs[r] < Budget /\ tier[r] # "Complex"
      /\ NextTier(r) # NoTier => NextTier(r) \in Tier
                                   /\ Rank[NextTier(r)] = Rank[tier[r]] + 1
  BY <1>2, EscalateRank, NextTierOffered
\* Whichever of the three, the other requests are left alone.
<1>8. ASSUME NEW q \in Requests, q # r,
             pc'[q] = pc[q], tier'[q] = tier[q], escs'[q] = escs[q], call'[q] = call[q],
             reply'[q] = reply[q], trail'[q] = trail[q]
      PROVE  ReqInv(q)'
  BY <1>1, <1>8 DEF IInv, ReqInv
<1>9. CASE NextTier(r) # NoTier /\ Climb(r)
  <2>1. TypeOK'
    BY <1>2, <1>4, <1>6, <1>7, <1>9 DEF IInv, TypeOK, Climb, Active
  <2>2. ReqInv(r)'
    <3>1. /\ pc'[r] = "prepare" /\ call'[r] = "main" /\ tier'[r] = NextTier(r)
          /\ escs'[r] = escs[r] + 1
          /\ Len(trail'[r]) = Len(trail[r]) + 1
      BY <1>4, <1>6, <1>9 DEF IInv, TypeOK, Climb
    <3>2. Len(trail[r]) + 1 <= 2 * (escs[r] + 1)
      BY <1>2, <1>4, <1>5 DEF ReqInv
    <3>3. escs[r] + 1 <= Budget /\ escs[r] + 1 <= Rank[NextTier(r)]
      BY <1>1, <1>2, <1>5, <1>7, <1>9 DEF ReqInv, Active
    <3> QED
      BY <1>1, <3>1, <3>2, <3>3 DEF ReqInv, Active
  <2>3. ASSUME NEW q \in Requests, q # r PROVE ReqInv(q)'
    BY <1>6, <1>8, <1>9, <2>3 DEF IInv, TypeOK, Climb
  <2> QED
    BY <2>1, <2>2, <2>3 DEF IInv
<1>10. CASE call[r] = "main" /\ NextTier(r) # NoTier /\ AskJudge(r, out)
  <2>1. TypeOK'
    BY <1>2, <1>4, <1>6, <1>10 DEF IInv, TypeOK, AskJudge, Active
  <2>2. ReqInv(r)'
    BY <1>1, <1>2, <1>4, <1>5, <1>6, <1>7, <1>10 DEF IInv, TypeOK, ReqInv, AskJudge, Active
  <2>3. ASSUME NEW q \in Requests, q # r PROVE ReqInv(q)'
    BY <1>6, <1>8, <1>10, <2>3 DEF IInv, TypeOK, AskJudge
  <2> QED
    BY <2>1, <2>2, <2>3 DEF IInv
<1>11. ASSUME NEW res \in {NoReply} \cup Outcomes, Return(r, res)
       PROVE  IInv'
  <2>1. TypeOK'
    BY <1>2, <1>4, <1>6, <1>11 DEF IInv, TypeOK, Return, Active
  <2>2. ReqInv(r)'
    BY <1>1, <1>2, <1>4, <1>5, <1>6, <1>7, <1>11 DEF IInv, TypeOK, ReqInv, Return, Active
  <2>3. ASSUME NEW q \in Requests, q # r PROVE ReqInv(q)'
    BY <1>6, <1>8, <1>11, <2>3 DEF IInv, TypeOK, Return
  <2> QED
    BY <2>1, <2>2, <2>3 DEF IInv
<1>12. CASE call[r] = "main" /\ SettleMain(r, out)
  BY <1>2, <1>9, <1>10, <1>11, <1>12 DEF SettleMain
<1>13. CASE call[r] = "judge" /\ SettleJudge(r, out)
  <2>1. NextTier(r) # NoTier
    BY <1>5, <1>7, <1>13 DEF ReqInv
  <2> QED
    BY <1>2, <1>9, <1>11, <1>13, <2>1 DEF SettleJudge
<1> QED
  BY <1>12, <1>13 DEF Settle

\* Every step keeps the invariant.
LEMMA NextIInv == IInv /\ [Next]_vars => IInv'
<1> SUFFICES ASSUME IInv, [Next]_vars PROVE IInv'
  OBVIOUS
<1>1. Budget \in Nat
  BY BudgetNat DEF IInv, TypeOK
<1>2. ASSUME NEW r \in Requests, Forward(r) PROVE IInv'
  <2>1. TypeOK'
    BY <1>2 DEF IInv, TypeOK, Forward, Active
  <2>2. PICK t \in Tier : tier' = [tier EXCEPT ![r] = t]
    BY <1>2 DEF Forward
  <2>3. Rank[t] \in 0 .. 2
    BY EscalateRank
  <2>4. ASSUME NEW q \in Requests PROVE ReqInv(q)'
    <3>1. Budget' = Budget
      BY <1>2 DEF Forward, Budget
    <3>2. CASE q = r
      BY <1>1, <1>2, <2>2, <2>3, <3>1, <3>2 DEF IInv, TypeOK, ReqInv, Forward, Active
    <3>3. CASE q # r
      BY <1>2, <2>2, <3>1, <3>3 DEF IInv, TypeOK, ReqInv, Forward, Active
    <3> QED
      BY <3>2, <3>3
  <2> QED
    BY <2>1, <2>4 DEF IInv
\* The steps that only move pc, towards the call or out of it.
<1>3. ASSUME NEW r \in Requests, pc[r] \in Active,
             NEW p \in Active \cup {"gone"}, pc' = [pc EXCEPT ![r] = p], cache' \in BOOLEAN,
             UNCHANGED <<cfg, stream, tier, escs, call, reply, trail>>
      PROVE  IInv'
  <2>1. TypeOK'
    BY <1>3 DEF IInv, TypeOK, Active
  <2>2. ASSUME NEW q \in Requests PROVE ReqInv(q)'
    <3>1. Budget' = Budget
      BY <1>3 DEF Budget
    <3>2. Len(trail[q]) \in Nat /\ escs[q] \in Nat
      BY DEF IInv, TypeOK
    <3>3. CASE q = r
      BY <1>1, <1>3, <3>1, <3>2, <3>3 DEF IInv, TypeOK, ReqInv, Active
    <3>4. CASE q # r
      BY <1>3, <3>1, <3>4 DEF IInv, TypeOK, ReqInv
    <3> QED
      BY <3>3, <3>4
  <2> QED
    BY <2>1, <2>2 DEF IInv
<1>4. ASSUME NEW r \in Requests, Prepare(r) PROVE IInv'
  <2>1. /\ Error("ProviderNotFound") \in Outcomes
        /\ Error("AuthenticationFailed") \in Outcomes
    BY DEF Outcomes, Errors
  <2>2. pc[r] \in Active /\ cache' \in BOOLEAN
    BY <1>4 DEF Prepare, Active, IInv, TypeOK
  <2>3. CASE Settle(r, Error("ProviderNotFound"))
    BY <1>4, <2>1, <2>2, <2>3, SettleStep DEF Prepare
  <2>4. CASE Settle(r, Error("AuthenticationFailed"))
    BY <1>4, <2>1, <2>2, <2>4, SettleStep DEF Prepare
  <2>5. CASE pc' = [pc EXCEPT ![r] = "send"] /\ UNCHANGED <<tier, escs, call, reply, trail>>
    BY <1>3, <1>4, <2>2, <2>5 DEF Prepare, Active
  <2>6. CASE pc' = [pc EXCEPT ![r] = "store"] /\ UNCHANGED <<tier, escs, call, reply, trail>>
    BY <1>3, <1>4, <2>2, <2>6 DEF Prepare, Active
  <2> QED
    BY <1>4, <2>3, <2>4, <2>5, <2>6 DEF Prepare
<1>5. ASSUME NEW r \in Requests, StoreToken(r) PROVE IInv'
  BY <1>3, <1>5 DEF StoreToken, Active
<1>6. ASSUME NEW r \in Requests, Receive(r) PROVE IInv'
  <2>1. PICK out \in Answers(r) : Settle(r, out)
    BY <1>6 DEF Receive
  <2> QED
    BY <1>6, <2>1, AnswersTyped, SettleStep DEF Receive, Active
<1>7. ASSUME NEW r \in Requests, Disconnect(r) PROVE IInv'
  <2>1. cache' \in BOOLEAN
    BY <1>7 DEF Disconnect, IInv, TypeOK
  <2> QED
    BY <1>3, <1>7, <2>1 DEF Disconnect
<1>8. CASE UNCHANGED vars
  BY <1>8 DEF vars, IInv, TypeOK, ReqInv, Budget
<1> QED
  BY <1>2, <1>4, <1>5, <1>6, <1>7, <1>8 DEF Next, Quiet

\* The invariant holds of every reachable state.
THEOREM Invariance == Spec => []IInv
<1> QED
  BY InitIInv, NextIInv, PTL DEF Spec

\* Every variable always has its type, and a request on its way has a tier:
\* a climb never leaves the ladder.
THEOREM TypeCorrect == Spec => []TypeOK
<1>1. IInv => TypeOK
  BY DEF IInv
<1> QED
  BY <1>1, Invariance, PTL

\* One request costs at most 2 * Budget + 1 calls, and never more than five.
THEOREM CallsBounded == Spec => []CallBound
<1>1. ASSUME IInv PROVE CallBound
  <2> SUFFICES ASSUME NEW r \in Requests
               PROVE  Len(trail[r]) <= 2 * Budget + 1 /\ Len(trail[r]) <= 5
    BY DEF CallBound
  <2>1. Budget \in Nat /\ escs[r] \in Nat /\ Len(trail[r]) \in Nat /\ ReqInv(r)
    BY <1>1, BudgetNat DEF IInv, TypeOK
  <2>2. pc[r] # "idle" => /\ Rank[tier[r]] \in 0 .. 2
                          /\ tier[r] # "Complex" => Rank[tier[r]] < 2
    BY <1>1 DEF IInv, TypeOK, Rank, Tier
  <2>3. pc[r] \in Active \cup {"idle", "done", "gone"}
    BY <1>1 DEF IInv, TypeOK
  <2> QED
    BY <2>1, <2>2, <2>3 DEF ReqInv
<1> QED
  BY <1>1, Invariance, PTL

-----------------------------------------------------------------------------
\* How the control point of a request reads on the ladder.
LEMMA PhaseOf ==
  ASSUME TypeOK, NEW r \in Requests
  PROVE  /\ LadderPhase[r] = "new" <=> pc[r] = "idle"
         /\ LadderPhase[r] = "trying" <=> pc[r] \in Active
         /\ LadderPhase[r] = "answered" <=> pc[r] = "done"
         /\ LadderPhase[r] = "gone" <=> pc[r] = "gone"
<1>1. pc[r] \in Active \cup {"idle", "done", "gone"}
  BY DEF TypeOK
<1> QED
  BY <1>1 DEF LadderPhase, Phase, Active

LEMMA PhaseValues == /\ Phase["done"] = "answered" /\ Phase["gone"] = "gone"
                     /\ \A p \in Active : Phase[p] = "trying"
  BY DEF Phase, Active

\* A step that moves pc[r] only changes the phase of r, and accordingly.
LEMMA PhaseStep ==
  ASSUME TypeOK, NEW r \in Requests, NEW p \in Active \cup {"done", "gone"},
         pc' = [pc EXCEPT ![r] = p]
  PROVE  LadderPhase' = [LadderPhase EXCEPT ![r] = Phase[p]]
<1>1. pc'[r] = p /\ \A q \in Requests : q # r => pc'[q] = pc[q]
  BY DEF TypeOK
<1>2. ASSUME NEW q \in Requests
      PROVE  LadderPhase'[q] = IF q = r THEN Phase[p] ELSE LadderPhase[q]
  BY <1>1 DEF LadderPhase
<1> QED
  BY <1>2 DEF LadderPhase

\* A step of a request on its way that keeps it on its way.
LEMMA PhaseUnchanged ==
  ASSUME TypeOK, NEW r \in Requests, pc[r] \in Active, NEW p \in Active,
         pc' = [pc EXCEPT ![r] = p]
  PROVE  UNCHANGED LadderPhase
<1>1. LadderPhase' = [LadderPhase EXCEPT ![r] = "trying"]
  <2>1. LadderPhase' = [LadderPhase EXCEPT ![r] = Phase[p]]
    BY PhaseStep
  <2>2. Phase[p] = "trying"
    BY PhaseValues
  <2> QED
    BY <2>1, <2>2
<1>2. LadderPhase[r] = "trying"
  BY PhaseOf
<1> QED
  BY <1>1, <1>2 DEF LadderPhase

\* Settling an outcome is a climb, an answer, or nothing the ladder sees.
LEMMA SettleRefines ==
  ASSUME IInv, NEW r \in Requests, pc[r] \in Active, NEW out, Settle(r, out), UNCHANGED cfg
  PROVE  [L!Next]_(L!vars)
<1>1. TypeOK /\ Budget' = Budget /\ ReqInv(r)
  BY DEF IInv, Budget
<1>2. tier[r] \in Tier /\ LadderPhase[r] = "trying"
  BY <1>1, PhaseOf DEF TypeOK, Active
<1>3. NextTier(r) # NoTier <=> escs[r] < Budget /\ tier[r] # "Complex"
  BY <1>2, NextTierOffered
<1>4. CASE NextTier(r) # NoTier /\ Climb(r)
  <2>1. UNCHANGED LadderPhase
    BY <1>1, <1>2, <1>4, PhaseUnchanged DEF Climb, Active
  <2>2. NextTier(r) = Escalate(tier[r])
    BY <1>3, <1>4 DEF NextTier
  <2>3. L!Climb(r)
    BY <1>1, <1>2, <1>3, <1>4, <2>1, <2>2 DEF Climb, L!Climb, L!Escalate, Escalate, NoTier, L!NoTier
  <2> QED
    BY <2>3 DEF L!Next
<1>5. CASE AskJudge(r, out)
  BY <1>1, <1>2, <1>5, PhaseUnchanged DEF AskJudge, Active, L!vars
<1>6. ASSUME NEW res, Return(r, res) PROVE L!Finish(r)
  <2>1. LadderPhase' = [LadderPhase EXCEPT ![r] = Phase["done"]]
    BY <1>1, <1>6, PhaseStep DEF Return
  <2> QED
    BY <1>1, <1>2, <1>6, <2>1, PhaseValues DEF Return, L!Finish
<1>7. CASE SettleMain(r, out)
  BY <1>4, <1>5, <1>6, <1>7 DEF SettleMain, L!Next
<1>8. CASE call[r] = "judge" /\ SettleJudge(r, out)
  <2>1. NextTier(r) # NoTier
    BY <1>1, <1>3, <1>8 DEF ReqInv
  <2> QED
    BY <1>4, <1>6, <1>8, <2>1 DEF SettleJudge, L!Next
<1> QED
  BY <1>7, <1>8 DEF Settle

\* Every step of forward is a step of the ladder or leaves it alone.
LEMMA StepRefines == IInv /\ [Next]_vars => [L!Next]_(L!vars)
<1> SUFFICES ASSUME IInv, [Next]_vars PROVE [L!Next]_(L!vars)
  OBVIOUS
<1>1. TypeOK
  BY DEF IInv
<1>2. ASSUME NEW r \in Requests, Forward(r) PROVE L!Enter(r)
  <2>1. LadderPhase' = [LadderPhase EXCEPT ![r] = Phase["prepare"]]
    BY <1>1, <1>2, PhaseStep DEF Forward, Active
  <2>2. LadderPhase[r] = "new"
    BY <1>1, <1>2, PhaseOf DEF Forward
  <2> QED
    BY <1>2, <2>1, <2>2, PhaseValues DEF Forward, L!Enter, L!Tier, Tier, Budget, Active
\* A step towards the call.
<1>3. ASSUME NEW r \in Requests, pc[r] \in Active, NEW p \in Active,
             pc' = [pc EXCEPT ![r] = p], UNCHANGED <<cfg, tier, escs>>
      PROVE  UNCHANGED L!vars
  BY <1>1, <1>3, PhaseUnchanged DEF L!vars, Budget
<1>4. ASSUME NEW r \in Requests, Prepare(r) PROVE [L!Next]_(L!vars)
  <2>1. CASE Settle(r, Error("ProviderNotFound")) \/ Settle(r, Error("AuthenticationFailed"))
    BY <1>4, <2>1, SettleRefines DEF Prepare, Active
  <2>2. CASE \E p \in {"send", "store"} : pc' = [pc EXCEPT ![r] = p] /\ UNCHANGED <<tier, escs>>
    BY <1>3, <1>4, <2>2 DEF Prepare, Active
  <2> QED
    BY <1>4, <2>1, <2>2 DEF Prepare
<1>5. ASSUME NEW r \in Requests, StoreToken(r) PROVE UNCHANGED L!vars
  BY <1>3, <1>5 DEF StoreToken, Active
<1>6. ASSUME NEW r \in Requests, Receive(r) PROVE [L!Next]_(L!vars)
  BY <1>6, SettleRefines DEF Receive, Active
<1>7. ASSUME NEW r \in Requests, Disconnect(r) PROVE L!Finish(r)
  <2>1. LadderPhase' = [LadderPhase EXCEPT ![r] = Phase["gone"]]
    BY <1>1, <1>7, PhaseStep DEF Disconnect
  <2>2. LadderPhase[r] = "trying"
    BY <1>1, <1>7, PhaseOf DEF Disconnect
  <2> QED
    BY <1>7, <2>1, <2>2, PhaseValues DEF Disconnect, L!Finish, Budget
<1>8. CASE UNCHANGED vars
  BY <1>8 DEF vars, L!vars, LadderPhase, Budget
<1> QED
  BY <1>2, <1>4, <1>5, <1>6, <1>7, <1>8 DEF Next, Quiet, L!Next

\* forward implements the ladder: one tier at a time, one rung at a time, never
\* more climbs than the budget, and nothing after the answer.
THEOREM Implements == Spec => ClimbsTheLadder
<1>1. Init => L!Init
  <2> SUFFICES ASSUME Init PROVE L!Init
    OBVIOUS
  <2>1. Budget \in Nat
    BY BudgetNat DEF Init
  <2> QED
    BY <2>1 DEF Init, L!Init, LadderPhase, Phase, NoTier, L!NoTier
<1> QED
  BY <1>1, StepRefines, Invariance, PTL DEF Spec, L!Spec, ClimbsTheLadder
-----------------------------------------------------------------------------
\* What the call a takes the request away from: an answer that a higher tier may
\* better, or one the judge scored below the minimum.
Left(a) ==
  IF a.call = "judge"
  THEN a.out.kind = "verdict" /\ (a.out.digit < cfg.minScore \/ cfg.minScore > 5)
  ELSE ~Deterministic(a.out) /\ ~Sound(a.out)

\* Two calls in a row: the second judges the first, or follows it one rung up.
Follows(a, b) ==
  /\ IF b.call = "judge" THEN a.call = "main" /\ b.rung = a.rung
                         ELSE Rank[b.rung] = Rank[a.rung] + 1
  /\ b.call = "main" => Left(a)

\* The last answer among the calls of s is rep, judged or not.
Answered(s, rep) ==
  \/ s[Len(s)].call = "main" /\ s[Len(s)].out = rep
  \/ /\ Len(s) > 1 /\ s[Len(s)].call = "judge"
     /\ s[Len(s) - 1].call = "main" /\ s[Len(s) - 1].out = rep

\* What the trail of a request says about where it stands.
TrailInv(r) ==
  /\ \A i \in 1 .. Len(trail[r]) - 1 : Follows(trail[r][i], trail[r][i + 1])
  /\ trail[r] = <<>> => escs[r] = 0
  /\ trail[r] # <<>> => escs[r] = Rank[tier[r]] - Rank[trail[r][1].rung]
  /\ pc[r] \in Active /\ call[r] = "main" /\ trail[r] # <<>> =>
       /\ Rank[tier[r]] = Rank[trail[r][Len(trail[r])].rung] + 1
       /\ Left(trail[r][Len(trail[r])])
  /\ pc[r] \in Active /\ call[r] = "judge" =>
       /\ trail[r] # <<>> /\ ~Failed(reply[r])
       /\ trail[r][Len(trail[r])].call = "main"
       /\ trail[r][Len(trail[r])].rung = tier[r]
       /\ trail[r][Len(trail[r])].out = reply[r]
  /\ pc[r] = "done" =>
       /\ trail[r] # <<>> /\ trail[r][Len(trail[r])].rung = tier[r]
       /\ Answered(trail[r], reply[r])
       /\ Failed(reply[r]) => escs[r] >= Budget \/ tier[r] = "Complex"

\* The checks send away what a higher tier may better, and every failure.
LEMMA EscalatesWell ==
  ASSUME NEW out \in Outcomes
  PROVE  /\ Escalates(out) => ~Deterministic(out) /\ ~Sound(out)
         /\ Failed(out) => Escalates(out)
<1>1. CASE out \in Errors
  <2>1. /\ out.kind = "error" /\ out.status \in Nat
        /\ out.error \in {"RequestFailed", "ParseError", "ProviderError", "ProviderNotFound",
                          "AuthenticationFailed"}
    BY <1>1, ConstantsAssumption DEF Errors, TransportErrors, Error, ProviderError
  <2> QED
    BY <2>1 DEF Escalates, ShouldEscalateError, Deterministic, Sound, Failed
<1>2. CASE out \in Completions
  <2>1. out.kind = "complete" /\ out.text \in Texts /\ out.finish \in Finishes
    BY <1>2, ConstantsAssumption DEF CompletionType
  <2> QED
    BY <2>1 DEF Escalates, ResponseIsDegenerate, Deterministic, Sound, Failed, Finishes,
                NoFinish, Texts
<1>3. CASE out \in Prefixes
  <2>1. out.kind = "stream" /\ out.text \in Texts /\ out.finish \in Finishes
    BY <1>3, ConstantsAssumption DEF PrefixType
  <2> QED
    BY <2>1 DEF Escalates, PrefixIsDegenerate, Deterministic, Sound, Failed, Finishes,
                NoFinish, Texts
<1> QED
  BY <1>1, <1>2, <1>3 DEF Outcomes

\* A score below the minimum is one, or stands for an answer without a digit.
LEMMA JudgedDown ==
  ASSUME NEW out \in Outcomes \cup Verdicts, ~JudgeAdequate(out), cfg \in Configs
  PROVE  out.kind = "verdict" /\ (out.digit < cfg.minScore \/ cfg.minScore > 5)
<1>1. out.kind = "verdict"
  BY DEF JudgeAdequate
<1>2. cfg.minScore \in Nat
  BY ConstantsAssumption DEF ConfigType
<1>3. out \notin Outcomes
  <2>1. \A e \in Errors : e.kind = "error"
    BY DEF Errors, TransportErrors, Error, ProviderError
  <2>2. \A c \in Completions : c.kind = "complete"
    BY ConstantsAssumption DEF CompletionType
  <2>3. \A c \in Prefixes : c.kind = "stream"
    BY ConstantsAssumption DEF PrefixType
  <2> QED
    BY <1>1, <2>1, <2>2, <2>3 DEF Outcomes
<1>4. PICK d \in JudgeDigits : out = Verdict(d)
  BY <1>3 DEF Verdicts
<1>5. out.digit = d /\ d \in 0 .. NoDigit
  BY <1>4, ConstantsAssumption DEF Verdict
<1> QED
  BY <1>1, <1>2, <1>5 DEF JudgeAdequate, NoDigit

\* A request that a step does not touch keeps what is known of it.
LEMMA TrailFrame ==
  ASSUME NEW q \in Requests, TrailInv(q), cfg' = cfg,
         pc'[q] = pc[q], tier'[q] = tier[q], escs'[q] = escs[q], call'[q] = call[q],
         reply'[q] = reply[q], trail'[q] = trail[q]
  PROVE  TrailInv(q)'
<1>1. Budget' = Budget
  BY DEF Budget
<1>2. \A a : Left(a)' <=> Left(a)
  BY DEF Left
<1>3. \A a, b : Follows(a, b)' <=> Follows(a, b)
  BY <1>2 DEF Follows
<1> QED
  BY <1>1, <1>2, <1>3 DEF TrailInv, Answered, Active

\* What forward does with an outcome keeps the trail and the report together.
LEMMA SettleTrail ==
  ASSUME IInv, NEW r \in Requests, TrailInv(r), pc[r] \in Active,
         NEW out \in Outcomes \cup Verdicts, call[r] # "judge" => out \in Outcomes,
         Settle(r, out), cfg' = cfg
  PROVE  TrailInv(r)'
<1> DEFINE entry == [call |-> call[r], rung |-> tier[r], out |-> out]
           s == trail[r]
           n == Len(trail[r])
<1>1. Budget \in Nat /\ Budget' = Budget /\ cfg \in Configs
  BY BudgetNat DEF IInv, TypeOK, Budget
<1>2. /\ tier[r] \in Tier /\ escs[r] \in Nat /\ call[r] \in {"main", "judge"}
      /\ s \in Seq(Calls) /\ n \in Nat /\ entry \in Calls /\ (s = <<>> <=> n = 0)
  <2>1. tier[r] \in Tier /\ escs[r] \in Nat /\ call[r] \in {"main", "judge"} /\ s \in Seq(Calls)
    BY DEF IInv, TypeOK, Active
  <2>2. entry \in Calls
    BY <2>1 DEF Calls
  <2> QED
    BY <2>1, <2>2
<1>3. trail'[r] = Append(s, entry)
  BY DEF Settle, IInv, TypeOK
<1>4. /\ Len(trail'[r]) = n + 1 /\ trail'[r] # <<>> /\ trail'[r][n + 1] = entry
      /\ \A i \in 1 .. n : trail'[r][i] = s[i]
  BY <1>2, <1>3
<1>5. /\ Rank[tier[r]] \in 0 .. 2
      /\ NextTier(r) # NoTier <=> escs[r] < Budget /\ tier[r] # "Complex"
      /\ NextTier(r) # NoTier => Rank[NextTier(r)] = Rank[tier[r]] + 1
  BY <1>2, EscalateRank, NextTierOffered
<1>6. \A a, b : (Left(a)' <=> Left(a)) /\ (Follows(a, b)' <=> Follows(a, b))
  BY DEF Follows, Left
<1>7. n > 0 => Follows(s[n], entry)
  <2>1. CASE call[r] = "judge"
    BY <1>2, <2>1 DEF TrailInv, Follows
  <2>2. CASE call[r] = "main"
    BY <1>2, <2>2 DEF TrailInv, Follows
  <2> QED
    BY <1>2, <2>1, <2>2
<1>8. (\A i \in 1 .. Len(trail[r]) - 1 : Follows(trail[r][i], trail[r][i + 1]))'
  <2>1. ASSUME NEW i \in 1 .. n PROVE Follows(trail'[r][i], trail'[r][i + 1])
    <3>1. CASE i = n
      BY <1>2, <1>4, <1>7, <3>1
    <3>2. CASE i < n
      <4>1. i \in 1 .. n - 1 /\ i + 1 \in 1 .. n
        BY <1>2, <3>2
      <4>2. Follows(s[i], s[i + 1])
        BY <4>1 DEF TrailInv
      <4> QED
        BY <1>4, <4>1, <4>2
    <3> QED
      BY <1>2, <3>1, <3>2
  <2>2. \A i \in 1 .. Len(trail'[r]) - 1 : Follows(trail'[r][i], trail'[r][i + 1])
    BY <1>2, <1>4, <2>1
  <2> QED
    BY <2>2 DEF Follows, Left
\* The first call of the trail is still the first.
<1>9. escs[r] = Rank[tier[r]] - Rank[trail'[r][1].rung]
  <2>1. CASE n = 0
    BY <1>2, <1>4, <1>5, <2>1 DEF TrailInv
  <2>2. CASE n > 0
    <3>1. trail'[r][1] = s[1]
      BY <1>2, <1>4, <2>2
    <3> QED
      BY <1>2, <2>2, <3>1 DEF TrailInv
  <2> QED
    BY <1>2, <2>1, <2>2
<1>10. CASE NextTier(r) # NoTier /\ Climb(r) /\ Left(entry)
  <2>1. /\ pc'[r] = "prepare" /\ call'[r] = "main" /\ tier'[r] = NextTier(r)
        /\ escs'[r] = escs[r] + 1
    BY <1>10 DEF IInv, TypeOK, Climb
  <2>2. Rank[trail'[r][1].rung] \in 0 .. 2
    <3>1. trail'[r][1] \in Calls
      <4>1. CASE n = 0
        BY <1>2, <1>4, <4>1
      <4>2. CASE n > 0
        <5>1. trail'[r][1] = s[1]
          BY <1>2, <1>4, <4>2
        <5> QED
          BY <1>2, <4>2, <5>1
      <4> QED
        BY <1>2, <4>1, <4>2
    <3>2. trail'[r][1].rung \in Tier
      BY <3>1 DEF Calls
    <3> QED
      BY <3>2, EscalateRank
  <2>3. escs'[r] = Rank[tier'[r]] - Rank[trail'[r][1].rung]
    BY <1>2, <1>5, <1>9, <1>10, <2>1, <2>2
  <2>4. Rank[tier'[r]] = Rank[entry.rung] + 1
    BY <1>5, <1>10, <2>1
  <2>5. trail'[r][Len(trail'[r])] = entry
    BY <1>2, <1>4
  <2>6. Left(trail[r][Len(trail[r])])'
    BY <1>10, <2>5 DEF Left
  <2>7. Rank[tier'[r]] = Rank[trail'[r][Len(trail'[r])].rung] + 1
    BY <2>4, <2>5
  <2> HIDE DEF entry
  <2> QED
    BY <1>4, <1>8, <2>1, <2>3, <2>6, <2>7 DEF TrailInv, Active
<1>11. CASE call[r] = "main" /\ AskJudge(r, out) /\ ~Failed(out)
  <2>1. /\ pc'[r] = "prepare" /\ call'[r] = "judge" /\ tier'[r] = tier[r]
        /\ escs'[r] = escs[r] /\ reply'[r] = out
    BY <1>11 DEF IInv, TypeOK, AskJudge
  <2>2. entry.call = "main" /\ entry.rung = tier[r] /\ entry.out = out
    BY <1>11
  <2>3. trail'[r][Len(trail'[r])] = entry
    BY <1>2, <1>4
  <2>4. /\ trail'[r][Len(trail'[r])].call = "main"
        /\ trail'[r][Len(trail'[r])].rung = tier'[r]
        /\ trail'[r][Len(trail'[r])].out = reply'[r]
    BY <2>1, <2>2, <2>3
  <2>5. ~Failed(reply[r])'
    BY <1>11, <2>1 DEF Failed, Deterministic
  <2>6. escs'[r] = Rank[tier'[r]] - Rank[trail'[r][1].rung]
    BY <1>9, <2>1
  <2> HIDE DEF entry
  <2> QED
    BY <1>4, <1>8, <2>1, <2>4, <2>5, <2>6 DEF TrailInv, Active
<1>12. ASSUME NEW res, Return(r, res), Answered(trail'[r], res),
              Failed(res) => escs[r] >= Budget \/ tier[r] = "Complex"
       PROVE  TrailInv(r)'
  <2>1. /\ pc'[r] = "done" /\ tier'[r] = tier[r] /\ escs'[r] = escs[r] /\ reply'[r] = res
    BY <1>12 DEF IInv, TypeOK, Return
  <2>2. entry.rung = tier[r]
    OBVIOUS
  <2> HIDE DEF entry
  <2>3. Answered(trail[r], reply[r])'
    BY <1>12, <2>1 DEF Answered
  <2>4. trail'[r][Len(trail'[r])].rung = tier'[r]
    BY <1>2, <1>4, <2>1, <2>2
  <2>5. (Failed(reply[r]) => escs[r] >= Budget \/ tier[r] = "Complex")'
    BY <1>1, <1>12, <2>1 DEF Failed, Deterministic
  <2>6. escs'[r] = Rank[tier'[r]] - Rank[trail'[r][1].rung]
    BY <1>9, <2>1
  <2> QED
    BY <1>4, <1>8, <2>1, <2>3, <2>4, <2>5, <2>6 DEF TrailInv, Active
<1>13. CASE call[r] = "main" /\ SettleMain(r, out)
  <2>1. out \in Outcomes
    BY <1>13
  <2>2. /\ Escalates(out) => ~Deterministic(out) /\ ~Sound(out)
        /\ Failed(out) => Escalates(out)
    BY <2>1, EscalatesWell
  <2>3. CASE NextTier(r) # NoTier /\ Escalates(out) /\ Climb(r)
    <3>1. Left(entry)
      BY <1>13, <2>2, <2>3 DEF Left
    <3> QED
      BY <1>10, <2>3, <3>1
  <2>4. CASE ~Escalates(out) /\ AskJudge(r, out)
    BY <1>11, <1>13, <2>2, <2>4
  <2>5. CASE /\ NextTier(r) = NoTier \/ (~Escalates(out) /\ ~JudgeApplies(out))
             /\ Return(r, out)
    <3>1. Answered(trail'[r], out)
      BY <1>4, <1>13 DEF Answered
    <3>2. Failed(out) => escs[r] >= Budget \/ tier[r] = "Complex"
      BY <1>1, <1>2, <1>5, <2>2, <2>5
    <3> QED
      BY <1>12, <2>5, <3>1, <3>2
  <2> QED
    BY <1>13, <2>3, <2>4, <2>5 DEF SettleMain
<1>14. CASE call[r] = "judge" /\ SettleJudge(r, out)
  <2>1. NextTier(r) # NoTier
    BY <1>5, <1>14 DEF IInv, ReqInv
  <2>2. /\ n > 0 /\ ~Failed(reply[r]) /\ s[n].call = "main" /\ s[n].out = reply[r]
    BY <1>2, <1>14 DEF TrailInv
  <2>3. CASE JudgeAdequate(out) /\ Return(r, reply[r])
    <3>1. trail'[r][n] = s[n]
      BY <1>2, <1>4, <2>2
    <3>2. Answered(trail'[r], reply[r])
      BY <1>2, <1>4, <1>14, <2>2, <3>1 DEF Answered
    <3> QED
      BY <1>12, <2>2, <2>3, <3>2
  <2>4. CASE ~JudgeAdequate(out) /\ Climb(r)
    <3>1. Left(entry)
      BY <1>1, <1>14, <2>4, JudgedDown DEF Left
    <3> QED
      BY <1>10, <2>1, <2>4, <3>1
  <2> QED
    BY <1>14, <2>3, <2>4 DEF SettleJudge
<1> QED
  BY <1>13, <1>14 DEF Settle

\* A request that a Settle of another does not touch.
LEMMA SettleOthers ==
  ASSUME IInv, NEW r \in Requests, NEW out, Settle(r, out), NEW q \in Requests, q # r
  PROVE  /\ pc'[q] = pc[q] /\ tier'[q] = tier[q] /\ escs'[q] = escs[q]
         /\ call'[q] = call[q] /\ reply'[q] = reply[q] /\ trail'[q] = trail[q]
<1>1. trail'[q] = trail[q]
  BY DEF Settle, IInv, TypeOK
<1>2. ASSUME Climb(r) \/ (\E res : AskJudge(r, res) \/ Return(r, res))
      PROVE  /\ pc'[q] = pc[q] /\ tier'[q] = tier[q] /\ escs'[q] = escs[q]
             /\ call'[q] = call[q] /\ reply'[q] = reply[q]
  BY <1>2 DEF Climb, AskJudge, Return, IInv, TypeOK
<1> QED
  BY <1>1, <1>2 DEF Settle, SettleMain, SettleJudge

\* The trails of all requests.
TrailsInv == \A r \in Requests : TrailInv(r)

\* Every step keeps the trails.
LEMMA TrailStep == IInv /\ TrailsInv /\ [Next]_vars => TrailsInv'
<1> SUFFICES ASSUME IInv, TrailsInv, [Next]_vars PROVE TrailsInv'
  OBVIOUS
<1>1. ASSUME NEW r \in Requests, pc[r] \in Active, NEW out \in Outcomes \cup Verdicts,
             call[r] # "judge" => out \in Outcomes, Settle(r, out), cfg' = cfg
      PROVE  TrailsInv'
  <2>1. TrailInv(r)'
    BY <1>1, SettleTrail DEF TrailsInv
  <2>2. ASSUME NEW q \in Requests, q # r PROVE TrailInv(q)'
    BY <1>1, <2>2, SettleOthers, TrailFrame DEF TrailsInv
  <2> QED
    BY <2>1, <2>2 DEF TrailsInv
<1>2. ASSUME NEW r \in Requests, Forward(r) PROVE TrailsInv'
  <2>1. /\ cfg' = cfg /\ trail' = trail /\ escs' = escs /\ call' = call /\ reply' = reply
        /\ pc' = [pc EXCEPT ![r] = "prepare"]
    BY <1>2 DEF Forward
  <2>2. trail[r] = <<>> /\ escs[r] = 0 /\ call[r] = "main" /\ Len(trail[r]) = 0
    BY <1>2 DEF IInv, ReqInv, Forward
  <2>3. TrailInv(r)'
    <3>1. pc'[r] = "prepare" /\ trail'[r] = <<>> /\ Len(trail'[r]) = 0 /\ escs'[r] = 0
          /\ call'[r] = "main"
      BY <2>1, <2>2 DEF IInv, TypeOK
    <3> QED
      BY <3>1 DEF TrailInv, Active
  <2>4. ASSUME NEW q \in Requests, q # r PROVE TrailInv(q)'
    <3>1. pc'[q] = pc[q] /\ tier'[q] = tier[q]
      BY <1>2, <2>4 DEF Forward, IInv, TypeOK
    <3> QED
      BY <2>1, <3>1, TrailFrame DEF TrailsInv
  <2> QED
    BY <2>3, <2>4 DEF TrailsInv
<1>3. ASSUME NEW r \in Requests, pc[r] \in Active,
             NEW p \in Active \cup {"gone"}, pc' = [pc EXCEPT ![r] = p],
             UNCHANGED <<cfg, tier, escs, call, reply, trail>>
      PROVE  TrailsInv'
  <2>1. pc'[r] = p /\ p # "done"
    BY <1>3 DEF IInv, TypeOK, Active
  <2>2. TrailInv(r)'
    <3>1. \A a, b : (Left(a)' <=> Left(a)) /\ (Follows(a, b)' <=> Follows(a, b))
      BY <1>3 DEF Follows, Left
    <3>2. TrailInv(r)
      BY DEF TrailsInv
    <3>3. tier'[r] = tier[r] /\ escs'[r] = escs[r] /\ call'[r] = call[r]
          /\ reply'[r] = reply[r] /\ trail'[r] = trail[r]
      BY <1>3
    <3> QED
      BY <1>3, <2>1, <3>1, <3>2, <3>3 DEF TrailInv
  <2>3. ASSUME NEW q \in Requests, q # r PROVE TrailInv(q)'
    <3>1. pc'[q] = pc[q]
      BY <1>3, <2>3 DEF IInv, TypeOK
    <3> QED
      BY <1>3, <3>1, TrailFrame DEF TrailsInv
  <2> QED
    BY <2>2, <2>3 DEF TrailsInv
<1>4. ASSUME NEW r \in Requests, Prepare(r) PROVE TrailsInv'
  <2>1. /\ Error("ProviderNotFound") \in Outcomes
        /\ Error("AuthenticationFailed") \in Outcomes
    BY DEF Outcomes, Errors
  <2>2. pc[r] \in Active /\ cfg' = cfg
    BY <1>4 DEF Prepare, Active
  <2>3. CASE Settle(r, Error("ProviderNotFound")) \/ Settle(r, Error("AuthenticationFailed"))
    BY <1>1, <2>1, <2>2, <2>3
  <2>4. CASE \E p \in {"send", "store"} :
               pc' = [pc EXCEPT ![r] = p] /\ UNCHANGED <<tier, escs, call, reply, trail>>
    BY <1>3, <2>2, <2>4 DEF Active
  <2> QED
    BY <1>4, <2>3, <2>4 DEF Prepare
<1>5. ASSUME NEW r \in Requests, StoreToken(r) PROVE TrailsInv'
  BY <1>3, <1>5 DEF StoreToken, Active
<1>6. ASSUME NEW r \in Requests, Receive(r) PROVE TrailsInv'
  <2>1. PICK out \in Answers(r) : Settle(r, out)
    BY <1>6 DEF Receive
  <2> QED
    BY <1>1, <1>6, <2>1, AnswersTyped DEF Receive, Active
<1>7. ASSUME NEW r \in Requests, Disconnect(r) PROVE TrailsInv'
  BY <1>3, <1>7 DEF Disconnect
<1>8. CASE UNCHANGED vars
  BY <1>8, TrailFrame DEF vars, TrailsInv
<1> QED
  BY <1>2, <1>4, <1>5, <1>6, <1>7, <1>8 DEF Next, Quiet

\* So the trails are right in every reachable state.
LEMMA TrailsHold == Spec => []TrailsInv
<1>1. Init => TrailsInv
  <2> SUFFICES ASSUME Init, NEW r \in Requests PROVE TrailInv(r)
    BY DEF TrailsInv
  <2>1. trail[r] = <<>> /\ Len(trail[r]) = 0 /\ escs[r] = 0 /\ pc[r] = "idle"
    BY DEF Init
  <2> QED
    BY <2>1 DEF TrailInv, Active
<1> QED
  BY <1>1, TrailStep, Invariance, PTL DEF Spec

\* What forward reports is the climb that its calls made, and the answer it
\* returns the last one given there.
THEOREM ClimbIsReported == Spec => []ReportsTheClimb
<1>1. ASSUME IInv, TrailsInv PROVE ReportsTheClimb
  <2>1. RungsInOrder
    <3> SUFFICES ASSUME NEW r \in Requests
                 PROVE  /\ \A i \in 1 .. Len(trail[r]) - 1 :
                             Follows(trail[r][i], trail[r][i + 1])
                        /\ pc[r] = "done" =>
                             /\ Len(trail[r]) > 0
                             /\ trail[r][Len(trail[r])].rung = tier[r]
                             /\ escs[r] = Rank[tier[r]] - Rank[trail[r][1].rung]
      BY DEF RungsInOrder, Follows
    <3>1. TrailInv(r) /\ Len(trail[r]) \in Nat /\ (Len(trail[r]) = 0 <=> trail[r] = <<>>)
      BY <1>1 DEF TrailsInv, IInv, TypeOK
    <3> QED
      BY <3>1 DEF TrailInv
  <2>2. ReturnsLastAnswer
    <3> SUFFICES ASSUME NEW r \in Requests, pc[r] = "done"
                 PROVE  \E i \in 1 .. Len(trail[r]) :
                          /\ trail[r][i].call = "main" /\ trail[r][i].out = reply[r]
                          /\ \A j \in i + 1 .. Len(trail[r]) : trail[r][j].call = "judge"
      BY DEF ReturnsLastAnswer
    <3>1. Len(trail[r]) \in Nat /\ Len(trail[r]) > 0 /\ Answered(trail[r], reply[r])
      <4>1. TrailInv(r) /\ Len(trail[r]) \in Nat /\ (Len(trail[r]) = 0 <=> trail[r] = <<>>)
        BY <1>1 DEF TrailsInv, IInv, TypeOK
      <4> QED
        BY <4>1 DEF TrailInv
    <3>2. CASE /\ trail[r][Len(trail[r])].call = "main"
               /\ trail[r][Len(trail[r])].out = reply[r]
      BY <3>1, <3>2
    <3>3. CASE /\ Len(trail[r]) > 1 /\ trail[r][Len(trail[r])].call = "judge"
               /\ trail[r][Len(trail[r]) - 1].call = "main"
               /\ trail[r][Len(trail[r]) - 1].out = reply[r]
      <4>1. /\ Len(trail[r]) - 1 \in 1 .. Len(trail[r])
            /\ \A j \in Len(trail[r]) - 1 + 1 .. Len(trail[r]) : j = Len(trail[r])
        BY <3>1, <3>3
      <4> QED
        BY <3>3, <4>1
    <3> QED
      BY <3>1, <3>2, <3>3 DEF Answered
  <2> QED
    BY <2>1, <2>2 DEF ReportsTheClimb
<1> QED
  BY <1>1, Invariance, TrailsHold, PTL

\* forward never climbs away from a sound answer or an error that stays, and
\* returns a failure only when it has nowhere left to climb.
THEOREM EscalationIsRight == Spec => []EscalatesRightly
<1>1. ASSUME IInv, TrailsInv PROVE EscalatesRightly
  <2>1. SoundAnswerKept
    <3> SUFFICES ASSUME NEW r \in Requests, NEW i \in 1 .. Len(trail[r]) - 1,
                        trail[r][i + 1].call = "main"
                 PROVE  Left(trail[r][i])
      BY DEF SoundAnswerKept, Left
    <3> QED
      BY <1>1 DEF TrailsInv, TrailInv, Follows
  <2>2. FailedOnlyWhenExhausted
    BY <1>1 DEF TrailsInv, TrailInv, FailedOnlyWhenExhausted
  <2> QED
    BY <2>1, <2>2 DEF EscalatesRightly
<1> QED
  BY <1>1, Invariance, TrailsHold, PTL

-----------------------------------------------------------------------------
\* The steps a call of forward_once may still take, and those a request may: a
\* rung is worth more than the calls of the model and of the judge on it.
StepsOf == [prepare |-> 3, store |-> 2, send |-> 1]

WorkAt(p, t, c) ==
  IF p = "idle" THEN 24
  ELSE IF p \in Active THEN 8 * (2 - Rank[t]) + (IF c = "main" THEN 4 ELSE 0) + StepsOf[p]
  ELSE 0

Work(r) == WorkAt(pc[r], tier[r], call[r])

Advances(r) ==
  /\ Work(r) \in Nat /\ Work(r)' \in Nat /\ Work(r)' < Work(r)
  /\ \A q \in Requests \ {r} : Work(q)' = Work(q)

\* Whatever happens in the gateway, one request comes nearer to its end and no
\* other is set back: not by the race for the token, nor by a departure.
EveryStepAdvances == [][\E r \in Requests : Advances(r)]_vars

\* What is left to do on the way is a number, and nothing at the end only.
LEMMA WorkOnTheWay ==
  ASSUME NEW p \in Active, NEW t \in Tier, NEW c \in {"main", "judge"}
  PROVE  /\ WorkAt(p, t, c) = 8 * (2 - Rank[t]) + (IF c = "main" THEN 4 ELSE 0) + StepsOf[p]
         /\ StepsOf[p] \in 1 .. 3 /\ Rank[t] \in 0 .. 2
         /\ WorkAt(p, t, c) \in 1 .. 23
<1>1. StepsOf[p] \in 1 .. 3 /\ p # "idle"
  BY DEF StepsOf, Active
<1>2. Rank[t] \in 0 .. 2
  BY EscalateRank
<1>3. WorkAt(p, t, c) = 8 * (2 - Rank[t]) + (IF c = "main" THEN 4 ELSE 0) + StepsOf[p]
  BY <1>1 DEF WorkAt
<1> QED
  BY <1>1, <1>2, <1>3

\* A request's step leaves the work of the others alone.
LEMMA WorkOfOthers ==
  ASSUME TypeOK, NEW r \in Requests, NEW p, NEW t, NEW c,
         pc' = [pc EXCEPT ![r] = p], tier' = [tier EXCEPT ![r] = t],
         call' = [call EXCEPT ![r] = c]
  PROVE  /\ Work(r)' = WorkAt(p, t, c)
         /\ \A q \in Requests \ {r} : Work(q)' = Work(q)
  BY DEF TypeOK, Work, WorkAt

\* What forward does with an outcome brings the request nearer to its end.
LEMMA SettleAdvances ==
  ASSUME IInv, NEW r \in Requests, pc[r] \in Active, NEW out \in Outcomes \cup Verdicts,
         Settle(r, out), cfg' = cfg
  PROVE  Advances(r)
<1>1. /\ TypeOK /\ ReqInv(r) /\ tier[r] \in Tier /\ call[r] \in {"main", "judge"}
      /\ tier \in [Requests -> Tier \cup {NoTier}] /\ call \in [Requests -> {"main", "judge"}]
  BY DEF IInv, TypeOK, Active
<1>2. /\ Work(r) = 8 * (2 - Rank[tier[r]]) + (IF call[r] = "main" THEN 4 ELSE 0) + StepsOf[pc[r]]
      /\ StepsOf[pc[r]] \in 1 .. 3 /\ Rank[tier[r]] \in 0 .. 2
  BY <1>1, WorkOnTheWay DEF Work
<1>3. NextTier(r) # NoTier => NextTier(r) \in Tier /\ Rank[NextTier(r)] = Rank[tier[r]] + 1
  BY <1>1, NextTierOffered
<1>4. "prepare" \in Active /\ StepsOf["prepare"] = 3
  BY DEF Active, StepsOf
<1>5. CASE NextTier(r) # NoTier /\ Climb(r)
  <2>1. /\ Work(r)' = WorkAt("prepare", NextTier(r), "main")
        /\ \A q \in Requests \ {r} : Work(q)' = Work(q)
    BY <1>1, <1>5, WorkOfOthers DEF Climb
  <2>2. /\ WorkAt("prepare", NextTier(r), "main") = 8 * (2 - Rank[NextTier(r)]) + 4 + 3
        /\ WorkAt("prepare", NextTier(r), "main") \in Nat
    BY <1>3, <1>4, <1>5, WorkOnTheWay
  <2>3. Work(r) \in Nat /\ Work(r) > 8 * (2 - Rank[tier[r]])
    BY <1>2
  <2>4. WorkAt("prepare", NextTier(r), "main") < Work(r)
    BY <1>2, <1>3, <1>5, <2>2, <2>3
  <2> QED
    BY <2>1, <2>2, <2>3, <2>4 DEF Advances
<1>6. CASE call[r] = "main" /\ AskJudge(r, out)
  <2>1. tier' = [tier EXCEPT ![r] = tier[r]]
    BY <1>1, <1>6 DEF AskJudge
  <2>2. /\ Work(r)' = WorkAt("prepare", tier[r], "judge")
        /\ \A q \in Requests \ {r} : Work(q)' = Work(q)
    BY <1>1, <1>6, <2>1, WorkOfOthers DEF AskJudge
  <2>3. WorkAt("prepare", tier[r], "judge") = 8 * (2 - Rank[tier[r]]) + 3
    BY <1>1, <1>4, WorkOnTheWay
  <2> QED
    BY <1>2, <1>6, <2>2, <2>3 DEF Advances
<1>7. ASSUME NEW res, Return(r, res)
      PROVE  Advances(r)
  <2>1. tier' = [tier EXCEPT ![r] = tier[r]]
    BY <1>1, <1>7 DEF Return
  <2>2. /\ Work(r)' = WorkAt("done", tier[r], "main")
        /\ \A q \in Requests \ {r} : Work(q)' = Work(q)
    BY <1>1, <1>7, <2>1, WorkOfOthers DEF Return
  <2>3. WorkAt("done", tier[r], "main") = 0
    BY DEF WorkAt, Active
  <2> QED
    BY <1>2, <2>2, <2>3 DEF Advances
<1>8. CASE call[r] = "main" /\ SettleMain(r, out)
  BY <1>5, <1>6, <1>7, <1>8 DEF SettleMain
<1>9. CASE call[r] = "judge" /\ SettleJudge(r, out)
  <2>1. NextTier(r) # NoTier
    BY <1>1, <1>9, NextTierOffered DEF ReqInv
  <2> QED
    BY <1>5, <1>7, <1>9, <2>1 DEF SettleJudge
<1> QED
  BY <1>8, <1>9 DEF Settle

\* So does a step that moves pc on, or ends the request.
LEMMA MoveAdvances ==
  ASSUME IInv, NEW r \in Requests, pc[r] \in Active, NEW p,
         p = "gone" \/ (p \in Active /\ StepsOf[p] < StepsOf[pc[r]]),
         pc' = [pc EXCEPT ![r] = p], UNCHANGED <<tier, call>>
  PROVE  Advances(r)
<1>1. /\ TypeOK /\ tier[r] \in Tier /\ call[r] \in {"main", "judge"}
      /\ tier' = [tier EXCEPT ![r] = tier[r]] /\ call' = [call EXCEPT ![r] = call[r]]
  BY DEF IInv, TypeOK, Active
<1>2. /\ Work(r) = 8 * (2 - Rank[tier[r]]) + (IF call[r] = "main" THEN 4 ELSE 0) + StepsOf[pc[r]]
      /\ StepsOf[pc[r]] \in 1 .. 3 /\ Rank[tier[r]] \in 0 .. 2
  BY <1>1, WorkOnTheWay DEF Work
<1>3. /\ Work(r)' = WorkAt(p, tier[r], call[r])
      /\ \A q \in Requests \ {r} : Work(q)' = Work(q)
  BY <1>1, WorkOfOthers
<1>4. CASE p = "gone"
  <2>1. WorkAt(p, tier[r], call[r]) = 0
    BY <1>4 DEF WorkAt, Active
  <2> QED
    BY <1>2, <1>3, <2>1 DEF Advances
<1>5. CASE p \in Active /\ StepsOf[p] < StepsOf[pc[r]]
  <2>1. /\ WorkAt(p, tier[r], call[r])
             = 8 * (2 - Rank[tier[r]]) + (IF call[r] = "main" THEN 4 ELSE 0) + StepsOf[p]
        /\ StepsOf[p] \in 1 .. 3
    BY <1>1, <1>5, WorkOnTheWay
  <2> QED
    BY <1>2, <1>3, <1>5, <2>1 DEF Advances
<1> QED
  BY <1>4, <1>5

\* Every step brings a request nearer to its end, so that a request takes at most
\* 24 steps whatever its budget and whatever the others do.
THEOREM StepsRunOut == Spec => EveryStepAdvances
<1>1. ASSUME IInv, Next, ~UNCHANGED vars PROVE \E r \in Requests : Advances(r)
  <2>1. ASSUME NEW r \in Requests, Forward(r) PROVE Advances(r)
    <3>1. PICK t \in Tier : tier' = [tier EXCEPT ![r] = t]
      BY <2>1 DEF Forward
    <3>2. TypeOK /\ call[r] \in {"main", "judge"} /\ call' = [call EXCEPT ![r] = call[r]]
      BY <1>1, <2>1 DEF IInv, TypeOK, Forward
    <3>3. /\ Work(r)' = WorkAt("prepare", t, call[r])
          /\ \A q \in Requests \ {r} : Work(q)' = Work(q)
      BY <2>1, <3>1, <3>2, WorkOfOthers DEF Forward
    <3>4. WorkAt("prepare", t, call[r]) \in 1 .. 23
      BY <3>2, WorkOnTheWay DEF Active
    <3>5. Work(r) = 24
      BY <2>1 DEF Work, WorkAt, Forward
    <3> QED
      BY <3>3, <3>4, <3>5 DEF Advances
  <2>2. ASSUME NEW r \in Requests, Prepare(r) PROVE Advances(r)
    <3>1. /\ Error("ProviderNotFound") \in Outcomes
          /\ Error("AuthenticationFailed") \in Outcomes
      BY DEF Outcomes, Errors
    <3>2. pc[r] \in Active /\ cfg' = cfg /\ pc[r] = "prepare"
      BY <2>2 DEF Prepare, Active
    <3>3. CASE Settle(r, Error("ProviderNotFound"))
      BY <1>1, <3>1, <3>2, <3>3, SettleAdvances
    <3>4. CASE Settle(r, Error("AuthenticationFailed"))
      BY <1>1, <3>1, <3>2, <3>4, SettleAdvances
    <3>5. ASSUME NEW p \in {"send", "store"}, pc' = [pc EXCEPT ![r] = p],
                 UNCHANGED <<tier, escs, call, reply, trail>>
          PROVE  Advances(r)
      <4>1. p \in Active /\ StepsOf[p] < StepsOf[pc[r]]
        BY <3>2 DEF StepsOf, Active
      <4> QED
        BY <1>1, <3>2, <3>5, <4>1, MoveAdvances
    <3> QED
      BY <2>2, <3>3, <3>4, <3>5 DEF Prepare
  <2>3. ASSUME NEW r \in Requests, StoreToken(r) PROVE Advances(r)
    <3>1. /\ pc[r] \in Active /\ "send" \in Active /\ StepsOf["send"] < StepsOf[pc[r]]
          /\ pc' = [pc EXCEPT ![r] = "send"] /\ UNCHANGED <<tier, call>>
      BY <2>3 DEF StoreToken, StepsOf, Active
    <3> QED
      BY <1>1, <3>1, MoveAdvances
  <2>4. ASSUME NEW r \in Requests, Receive(r) PROVE Advances(r)
    <3>1. PICK out \in Answers(r) : Settle(r, out)
      BY <2>4 DEF Receive
    <3>2. pc[r] \in Active /\ cfg' = cfg
      BY <2>4 DEF Receive, Active
    <3> QED
      BY <1>1, <3>1, <3>2, AnswersTyped, SettleAdvances
  <2>5. ASSUME NEW r \in Requests, Disconnect(r) PROVE Advances(r)
    <3>1. /\ pc[r] \in Active /\ pc' = [pc EXCEPT ![r] = "gone"] /\ UNCHANGED <<tier, call>>
      BY <2>5 DEF Disconnect
    <3> QED
      BY <1>1, <3>1, MoveAdvances
  <2> QED
    BY <1>1, <2>1, <2>2, <2>3, <2>4, <2>5 DEF Next, Quiet
<1>2. IInv /\ [Next]_vars => [\E r \in Requests : Advances(r)]_vars
  BY <1>1
<1> QED
  BY <1>2, Invariance, PTL DEF Spec, EveryStepAdvances
=============================================================================
