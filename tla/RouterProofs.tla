---------------------------- MODULE RouterProofs ----------------------------
(***************************************************************************)
(* Proofs about Router: types, the governance gate, and that the centroids *)
(* settle once.  The last rests on the permit of the cell: OneInitialiser. *)
(* How a request is sized and which keywords it has stay uninterpreted.    *)
(* Every step brings a request nearer to its route.                        *)
(***************************************************************************)
EXTENDS Router, TLAPS

\* What the three thresholds make of an intent is a tier.
LEMMA TierOfIsTier == \A intent, q : TierOf(intent, q) \in Tier
BY DEF TierOf, Tier

\* The gate keeps tiers tiers, and lets none through to Complex when it is on.
LEMMA GateIsTier ==
  ASSUME NEW t \in Tier
  PROVE  Gate(t) \in Tier /\ (cfg.complexRequiresExplicit => Gate(t) # "Complex")
BY DEF Gate, Tier

\* Some tier is the most similar one, the dearest of those that tie.
LEMMA NearestIsTier ==
  ASSUME NEW cosine \in [Tier -> Similarities]
  PROVE  NearestTier(cosine) \in Tier
<1> DEFINE Best(t) == \A u \in Tier : \/ cosine[t] > cosine[u]
                                      \/ cosine[t] = cosine[u] /\ Rank[t] >= Rank[u]
<1>1. cosine["Free"] \in Int /\ cosine["Standard"] \in Int /\ cosine["Complex"] \in Int
  BY RouterAssumption DEF Tier
<1>2. Rank["Free"] = 0 /\ Rank["Standard"] = 1 /\ Rank["Complex"] = 2
  BY DEF Rank
<1>3. Best("Free") \/ Best("Standard") \/ Best("Complex")
  BY <1>1, <1>2 DEF Tier
<1>4. \E t \in Tier : Best(t)
  BY <1>3 DEF Tier
<1> QED
  BY <1>4 DEF NearestTier

\* The permit of the cell is held by exactly the request that computes.
OneInitialiser ==
  \A r \in Requests : pc[r] = "init" <=> (holder = r /\ cell = "empty")

\* While nobody computes, nothing is held; a settled cell has no holder.
PermitReturned == cell # "empty" => holder = NoRequest

\* The heart of the invariant; GateHolds is inductive given the types.
IInv == TypeOK /\ GateHolds /\ OneInitialiser /\ PermitReturned

-----------------------------------------------------------------------------
\* The initial states.
LEMMA InitInvariant == Init => IInv
<1> SUFFICES ASSUME Init PROVE IInv
  OBVIOUS
<1>1. NoTier \notin Tier
  BY DEF NoTier, Tier
<1>2. TypeOK
  BY RouterAssumption, <1>1 DEF Init, TypeOK, Waiting
<1>3. GateHolds
  BY DEF Init, GateHolds, NoTier
<1>4. OneInitialiser /\ PermitReturned
  BY RouterAssumption DEF Init, OneInitialiser, PermitReturned
<1> QED
  BY <1>2, <1>3, <1>4 DEF IInv


\* One step of request r: on to another await, or out with a tier that the gate
\* allows for the ask q.
Moves(r, q) ==
  \/ \E l \in (Waiting \cup {"gone"}) : Goto(r, l)
  \/ \E t \in Tier : /\ Pick(r, t)
                     /\ cfg.complexRequiresExplicit /\ t = "Complex" => Explicit(q)

\* Asking the intent classifier is such a step: it waits for the cluster, or the
\* fallback picks through the gate.
LEMMA AskIntentMoves ==
  ASSUME NEW r \in Requests, NEW q, AskIntent(r, q)
  PROVE  Moves(r, q) /\ pc' \in {[pc EXCEPT ![r] = "cluster"], [pc EXCEPT ![r] = "done"]}
<1>1. CASE Goto(r, "cluster")
  BY <1>1 DEF Moves, Waiting, Goto
<1>2. CASE Pick(r, Gate(TierOf(FallbackIntent(q), q)))
  <2>1. TierOf(FallbackIntent(q), q) \in Tier
    BY TierOfIsTier
  <2>2. /\ Gate(TierOf(FallbackIntent(q), q)) \in Tier
        /\ cfg.complexRequiresExplicit => Gate(TierOf(FallbackIntent(q), q)) # "Complex"
    BY <2>1, GateIsTier
  <2> QED
    BY <1>2, <2>2 DEF Moves, Pick
<1> QED
  BY <1>1, <1>2 DEF AskIntent

\* Such a step keeps the types of what it assigns, and the gate.
LEMMA MovesKeep ==
  ASSUME TypeOK, GateHolds, NEW r \in Requests, pc[r] # "done", cfg' = cfg,
         ask' \in [Requests -> Asks \cup {NoAsk}],
         \A s \in Requests \ {r} : ask'[s] = ask[s],
         Moves(r, ask'[r])
  PROVE  /\ picked' \in [Requests -> Tier \cup {NoTier}]
         /\ pc' \in [Requests -> Waiting \cup {"idle", "done", "gone"}]
         /\ \A s \in Requests : pc'[s] = "done" <=> picked'[s] # NoTier
         /\ GateHolds'
<1>1. picked[r] = NoTier
  BY DEF TypeOK
<1>2. NoTier \notin Tier /\ NoTier # "Complex"
  BY DEF NoTier, Tier
<1>3. \A s \in Requests \ {r} : Explicit(ask[s]) => Explicit(ask[s])'
  BY DEF Explicit
<1>4. Explicit(ask'[r]) => Explicit(ask[r])'
  BY DEF Explicit
<1>5. CASE \E l \in (Waiting \cup {"gone"}) : Goto(r, l)
  <2>1. PICK l \in (Waiting \cup {"gone"}) : Goto(r, l)
    BY <1>5
  <2>2. l # "done"
    BY DEF Waiting
  <2>3. picked' = picked /\ pc' = [pc EXCEPT ![r] = l]
    BY <2>1 DEF Goto
  <2>4. GateHolds'
    BY <1>1, <1>2, <1>3, <2>3 DEF GateHolds
  <2> QED
    BY <1>1, <2>2, <2>3, <2>4 DEF TypeOK
<1>6. CASE \E t \in Tier : /\ Pick(r, t)
                           /\ cfg.complexRequiresExplicit /\ t = "Complex" => Explicit(ask'[r])
  <2>1. PICK t \in Tier : /\ Pick(r, t)
                          /\ cfg.complexRequiresExplicit /\ t = "Complex" => Explicit(ask'[r])
    BY <1>6
  <2>2. picked' = [picked EXCEPT ![r] = t] /\ pc' = [pc EXCEPT ![r] = "done"]
    BY <2>1 DEF Pick
  <2>3. \A s \in Requests : picked'[s] = IF s = r THEN t ELSE picked[s]
    BY <2>2 DEF TypeOK
  <2>4. GateHolds'
    BY <1>3, <1>4, <2>1, <2>3 DEF GateHolds
  <2> QED
    BY <1>2, <2>1, <2>2, <2>4 DEF TypeOK
<1> QED
  BY <1>5, <1>6 DEF Moves

-----------------------------------------------------------------------------
\* Every step of a request keeps the invariant.
LEMMA ClassifyKeeps ==
  ASSUME IInv, NEW r \in Requests, Classify(r)
  PROVE  IInv'
<1> USE DEF IInv
<1>1. PICK q \in Asks : ask' = [ask EXCEPT ![r] = q]
  BY DEF Classify
<1>2. ask'[r] = q /\ ask' \in [Requests -> Asks \cup {NoAsk}]
      /\ \A s \in Requests \ {r} : ask'[s] = ask[s]
  BY <1>1 DEF TypeOK
<1>3. UNCHANGED <<cfg, cell, holder, embedded, heard>> /\ pc[r] = "idle"
  BY DEF Classify
<1>4. Moves(r, ask'[r]) /\ \E l \in {"done", "cell", "cluster"} : pc' = [pc EXCEPT ![r] = l]
  <2>1. CASE Explicit(ask'[r]) /\ Pick(r, "Complex")
    BY <2>1 DEF Moves, Pick, Tier
  <2>2. CASE Goto(r, "cell")
    BY <2>2 DEF Moves, Goto, Waiting
  <2>3. CASE AskIntent(r, ask'[r])
    BY <2>3, AskIntentMoves
  <2> QED
    BY <2>1, <2>2, <2>3 DEF Classify
<1>5. GateHolds' /\ TypeOK'
  BY <1>2, <1>3, <1>4, MovesKeep DEF TypeOK
<1>6. OneInitialiser' /\ PermitReturned'
  BY <1>3, <1>4 DEF OneInitialiser, PermitReturned, TypeOK
<1> QED
  BY <1>5, <1>6

\* An await that ends keeps the invariant, and the cell once it is settled.
LEMMA AwaitKeeps ==
  ASSUME IInv, NEW r \in Requests, Await(r)
  PROVE  IInv' /\ (cell # "empty" => cell' = cell)
<1> USE DEF IInv
<1>1. ask' = ask /\ cfg' = cfg /\ pc[r] # "done"
  BY DEF Await, GetOrInit, EmbedExemplar, EmbedQuery, AskCluster
<1>2. ask' \in [Requests -> Asks \cup {NoAsk}] /\ \A s \in Requests \ {r} : ask'[s] = ask[s]
  BY <1>1 DEF TypeOK
<1>3. NoRequest # r
  BY RouterAssumption
<1>4. CASE GetOrInit(r)
  <2>1. UNCHANGED <<cfg, cell, ask, heard>> /\ pc[r] = "cell"
    BY <1>4 DEF GetOrInit
  <2>2. CASE cell = "ready" /\ Goto(r, "embed") /\ UNCHANGED <<holder, embedded>>
    <3>1. Moves(r, ask'[r]) /\ pc' = [pc EXCEPT ![r] = "embed"]
      BY <2>2 DEF Moves, Goto, Waiting
    <3>2. OneInitialiser' /\ PermitReturned'
      BY <2>1, <2>2, <3>1 DEF OneInitialiser, PermitReturned, TypeOK
    <3> QED
      BY <1>1, <1>2, <2>1, <2>2, <3>1, <3>2, MovesKeep DEF TypeOK
  <2>3. CASE cell = "none" /\ AskIntent(r, ask[r]) /\ UNCHANGED <<holder, embedded>>
    <3>1. /\ Moves(r, ask'[r])
          /\ pc' \in {[pc EXCEPT ![r] = "cluster"], [pc EXCEPT ![r] = "done"]}
      BY <1>1, <2>3, AskIntentMoves
    <3>2. OneInitialiser' /\ PermitReturned'
      BY <2>1, <2>3, <3>1 DEF OneInitialiser, PermitReturned, TypeOK
    <3> QED
      BY <1>1, <1>2, <2>1, <2>3, <3>1, <3>2, MovesKeep DEF TypeOK
  <2>4. CASE /\ cell = "empty" /\ holder = NoRequest
             /\ holder' = r /\ embedded' = 0
             /\ Goto(r, "init")
    <3>1. Moves(r, ask'[r]) /\ pc' = [pc EXCEPT ![r] = "init"]
      BY <2>4 DEF Moves, Goto, Waiting
    <3>2. OneInitialiser' /\ PermitReturned'
      BY <2>1, <2>4, <3>1, RouterAssumption DEF OneInitialiser, PermitReturned, TypeOK
    <3>3. embedded' \in 0 .. Exemplars - 1
      BY <2>4, RouterAssumption
    <3> QED
      BY <1>1, <1>2, <2>1, <2>4, <3>1, <3>2, <3>3, MovesKeep DEF TypeOK
  <2> QED
    BY <1>4, <2>2, <2>3, <2>4 DEF GetOrInit
<1>5. CASE EmbedExemplar(r)
  <2>1. UNCHANGED <<cfg, ask, heard>> /\ pc[r] = "init" /\ holder = r /\ cell = "empty"
    BY <1>5 DEF EmbedExemplar, OneInitialiser
  <2>2. CASE /\ embedded + 1 < Exemplars
             /\ embedded' = embedded + 1
             /\ UNCHANGED <<cell, holder, pc, picked>>
    <3>1. embedded' \in 0 .. Exemplars - 1
      BY <2>2, RouterAssumption DEF TypeOK
    <3>2. TypeOK' /\ OneInitialiser' /\ PermitReturned'
      BY <2>1, <2>2, <3>1 DEF TypeOK, OneInitialiser, PermitReturned
    <3>3. GateHolds'
      BY <2>1, <2>2 DEF GateHolds, Explicit
    <3> QED
      BY <2>1, <3>2, <3>3
  <2>3. CASE /\ embedded + 1 = Exemplars
             /\ cell' = "ready" /\ holder' = NoRequest /\ embedded' = 0
             /\ Goto(r, "embed")
    <3>1. Moves(r, ask'[r]) /\ pc' = [pc EXCEPT ![r] = "embed"]
      BY <2>3 DEF Moves, Goto, Waiting
    <3>2. OneInitialiser' /\ PermitReturned'
      BY <2>1, <2>3, <3>1 DEF OneInitialiser, PermitReturned, TypeOK
    <3>3. embedded' \in 0 .. Exemplars - 1
      BY <2>3, RouterAssumption
    <3> QED
      BY <1>1, <1>2, <2>1, <2>3, <3>1, <3>2, <3>3, MovesKeep DEF TypeOK
  <2>4. CASE /\ cell' = "none" /\ holder' = NoRequest /\ embedded' = 0
             /\ AskIntent(r, ask[r])
    <3>1. /\ Moves(r, ask'[r])
          /\ pc' \in {[pc EXCEPT ![r] = "cluster"], [pc EXCEPT ![r] = "done"]}
      BY <1>1, <2>4, AskIntentMoves
    <3>2. OneInitialiser' /\ PermitReturned'
      BY <2>1, <2>4, <3>1 DEF OneInitialiser, PermitReturned, TypeOK
    <3>3. embedded' \in 0 .. Exemplars - 1
      BY <2>4, RouterAssumption
    <3> QED
      BY <1>1, <1>2, <2>1, <2>4, <3>1, <3>2, <3>3, MovesKeep DEF TypeOK
  <2> QED
    BY <1>5, <2>2, <2>3, <2>4 DEF EmbedExemplar
<1>6. CASE EmbedQuery(r) \/ AskCluster(r)
  <2>1. UNCHANGED <<cfg, cell, holder, embedded, ask>> /\ pc[r] # "init"
    BY <1>6 DEF EmbedQuery, AskCluster
  <2>2. heard' \in [Requests -> BOOLEAN]
    BY <1>6 DEF EmbedQuery, AskCluster, TypeOK
  <2>3. /\ Moves(r, ask'[r])
        /\ pc' \in {[pc EXCEPT ![r] = "cluster"], [pc EXCEPT ![r] = "done"]}
    <3>1. ASSUME NEW t \in Tier, Pick(r, Gate(t))
          PROVE  Moves(r, ask'[r]) /\ pc' = [pc EXCEPT ![r] = "done"]
      BY <3>1, GateIsTier DEF Moves, Pick
    <3>2. ASSUME NEW cosine \in [Tier -> Similarities], Pick(r, Gate(NearestTier(cosine)))
          PROVE  Moves(r, ask'[r]) /\ pc' = [pc EXCEPT ![r] = "done"]
      BY <3>1, <3>2, NearestIsTier
    <3>3. ASSUME NEW intent, Pick(r, Gate(TierOf(intent, ask[r])))
          PROVE  Moves(r, ask'[r]) /\ pc' = [pc EXCEPT ![r] = "done"]
      BY <3>1, <3>3, TierOfIsTier
    <3>4. CASE EmbedQuery(r)
      BY <1>1, <3>4, <3>2, AskIntentMoves DEF EmbedQuery
    <3>5. CASE AskCluster(r)
      BY <3>5, <3>3 DEF AskCluster
    <3> QED
      BY <1>6, <3>4, <3>5
  <2>4. OneInitialiser' /\ PermitReturned'
    BY <2>1, <2>3 DEF OneInitialiser, PermitReturned, TypeOK
  <2> QED
    BY <1>1, <1>2, <2>1, <2>2, <2>3, <2>4, MovesKeep DEF TypeOK
<1> QED
  BY <1>4, <1>5, <1>6 DEF Await

\* A client that leaves takes nothing with it but the permit it held.
LEMMA DisconnectKeeps ==
  ASSUME IInv, NEW r \in Requests, Disconnect(r)
  PROVE  IInv'
<1> USE DEF IInv
<1>1. UNCHANGED <<cfg, cell, ask, heard>> /\ pc[r] \in Waiting /\ Goto(r, "gone")
  BY DEF Disconnect
<1>2. Moves(r, ask'[r]) /\ pc[r] # "done" /\ pc' = [pc EXCEPT ![r] = "gone"]
  BY <1>1 DEF Moves, Waiting, Goto
<1>3. holder' \in Requests \cup {NoRequest} /\ embedded' \in 0 .. Exemplars - 1
  BY RouterAssumption DEF Disconnect, TypeOK
<1>4. ask' \in [Requests -> Asks \cup {NoAsk}] /\ \A s \in Requests \ {r} : ask'[s] = ask[s]
  BY <1>1 DEF TypeOK
<1>5. TypeOK' /\ GateHolds'
  BY <1>1, <1>2, <1>3, <1>4, MovesKeep DEF TypeOK
<1>6. OneInitialiser' /\ PermitReturned'
  BY <1>1, <1>2, RouterAssumption DEF Disconnect, OneInitialiser, PermitReturned, TypeOK
<1> QED
  BY <1>5, <1>6

\* Every step keeps the invariant.
LEMMA NextInvariant == IInv /\ [Next]_vars => IInv'
<1> SUFFICES ASSUME IInv, [Next]_vars PROVE IInv'
  OBVIOUS
<1>1. CASE UNCHANGED vars
  BY <1>1 DEF vars, IInv, TypeOK, GateHolds, Explicit, OneInitialiser, PermitReturned
<1>2. CASE \E r \in Requests : Classify(r) \/ Await(r) \/ Disconnect(r)
  BY <1>2, ClassifyKeeps, AwaitKeeps, DisconnectKeeps
<1> QED
  BY <1>1, <1>2 DEF Next, Quiet

\* The invariant holds in every reachable state.
THEOREM Invariance == Spec => []IInv
<1> QED
  BY InitInvariant, NextInvariant, PTL DEF Spec

\* Every variable keeps its type, whatever the classifiers answer.
THEOREM TypeCorrect == Spec => []TypeOK
<1>1. IInv => TypeOK
  BY DEF IInv
<1> QED
  BY Invariance, <1>1, PTL

\* With the gate on, only an explicit request is ever routed to Complex.
THEOREM GateIsKept == Spec => []GateHolds
<1>1. IInv => GateHolds
  BY DEF IInv
<1> QED
  BY Invariance, <1>1, PTL

\* What the cell was filled with stays in it.
THEOREM CellIsSettledOnce == Spec => CentroidsSettleOnce
<1>1. IInv /\ [Next]_vars => [cell # "empty" => cell' = cell]_vars
  <2> SUFFICES ASSUME IInv, [Next]_vars, cell # "empty" PROVE cell' = cell
    OBVIOUS
  <2>1. CASE \E r \in Requests : Classify(r) \/ Await(r) \/ Disconnect(r)
    BY <2>1, AwaitKeeps DEF Classify, Disconnect
  <2> QED
    BY <2>1 DEF Next, Quiet, vars
<1> QED
  BY Invariance, <1>1, PTL DEF Spec, CentroidsSettleOnce
-----------------------------------------------------------------------------
\* A step of request r, content q, that leaves the decision to a classifier or
\* the keywords: it waits, having found no rule; or it picks, by the rules, by
\* a classifier that was heard, or by the keywords alone.
Adds(r, q) ==
  \/ \E l \in (Waiting \cup {"gone"}) : Goto(r, l) /\ (l \in Waiting => ~Explicit(q))
  \/ \E t \in Tier : /\ Pick(r, t)
                     /\ heard'[r] \/ Explicit(q) \/ t = Gate(TierOf(FallbackIntent(q), q))

\* Asking the intent classifier is such a step.
LEMMA AskIntentAdds ==
  ASSUME NEW r \in Requests, NEW q, AskIntent(r, q), ~Explicit(q)
  PROVE  Adds(r, q)
<1>1. CASE Goto(r, "cluster")
  BY <1>1 DEF Adds, Waiting
<1>2. CASE Pick(r, Gate(TierOf(FallbackIntent(q), q)))
  <2>1. Gate(TierOf(FallbackIntent(q), q)) \in Tier
    BY TierOfIsTier, GateIsTier
  <2> QED
    BY <1>2, <2>1 DEF Adds
<1> QED
  BY <1>1, <1>2 DEF AskIntent

\* Such a step keeps the promise to its own request and to the others.
LEMMA AddsKeep ==
  ASSUME TypeOK, ServicesOnlyAdd, NEW r \in Requests, cfg' = cfg,
         ask' \in [Requests -> Asks \cup {NoAsk}],
         \A s \in Requests \ {r} : ask'[s] = ask[s] /\ heard'[s] = heard[s],
         Adds(r, ask'[r])
  PROVE  ServicesOnlyAdd'
<1> DEFINE Heuristic(q) == Gate(TierOf(FallbackIntent(q), q))
           Promise(s) == /\ pc[s] \in Waiting => ~Explicit(ask[s])
                         /\ pc[s] = "done" /\ ~heard[s] /\ ~Explicit(ask[s]) =>
                              picked[s] = Heuristic(ask[s])
<1>1. \A s \in Requests : Promise(s)
  BY DEF ServicesOnlyAdd, ExplicitIsImmediate, FallsBackToHeuristic
<1>2. \A s \in Requests : /\ Explicit(ask[s])' <=> Explicit(ask'[s])
                          /\ Heuristic(ask[s])' = Heuristic(ask'[s])
  BY DEF Explicit, Gate, TierOf
<1>3. \A s \in Requests \ {r} : pc'[s] = pc[s] /\ picked'[s] = picked[s]
  BY DEF Adds, Goto, Pick, TypeOK
<1>4. ASSUME NEW s \in Requests \ {r} PROVE Promise(s)'
  <2>1. ask'[s] = ask[s] /\ heard'[s] = heard[s] /\ pc'[s] = pc[s] /\ picked'[s] = picked[s]
    BY <1>3
  <2> HIDE DEF Heuristic
  <2> QED
    BY <1>1, <1>2, <2>1
<1>5. Promise(r)'
  <2>1. CASE \E l \in (Waiting \cup {"gone"}) :
               Goto(r, l) /\ (l \in Waiting => ~Explicit(ask'[r]))
    <3>1. PICK l \in (Waiting \cup {"gone"}) :
            Goto(r, l) /\ (l \in Waiting => ~Explicit(ask'[r]))
      BY <2>1
    <3>2. pc'[r] = l /\ l # "done"
      BY <3>1 DEF Goto, TypeOK, Waiting
    <3> HIDE DEF Heuristic
    <3> QED
      BY <1>2, <3>1, <3>2
  <2>2. CASE \E t \in Tier : /\ Pick(r, t)
                             /\ heard'[r] \/ Explicit(ask'[r]) \/ t = Heuristic(ask'[r])
    <3> HIDE DEF Heuristic
    <3>1. PICK t \in Tier : /\ Pick(r, t)
                            /\ heard'[r] \/ Explicit(ask'[r]) \/ t = Heuristic(ask'[r])
      BY <2>2
    <3>2. pc'[r] = "done" /\ picked'[r] = t
      <4>1. pc' = [pc EXCEPT ![r] = "done"] /\ picked' = [picked EXCEPT ![r] = t]
        BY <3>1 DEF Pick
      <4>2. r \in DOMAIN pc /\ r \in DOMAIN picked
        BY DEF TypeOK
      <4> QED
        BY <4>1, <4>2, Zenon
    <3>3. "done" \notin Waiting
      BY DEF Waiting
    <3> QED
      BY <1>2, <3>1, <3>2, <3>3
  <2> QED
    BY <2>1, <2>2 DEF Adds
<1>6. \A s \in Requests : Promise(s)'
  BY <1>4, <1>5
<1> QED
  BY <1>6 DEF ServicesOnlyAdd, ExplicitIsImmediate, FallsBackToHeuristic

\* A step that changes nothing the promise is about keeps it.
LEMMA PromiseKept ==
  ASSUME ServicesOnlyAdd, UNCHANGED <<cfg, pc, ask, picked, heard>>
  PROVE  ServicesOnlyAdd'
BY DEF ServicesOnlyAdd, ExplicitIsImmediate, FallsBackToHeuristic, Explicit, Gate, TierOf

\* Every await that ends keeps the promise.
LEMMA AwaitAdds ==
  ASSUME TypeOK, ServicesOnlyAdd, NEW r \in Requests, Await(r)
  PROVE  ServicesOnlyAdd'
<1>1. /\ ask' = ask /\ cfg' = cfg /\ pc[r] \in Waiting
      /\ \A s \in Requests \ {r} : heard'[s] = heard[s]
  BY DEF Await, GetOrInit, EmbedExemplar, EmbedQuery, AskCluster, Waiting, TypeOK
<1>2. ask' \in [Requests -> Asks \cup {NoAsk}] /\ \A s \in Requests \ {r} : ask'[s] = ask[s]
  BY <1>1 DEF TypeOK
<1>3. ~Explicit(ask[r]) /\ ask'[r] = ask[r]
  BY <1>1 DEF ServicesOnlyAdd, ExplicitIsImmediate
<1>4. ASSUME Adds(r, ask[r]) PROVE ServicesOnlyAdd'
  BY <1>1, <1>2, <1>3, <1>4, AddsKeep
<1>5. ASSUME NEW l \in Waiting, Goto(r, l) PROVE Adds(r, ask[r])
  BY <1>3, <1>5 DEF Adds
<1>6. ASSUME AskIntent(r, ask[r]) PROVE Adds(r, ask[r])
  BY <1>3, <1>6, AskIntentAdds
<1>7. ASSUME NEW t \in Tier, Pick(r, Gate(t)), heard'[r] PROVE Adds(r, ask[r])
  BY <1>7, GateIsTier DEF Adds
<1>8. CASE GetOrInit(r)
  <2>1. \/ Goto(r, "embed") \/ AskIntent(r, ask[r]) \/ Goto(r, "init")
    BY <1>8 DEF GetOrInit
  <2>2. "embed" \in Waiting /\ "init" \in Waiting
    BY DEF Waiting
  <2> QED
    BY <1>4, <1>5, <1>6, <2>1, <2>2
<1>9. CASE EmbedExemplar(r)
  <2>1. \/ UNCHANGED <<pc, picked, heard>> \/ Goto(r, "embed") \/ AskIntent(r, ask[r])
    BY <1>9 DEF EmbedExemplar
  <2>2. "embed" \in Waiting
    BY DEF Waiting
  <2> QED
    BY <1>1, <1>4, <1>5, <1>6, <2>1, <2>2, PromiseKept
<1>10. CASE EmbedQuery(r)
  <2>1. CASE AskIntent(r, ask[r])
    BY <1>4, <1>6, <2>1
  <2>2. CASE /\ \E cosine \in [Tier -> Similarities] : Pick(r, Gate(NearestTier(cosine)))
             /\ heard' = [heard EXCEPT ![r] = TRUE]
    <3>1. heard'[r]
      BY <2>2 DEF TypeOK
    <3>2. PICK cosine \in [Tier -> Similarities] : Pick(r, Gate(NearestTier(cosine)))
      BY <2>2
    <3>3. NearestTier(cosine) \in Tier
      BY NearestIsTier
    <3> QED
      BY <1>4, <1>7, <3>1, <3>2, <3>3
  <2> QED
    BY <1>10, <2>1, <2>2 DEF EmbedQuery
<1>11. CASE AskCluster(r)
  <2>1. CASE /\ \E intent \in Intents : Pick(r, Gate(TierOf(intent, ask[r])))
             /\ heard' = [heard EXCEPT ![r] = TRUE]
    <3>1. heard'[r]
      BY <2>1 DEF TypeOK
    <3> QED
      BY <1>4, <1>7, <2>1, <3>1, TierOfIsTier
  <2>2. CASE Pick(r, Gate(TierOf(FallbackIntent(ask[r]), ask[r])))
    <3>1. Gate(TierOf(FallbackIntent(ask[r]), ask[r])) \in Tier
      BY TierOfIsTier, GateIsTier
    <3> QED
      BY <1>4, <2>2, <3>1 DEF Adds
  <2> QED
    BY <1>11, <2>1, <2>2 DEF AskCluster
<1> QED
  BY <1>8, <1>9, <1>10, <1>11 DEF Await

\* Every step keeps the promise.
LEMMA ServicesStep == TypeOK /\ ServicesOnlyAdd /\ [Next]_vars => ServicesOnlyAdd'
<1> SUFFICES ASSUME TypeOK, ServicesOnlyAdd, [Next]_vars PROVE ServicesOnlyAdd'
  OBVIOUS
<1>1. CASE UNCHANGED vars
  BY <1>1, PromiseKept DEF vars
<1>2. ASSUME NEW r \in Requests, Classify(r) PROVE ServicesOnlyAdd'
  <2>1. PICK q \in Asks : ask' = [ask EXCEPT ![r] = q]
    BY <1>2 DEF Classify
  <2>2. /\ ask'[r] = q /\ ask' \in [Requests -> Asks \cup {NoAsk}]
        /\ \A s \in Requests \ {r} : ask'[s] = ask[s]
    BY <2>1 DEF TypeOK
  <2>3. cfg' = cfg /\ heard' = heard
    BY <1>2 DEF Classify
  <2>4. Adds(r, ask'[r])
    <3>1. CASE Explicit(ask'[r]) /\ Pick(r, "Complex")
      BY <3>1 DEF Adds, Tier
    <3>2. CASE ~Explicit(ask'[r]) /\ Goto(r, "cell")
      BY <3>2 DEF Adds, Waiting
    <3>3. CASE ~Explicit(ask'[r]) /\ AskIntent(r, ask'[r])
      BY <3>3, AskIntentAdds
    <3> QED
      BY <1>2, <3>1, <3>2, <3>3 DEF Classify
  <2> QED
    BY <2>2, <2>3, <2>4, AddsKeep
<1>3. ASSUME NEW r \in Requests, Disconnect(r) PROVE ServicesOnlyAdd'
  <2>1. UNCHANGED <<cfg, ask, heard>> /\ Goto(r, "gone")
    BY <1>3 DEF Disconnect
  <2>2. Adds(r, ask'[r])
    BY <2>1 DEF Adds, Waiting
  <2>3. ask' \in [Requests -> Asks \cup {NoAsk}]
    BY <2>1 DEF TypeOK
  <2> QED
    BY <2>1, <2>2, <2>3, AddsKeep
<1> QED
  BY <1>1, <1>2, <1>3, AwaitAdds DEF Next, Quiet

\* The classifiers are an addition: what the rules decide waits for none of them,
\* and what none of them decided is routed as the keywords alone would have it.
THEOREM ServicesAreAdded == Spec => []ServicesOnlyAdd
<1>1. Init => ServicesOnlyAdd
  BY DEF Init, ServicesOnlyAdd, ExplicitIsImmediate, FallsBackToHeuristic, Waiting
<1> QED
  BY <1>1, TypeCorrect, ServicesStep, PTL DEF Spec

-----------------------------------------------------------------------------
\* How far a request is from its route when it stands at l and, should it hold the
\* permit, has embedded `done` exemplars.
Place(l, done) ==
  CASE l = "idle"    -> Exemplars + 5
    [] l = "cell"    -> Exemplars + 4
    [] l = "init"    -> Exemplars + 3 - done
    [] l = "embed"   -> 2
    [] l = "cluster" -> 1
    [] OTHER         -> 0

Work(r) == Place(pc[r], embedded)
Advances(r) == Work(r)' < Work(r) /\ \A q \in Requests \ {r} : Work(q)' = Work(q)

\* Every step brings one request nearer to its route and leaves the others where
\* they are: no failure, and no request that leaves with the permit, sends another
\* one back.
EveryStepAdvances == [][\E r \in Requests : Advances(r)]_vars
StepsLeft == \A r \in Requests : Work(r) \in 0 .. Exemplars + 5

\* A request goes on to l; the count of exemplars is the holder's own.
LEMMA MoveAdvances ==
  ASSUME IInv, NEW r \in Requests, NEW l, pc' = [pc EXCEPT ![r] = l],
         Place(l, embedded') < Place(pc[r], embedded),
         embedded' = embedded \/ pc[r] = "init" \/ holder = NoRequest
  PROVE  Advances(r)
<1>1. pc'[r] = l /\ \A q \in Requests \ {r} : pc'[q] = pc[q]
  BY DEF IInv, TypeOK
<1>2. Work(r)' = Place(l, embedded')
  BY <1>1 DEF Work
<1>3. ASSUME NEW q \in Requests \ {r}
      PROVE  Work(q)' = Work(q)
  <2>1. Work(q)' = Place(pc[q], embedded')
    BY <1>1 DEF Work
  <2>2. CASE pc[q] = "init"
    <3>1. holder = q /\ cell = "empty" /\ (pc[r] = "init" => holder = r)
      BY <2>2 DEF IInv, OneInitialiser
    <3>2. embedded' = embedded
      BY <3>1, RouterAssumption
    <3> QED
      BY <2>1, <3>2 DEF Work
  <2>3. CASE pc[q] # "init"
    BY <2>1, <2>3 DEF Work, Place
  <2> QED
    BY <2>2, <2>3
<1> QED
  BY <1>2, <1>3 DEF Advances, Work

\* Neither answer of the intent classifiers leads back to an embedder.
LEMMA IntentAdvances ==
  ASSUME IInv, NEW r \in Requests, NEW q, AskIntent(r, q),
         pc[r] \in {"idle", "cell", "init", "embed"},
         embedded' = embedded \/ pc[r] = "init" \/ holder = NoRequest
  PROVE  Advances(r)
<1>1. PICK l \in {"cluster", "done"} : pc' = [pc EXCEPT ![r] = l]
  BY AskIntentMoves
<1>2. embedded \in 0 .. Exemplars - 1 /\ Exemplars \in Nat
  BY RouterAssumption DEF IInv, TypeOK
<1>3. Place(l, embedded') <= 1 /\ Place(l, embedded') \in Int
  BY DEF Place
<1>4. Place(pc[r], embedded) > 1 /\ Place(pc[r], embedded) \in Int
  BY <1>2 DEF Place
<1>5. Place(l, embedded') < Place(pc[r], embedded)
  BY <1>3, <1>4
<1> QED
  BY <1>1, <1>5, MoveAdvances

\* The request that a step belongs to advances.
LEMMA ActionAdvances ==
  ASSUME IInv, NEW r \in Requests, Classify(r) \/ Await(r) \/ Disconnect(r)
  PROVE  Advances(r)
<1>1. embedded \in 0 .. Exemplars - 1 /\ Exemplars \in Nat /\ Exemplars > 0
  BY RouterAssumption DEF IInv, TypeOK
<1>2. CASE Classify(r)
  <2>1. pc[r] = "idle" /\ embedded' = embedded
    BY <1>2 DEF Classify
  <2>2. CASE AskIntent(r, ask'[r])
    BY <2>1, <2>2, IntentAdvances
  <2>3. CASE \E l \in {"cell", "done"} : pc' = [pc EXCEPT ![r] = l]
    <3>1. PICK l \in {"cell", "done"} : pc' = [pc EXCEPT ![r] = l]
      BY <2>3
    <3>2. Place(l, embedded') < Place(pc[r], embedded)
      BY <1>1, <2>1 DEF Place
    <3> QED
      BY <2>1, <3>1, <3>2, MoveAdvances
  <2> QED
    BY <1>2, <2>2, <2>3 DEF Classify, Pick, Goto
<1>3. CASE GetOrInit(r)
  <2>1. pc[r] = "cell"
    BY <1>3 DEF GetOrInit
  <2>2. CASE pc' = [pc EXCEPT ![r] = "embed"] /\ embedded' = embedded
    <3>1. Place("embed", embedded') < Place(pc[r], embedded)
      BY <1>1, <2>1 DEF Place
    <3> QED
      BY <2>2, <3>1, MoveAdvances
  <2>3. CASE AskIntent(r, ask[r]) /\ embedded' = embedded
    BY <2>1, <2>3, IntentAdvances
  <2>4. CASE pc' = [pc EXCEPT ![r] = "init"] /\ embedded' = 0 /\ holder = NoRequest
    <3>1. Place("init", embedded') < Place(pc[r], embedded)
      BY <1>1, <2>1, <2>4 DEF Place
    <3> QED
      BY <2>4, <3>1, MoveAdvances
  <2> QED
    BY <1>3, <2>2, <2>3, <2>4 DEF GetOrInit, Goto
<1>4. CASE EmbedExemplar(r)
  <2>1. pc[r] = "init"
    BY <1>4 DEF EmbedExemplar
  <2>2. CASE embedded + 1 < Exemplars /\ embedded' = embedded + 1 /\ pc' = pc
    <3>1. pc' = [pc EXCEPT ![r] = "init"]
      BY <2>1, <2>2 DEF IInv, TypeOK
    <3>2. Place("init", embedded') < Place(pc[r], embedded)
      BY <1>1, <2>1, <2>2 DEF Place
    <3> QED
      BY <2>1, <3>1, <3>2, MoveAdvances
  <2>3. CASE pc' = [pc EXCEPT ![r] = "embed"]
    <3>1. Place("embed", embedded') < Place(pc[r], embedded)
      BY <1>1, <2>1 DEF Place
    <3> QED
      BY <2>1, <2>3, <3>1, MoveAdvances
  <2>4. CASE AskIntent(r, ask[r])
    BY <2>1, <2>4, IntentAdvances
  <2> QED
    BY <1>4, <2>2, <2>3, <2>4 DEF EmbedExemplar, Goto
<1>5. CASE EmbedQuery(r)
  <2>1. pc[r] = "embed" /\ embedded' = embedded
    BY <1>5 DEF EmbedQuery
  <2>2. CASE AskIntent(r, ask[r])
    BY <2>1, <2>2, IntentAdvances
  <2>3. CASE pc' = [pc EXCEPT ![r] = "done"]
    <3>1. Place("done", embedded') < Place(pc[r], embedded)
      BY <2>1 DEF Place
    <3> QED
      BY <2>1, <2>3, <3>1, MoveAdvances
  <2> QED
    BY <1>5, <2>2, <2>3 DEF EmbedQuery, Pick
<1>6. CASE AskCluster(r)
  <2>1. pc[r] = "cluster" /\ embedded' = embedded /\ pc' = [pc EXCEPT ![r] = "done"]
    BY <1>6 DEF AskCluster, Pick
  <2>2. Place("done", embedded') < Place(pc[r], embedded)
    BY <2>1 DEF Place
  <2> QED
    BY <2>1, <2>2, MoveAdvances
<1>7. CASE Disconnect(r)
  <2>1. pc[r] \in Waiting /\ pc' = [pc EXCEPT ![r] = "gone"]
    BY <1>7 DEF Disconnect, Goto
  <2>2. Place("gone", embedded') < Place(pc[r], embedded)
    BY <1>1, <2>1 DEF Place, Waiting
  <2>3. embedded' = embedded \/ pc[r] = "init"
    <3>1. CASE holder = r
      BY <3>1, RouterAssumption DEF IInv, OneInitialiser, PermitReturned
    <3>2. CASE holder # r
      BY <1>7, <3>2 DEF Disconnect
    <3> QED
      BY <3>1, <3>2
  <2> QED
    BY <2>1, <2>2, <2>3, MoveAdvances
<1> QED
  BY <1>2, <1>3, <1>4, <1>5, <1>6, <1>7 DEF Await

\* A request is classified after at most Exemplars + 5 steps of its own, for any
\* number of requests and exemplars and whichever classifiers fail.
THEOREM StepsRunOut == Spec => EveryStepAdvances /\ []StepsLeft
<1>1. IInv /\ [Next]_vars => [\E r \in Requests : Advances(r)]_vars
  <2> SUFFICES ASSUME IInv, Next PROVE (\E r \in Requests : Advances(r)) \/ UNCHANGED vars
    OBVIOUS
  <2> QED
    BY ActionAdvances DEF Next, Quiet
<1>2. TypeOK => StepsLeft
  BY RouterAssumption DEF TypeOK, StepsLeft, Work, Place
<1> QED
  BY <1>1, <1>2, Invariance, TypeCorrect, PTL DEF Spec, EveryStepAdvances
=============================================================================
