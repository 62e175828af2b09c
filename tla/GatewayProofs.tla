---------------------------- MODULE GatewayProofs ----------------------------
(***************************************************************************)
(* Proofs about Gateway: types, that a request served to its end has its   *)
(* one record, that the tiers of every record fit together and that its    *)
(* sizes, count and price are right.  The invariants follow the fields of  *)
(* a record from the classifier, up the ladder, through the stream, to the *)
(* place where the record is emitted.  Then, that the log loses no record  *)
(* but to an error, and that only a stream can keep a request going.       *)
(***************************************************************************)
EXTENDS Gateway, TLAPS

\* What forward leaves in a record is a record, with the fields it set.
LEMMA ServedTyped ==
  ASSUME NEW r \in Requests, record[r] \in RecordType, rung[r] \in Tier, climbs[r] \in Nat
  PROVE  /\ Served(r) \in RecordType
         /\ Served(r).served = rung[r] /\ Served(r).escalations = climbs[r]
         /\ Served(r).premium <=> rung[r] = "Complex"
         /\ Served(r).effective = record[r].effective
         /\ Served(r).classified = record[r].classified
         /\ Served(r).shadow = record[r].shadow
BY DEF Served, RecordType

\* What is known of request r between two steps.
ReqInv(r) ==
  /\ phase[r] = "new" => climbs[r] = 0
  /\ pc[r] = "forward" =>
       /\ rung[r] \in Tier /\ record[r].effective \in Tier
       /\ Rank[rung[r]] = Rank[record[r].effective] + climbs[r]
       /\ climbs[r] <= cfg.budget
       /\ RouteFits(record[r])
  /\ pc[r] \in {"relay", "opening", "events", "closing"} => Fits(record[r])
  /\ RecordsOf(r) # {} => cfg.enabled /\ pc[r] \in {"append", "done", "gone"}
  /\ cfg.enabled /\ pc[r] \in {"append", "done"} => RecordsOf(r) # {}
  /\ \A i, j \in RecordsOf(r) : i = j

IInv == TypeOK /\ RecordsFit /\ \A r \in Requests : ReqInv(r)

\* A request that takes a step is between the others, which keep what they had.
LEMMA Frame ==
  ASSUME IInv, NEW r \in Requests, TypeOK', cfg' = cfg, emitted' = emitted,
         \A s \in Requests \ {r} :
           /\ pc'[s] = pc[s] /\ record'[s] = record[s]
           /\ phase'[s] = phase[s] /\ rung'[s] = rung[s] /\ climbs'[s] = climbs[s],
         ReqInv(r)'
  PROVE  IInv'
<1>1. RecordsFit'
  BY DEF IInv, RecordsFit, Fits, RouteFits
<1>2. ASSUME NEW s \in Requests \ {r}
      PROVE  ReqInv(s)'
  <2>1. ReqInv(s)
    BY DEF IInv
  <2>2. RecordsOf(s)' = RecordsOf(s)
    BY DEF RecordsOf
  <2> QED
    BY <2>1, <2>2 DEF ReqInv, Fits, RouteFits
<1> QED
  BY <1>1, <1>2 DEF IInv

\* Emitting a record keeps the types.
LEMMA RecordTypes ==
  ASSUME TypeOK, NEW r \in Requests, NEW rec \in RecordType,
         pc[r] \in {"forward", "relay", "closing"},
         record' = [record EXCEPT ![r] = rec], Record(r),
         UNCHANGED <<cfg, ask, metrics, rung, climbs, meter>>,
         phase' = IF pc[r] = "forward" THEN [phase EXCEPT ![r] = "answered"] ELSE phase
  PROVE  TypeOK'
<1>1. record'[r] = rec /\ record' \in [Requests -> RecordType]
  BY DEF TypeOK
<1>2. emitted' \in Seq([req: Requests, rec: RecordType])
  <2> DEFINE Items == [req: Requests, rec: RecordType]
             item == [req |-> r, rec |-> rec]
  <2>1. item \in Items /\ emitted \in Seq(Items)
    BY DEF TypeOK
  <2>2. emitted' = IF cfg.enabled THEN Append(emitted, item) ELSE emitted
    BY <1>1 DEF Record
  <2> HIDE DEF Items, item
  <2>3. emitted' \in Seq(Items)
    BY <2>1, <2>2
  <2> QED
    BY <2>3 DEF Items
<1>3. \E l \in {"append", "done"} : pc' = [pc EXCEPT ![r] = l]
  BY DEF Record
<1> QED
  BY <1>1, <1>2, <1>3 DEF TypeOK, Record, meter, Steps, Ended

\* A record that fits is emitted once and sends its request out of the way.
LEMMA RecordKeeps ==
  ASSUME IInv, NEW r \in Requests, NEW rec \in RecordType, Fits(rec),
         pc[r] \in {"forward", "relay", "closing"}, phase'[r] = "new" => climbs'[r] = 0,
         record' = [record EXCEPT ![r] = rec], Record(r), TypeOK', cfg' = cfg,
         \A s \in Requests \ {r} :
           phase'[s] = phase[s] /\ rung'[s] = rung[s] /\ climbs'[s] = climbs[s]
  PROVE  IInv'
<1> DEFINE Item == [req |-> r, rec |-> rec]
<1>1. emitted' = IF cfg.enabled THEN Append(emitted, Item) ELSE emitted
  BY DEF Record, IInv, TypeOK
<1>2. pc'[r] \in {"append", "done"}
  BY DEF Record, IInv, TypeOK
<1>3. RecordsOf(r) = {}
  BY DEF IInv, ReqInv
<1>4. /\ Len(emitted) \in Nat /\ DOMAIN emitted = 1 .. Len(emitted)
      /\ DOMAIN Append(emitted, Item) = 1 .. Len(emitted) + 1
      /\ Append(emitted, Item)[Len(emitted) + 1] = Item
      /\ \A i \in 1 .. Len(emitted) : Append(emitted, Item)[i] = emitted[i]
  BY DEF IInv, TypeOK
<1>5. RecordsFit'
  <2>1. Fits(rec)' <=> Fits(rec)
    BY DEF Fits, RouteFits
  <2>2. \A i \in DOMAIN emitted : Fits(emitted[i].rec)
    BY DEF IInv, RecordsFit
  <2>3. \A i \in DOMAIN emitted' : \/ emitted'[i].rec = rec
                                   \/ i \in DOMAIN emitted /\ emitted'[i] = emitted[i]
    BY <1>1, <1>4
  <2> QED
    BY <2>1, <2>2, <2>3 DEF RecordsFit, Fits, RouteFits
<1>6. ASSUME NEW s \in Requests \ {r}
      PROVE  ReqInv(s)'
  <2>1. ReqInv(s)
    BY DEF IInv
  <2>2. RecordsOf(s)' = RecordsOf(s)
    BY <1>1, <1>4 DEF RecordsOf
  <2>3. pc'[s] = pc[s] /\ record'[s] = record[s]
    BY DEF Record, IInv, TypeOK
  <2> QED
    BY <2>1, <2>2, <2>3 DEF ReqInv, Fits, RouteFits
<1>7. ReqInv(r)'
  <2>1. CASE cfg.enabled
    <3>1. RecordsOf(r)' = {Len(emitted) + 1}
      BY <1>1, <1>3, <1>4, <2>1 DEF RecordsOf
    <3> QED
      BY <1>2, <2>1, <3>1 DEF ReqInv
  <2>2. CASE ~cfg.enabled
    <3>1. RecordsOf(r)' = {}
      BY <1>1, <1>3, <2>2 DEF RecordsOf
    <3> QED
      BY <1>2, <2>2, <3>1 DEF ReqInv
  <2> QED
    BY <2>1, <2>2
<1> QED
  BY <1>5, <1>6, <1>7 DEF IInv

-----------------------------------------------------------------------------
\* The initial states.
LEMMA InitInvariant == Init => IInv
<1> SUFFICES ASSUME Init PROVE IInv
  OBVIOUS
<1>1. TypeOK
  BY GatewayAssumption DEF Init, TypeOK, NoAsk, NoMetrics, NoRecord, NoCost, RecordType,
     CostType, Steps, Ended
<1>2. RecordsFit /\ \A r \in Requests : ReqInv(r)
  BY DEF Init, RecordsFit, ReqInv, RecordsOf
<1> QED
  BY <1>1, <1>2 DEF IInv

\* What a step that emits nothing leaves of the records.
LEMMA SameRecords ==
  ASSUME emitted' = emitted, NEW r
  PROVE  RecordsOf(r)' = RecordsOf(r)
BY DEF RecordsOf

\* A request that is not forwarded yet has nothing to lose.
LEMMA Unserved ==
  ASSUME IInv, NEW r \in Requests, pc[r] \in {"idle", "explore"},
         UNCHANGED <<cfg, phase, climbs, emitted>>, pc'[r] \in {"explore", "classify"}
  PROVE  ReqInv(r)'
<1>1. RecordsOf(r) = {} /\ RecordsOf(r)' = RecordsOf(r)
  BY SameRecords DEF IInv, ReqInv
<1>2. phase[r] = "new" => climbs[r] = 0
  BY DEF IInv, ReqInv
<1> QED
  BY <1>1, <1>2 DEF ReqInv

\* A request arrives.
LEMMA ReceiveKeeps ==
  ASSUME IInv, NEW r \in Requests, Receive(r)
  PROVE  IInv'
<1> USE DEF IInv
<1>1. PICK e \in {"chat", "messages"}, s \in BOOLEAN, n \in Sizes :
        /\ ask' = [ask EXCEPT ![r] = [endpoint |-> e, stream |-> s, size |-> n]]
        /\ metrics' = [metrics EXCEPT ![r] = [ran |-> FALSE, pre |-> n, post |-> n]]
  BY DEF Receive
<1>2. PICK l \in {"classify", "explore"} : pc' = [pc EXCEPT ![r] = l]
  BY DEF Receive, Goto
<1>3. UNCHANGED <<cfg, record, ladder, meter, log>> /\ pc[r] = "idle"
  BY DEF Receive
<1>4. TypeOK'
  BY <1>1, <1>2, <1>3, GatewayAssumption DEF TypeOK, ladder, meter, log, Steps, Ended
<1>5. ReqInv(r)'
  BY <1>2, <1>3, Unserved DEF TypeOK, ladder, log
<1> QED
  BY <1>2, <1>3, <1>4, <1>5, Frame DEF TypeOK, ladder, log

\* The explore stage ends.
LEMMA ExploreKeeps ==
  ASSUME IInv, NEW r \in Requests, Explore(r)
  PROVE  IInv'
<1> USE DEF IInv
<1>1. UNCHANGED <<cfg, ask, record, ladder, meter, log>>
      /\ pc[r] = "explore" /\ pc' = [pc EXCEPT ![r] = "classify"]
  BY DEF Explore, Goto
<1>2. metrics' \in [Requests -> [ran: BOOLEAN, pre: Nat, post: Nat]]
  <2>1. ask[r].size \in Nat /\ metrics \in [Requests -> [ran: BOOLEAN, pre: Nat, post: Nat]]
    BY DEF TypeOK
  <2>2. ASSUME NEW n \in Evidence
        PROVE  [ran |-> TRUE, pre |-> ask[r].size, post |-> ask[r].size + n]
                 \in [ran: BOOLEAN, pre: Nat, post: Nat]
    BY <2>1, GatewayAssumption
  <2> QED
    BY <2>1, <2>2 DEF Explore
<1>3. TypeOK'
  BY <1>1, <1>2 DEF TypeOK, ladder, meter, log, Steps, Ended
<1>4. ReqInv(r)'
  BY <1>1, Unserved DEF TypeOK, ladder, log
<1> QED
  BY <1>1, <1>3, <1>4, Frame DEF TypeOK, ladder, log

\* A tier is chosen, and the record built around it fits its route.
LEMMA ClassifyKeeps ==
  ASSUME IInv, NEW r \in Requests, Classify(r)
  PROVE  IInv'
<1> USE DEF IInv
<1>1. PICK t \in Tier :
        /\ record' = [record EXCEPT ![r] =
             [NoRecord EXCEPT !.classified = t, !.effective = EffectiveTier(t),
                              !.served = EffectiveTier(t), !.shadow = IsShadow,
                              !.stream = ask[r].stream, !.input = metrics[r].post,
                              !.explored = metrics[r].ran, !.pre = metrics[r].pre,
                              !.post = metrics[r].post]]
        /\ L!Enter(r) /\ rung'[r] = EffectiveTier(t)
  BY DEF Classify
<1>2. UNCHANGED <<cfg, ask, metrics, meter, log>>
      /\ pc[r] = "classify" /\ pc' = [pc EXCEPT ![r] = "forward"]
  BY DEF Classify, Goto
<1>3. /\ phase[r] = "new" /\ phase' = [phase EXCEPT ![r] = "trying"]
      /\ \E u \in Tier : rung' = [rung EXCEPT ![r] = u]
      /\ climbs' = climbs
  BY <1>1 DEF L!Enter, L!Tier, Tier
<1>4. EffectiveTier(t) \in Tier /\ IsShadow \in BOOLEAN
      /\ (IsShadow => EffectiveTier(t) = cfg.shadowTier)
      /\ (EffectiveTier(t) # t => IsShadow)
  BY GatewayAssumption DEF EffectiveTier, IsShadow, TypeOK, ConfigType
<1>5. /\ record'[r] \in RecordType /\ record'[r].effective = EffectiveTier(t)
      /\ record'[r].classified = t /\ record'[r].shadow = IsShadow
  BY <1>1, <1>4 DEF TypeOK, NoRecord, NoCost, RecordType, CostType
<1>6. TypeOK'
  BY <1>1, <1>2, <1>3, <1>5 DEF TypeOK, meter, log, Steps, Ended
<1>7. ReqInv(r)'
  <2>1. climbs[r] = 0 /\ cfg.budget \in Nat /\ Rank[EffectiveTier(t)] \in Nat
    BY <1>3, <1>4, GatewayAssumption DEF ReqInv, TypeOK, ConfigType, Rank, Tier
  <2>2. RouteFits(record[r])'
    BY <1>2, <1>4, <1>5 DEF RouteFits
  <2>3. RecordsOf(r)' = {}
    BY <1>2, SameRecords DEF ReqInv, log
  <2>4. pc'[r] = "forward" /\ phase'[r] = "trying" /\ rung'[r] = EffectiveTier(t)
        /\ climbs'[r] = 0 /\ cfg' = cfg
    BY <1>1, <1>2, <1>3, <2>1 DEF TypeOK
  <2> QED
    BY <1>4, <1>5, <2>1, <2>2, <2>3, <2>4 DEF ReqInv
<1> QED
  BY <1>1, <1>2, <1>3, <1>6, <1>7, Frame DEF TypeOK, log

\* The next rung is one above.
LEMMA EscalateIsNext ==
  ASSUME NEW t \in Tier, t # "Complex"
  PROVE  L!Escalate(t) \in Tier /\ Rank[L!Escalate(t)] = Rank[t] + 1
BY DEF L!Escalate, Tier, Rank

\* A climb moves the rung and the count together.
LEMMA ClimbKeeps ==
  ASSUME IInv, NEW r \in Requests, Climb(r)
  PROVE  IInv'
<1> USE DEF IInv
<1>1. /\ pc[r] = "forward" /\ climbs[r] < cfg.budget /\ rung[r] # "Complex"
      /\ rung' = [rung EXCEPT ![r] = L!Escalate(rung[r])]
      /\ climbs' = [climbs EXCEPT ![r] = climbs[r] + 1]
      /\ phase[r] = "trying"
      /\ UNCHANGED <<cfg, phase, pc, ask, metrics, record, meter, log>>
  BY DEF Climb, L!Climb
<1>2. /\ rung[r] \in Tier /\ record[r].effective \in Tier /\ RouteFits(record[r])
      /\ Rank[rung[r]] = Rank[record[r].effective] + climbs[r]
  BY <1>1 DEF ReqInv
<1>3. climbs[r] \in Nat /\ cfg.budget \in Nat /\ Rank[record[r].effective] \in Nat
  BY <1>2, GatewayAssumption DEF TypeOK, ConfigType, Rank, Tier
<1> DEFINE next == L!Escalate(rung[r])
<1>8. next \in Tier /\ Rank[next] = Rank[rung[r]] + 1 /\ rung' = [rung EXCEPT ![r] = next]
  BY <1>1, <1>2, EscalateIsNext
<1> HIDE DEF next
<1>4. TypeOK'
  <2>1. rung' \in [Requests -> Tier \cup {NoTier}] /\ climbs' \in [Requests -> Nat]
    BY <1>1, <1>3, <1>8 DEF TypeOK
  <2> QED
    BY <1>1, <2>1 DEF TypeOK, meter, log
<1>5. /\ rung'[r] \in Tier /\ climbs'[r] = climbs[r] + 1
      /\ Rank[rung'[r]] = Rank[record'[r].effective] + climbs'[r]
      /\ climbs'[r] <= cfg'.budget
  <2>1. rung'[r] = next /\ climbs'[r] = climbs[r] + 1 /\ record'[r] = record[r] /\ cfg' = cfg
    BY <1>1, <1>8 DEF TypeOK
  <2> QED
    BY <1>1, <1>2, <1>3, <1>8, <2>1
<1>6. RecordsOf(r) = {} /\ RecordsOf(r)' = {} /\ RouteFits(record[r])'
  BY <1>1, <1>2, SameRecords DEF ReqInv, log, RouteFits
<1>7. ReqInv(r)'
  BY <1>1, <1>2, <1>5, <1>6 DEF ReqInv
<1> QED
  BY <1>1, <1>4, <1>7, Frame DEF TypeOK, log

\* What is known when forward returns with an answer.
LEMMA ReturnedFits ==
  ASSUME IInv, NEW r \in Requests, Returned(r)
  PROVE  /\ Served(r) \in RecordType /\ Fits(Served(r)) /\ rung[r] \in Tier
         /\ pc[r] = "forward" /\ phase'[r] = "answered" /\ RecordsOf(r) = {}
         /\ UNCHANGED <<cfg, rung, climbs>>
         /\ phase' = [phase EXCEPT ![r] = "answered"]
<1> USE DEF IInv
<1>1. /\ pc[r] = "forward" /\ phase'[r] = "answered"
      /\ \E p \in {"answered", "gone"} : phase' = [phase EXCEPT ![r] = p]
      /\ UNCHANGED <<cfg, rung, climbs>>
  BY DEF Returned, L!Finish
<1>2. phase' = [phase EXCEPT ![r] = "answered"]
  BY <1>1 DEF TypeOK
<1>3. /\ rung[r] \in Tier /\ climbs[r] \in Nat /\ record[r] \in RecordType
      /\ Rank[rung[r]] = Rank[record[r].effective] + climbs[r]
      /\ climbs[r] <= cfg.budget /\ RouteFits(record[r]) /\ RecordsOf(r) = {}
  BY <1>1 DEF ReqInv, TypeOK
<1>4. Fits(Served(r))
  BY <1>3, ServedTyped DEF Fits, RouteFits
<1> QED
  BY <1>1, <1>2, <1>3, <1>4, ServedTyped

\* An error is returned, and nothing is recorded.
LEMMA FailsKeeps ==
  ASSUME IInv, NEW r \in Requests, ForwardFails(r)
  PROVE  IInv'
<1> USE DEF IInv
<1>1. Returned(r) /\ pc' = [pc EXCEPT ![r] = "failed"]
      /\ UNCHANGED <<ask, metrics, record, meter, log>>
  BY DEF ForwardFails, Goto
<1>2. /\ pc[r] = "forward" /\ RecordsOf(r) = {} /\ UNCHANGED <<cfg, rung, climbs>>
      /\ phase' = [phase EXCEPT ![r] = "answered"]
  BY <1>1, ReturnedFits
<1>3. TypeOK'
  BY <1>1, <1>2 DEF TypeOK, meter, log, Steps, Ended
<1>4. RecordsOf(r)' = {}
  BY <1>1, <1>2, SameRecords DEF log
<1>5. pc'[r] = "failed" /\ phase'[r] = "answered"
  BY <1>1, <1>2 DEF TypeOK
<1>6. ReqInv(r)'
  BY <1>4, <1>5 DEF ReqInv
<1> QED
  BY <1>1, <1>2, <1>3, <1>6, Frame DEF TypeOK, log

\* A completed answer is recorded as it was served.
LEMMA AnswersKeeps ==
  ASSUME IInv, NEW r \in Requests, ForwardAnswers(r)
  PROVE  IInv'
<1> USE DEF IInv
<1>1. Returned(r) /\ Record(r) /\ UNCHANGED <<ask, metrics, meter>>
  BY DEF ForwardAnswers
<1>2. PICK n \in Counts, i \in Sizes :
        record' = [record EXCEPT ![r] = [Served(r) EXCEPT !.input = i, !.output = n,
                                                          !.cost = Cost(rung[r], i, n)]]
  BY DEF ForwardAnswers
<1> DEFINE rec == [Served(r) EXCEPT !.input = i, !.output = n, !.cost = Cost(rung[r], i, n)]
<1>3. /\ Served(r) \in RecordType /\ Fits(Served(r)) /\ rung[r] \in Tier
      /\ pc[r] = "forward" /\ UNCHANGED <<cfg, rung, climbs>>
      /\ phase' = [phase EXCEPT ![r] = "answered"]
  BY <1>1, ReturnedFits
<1>4. Cost(rung[r], i, n) \in CostType /\ n \in Nat /\ i \in Nat
  BY <1>3, GatewayAssumption DEF Cost, CostType
<1>5. /\ rec \in RecordType
      /\ rec.served = Served(r).served /\ rec.escalations = Served(r).escalations
      /\ rec.premium = Served(r).premium /\ rec.effective = Served(r).effective
      /\ rec.classified = Served(r).classified /\ rec.shadow = Served(r).shadow
  <2> HIDE DEF rec
  <2>1. rec = [Served(r) EXCEPT !.input = i, !.output = n, !.cost = Cost(rung[r], i, n)]
    BY DEF rec
  <2> QED
    BY <1>3, <1>4, <2>1 DEF RecordType
<1>6. record' = [record EXCEPT ![r] = rec]
  BY <1>2
<1> HIDE DEF rec
<1>7. Fits(rec)
  BY <1>3, <1>5 DEF Fits, RouteFits
<1>8. TypeOK'
  BY <1>1, <1>3, <1>5, <1>6, RecordTypes
<1> QED
  BY <1>1, <1>3, <1>5, <1>6, <1>7, <1>8, RecordKeeps DEF TypeOK

\* A stream starts with the record of what serves it.
LEMMA StreamsKeeps ==
  ASSUME IInv, NEW r \in Requests, ForwardStreams(r)
  PROVE  IInv'
<1> USE DEF IInv
<1>1. /\ Returned(r) /\ record' = [record EXCEPT ![r] = Served(r)]
      /\ \E l \in {"relay", "opening"} : pc' = [pc EXCEPT ![r] = l]
      /\ UNCHANGED <<ask, metrics, meter, log>>
  BY DEF ForwardStreams, Goto
<1>2. /\ Served(r) \in RecordType /\ Fits(Served(r))
      /\ pc[r] = "forward" /\ RecordsOf(r) = {} /\ UNCHANGED <<cfg, rung, climbs>>
      /\ phase' = [phase EXCEPT ![r] = "answered"]
  BY <1>1, ReturnedFits
<1>3. TypeOK'
  BY <1>1, <1>2 DEF TypeOK, meter, log, Steps, Ended
<1>4. RecordsOf(r)' = {}
  BY <1>1, <1>2, SameRecords DEF log
<1>5. pc'[r] \in {"relay", "opening"} /\ phase'[r] = "answered" /\ record'[r] = Served(r)
  BY <1>1, <1>2 DEF TypeOK
<1>6. Fits(record[r])'
  BY <1>2, <1>5 DEF Fits, RouteFits
<1>7. ReqInv(r)'
  BY <1>4, <1>5, <1>6 DEF ReqInv
<1> QED
  BY <1>1, <1>2, <1>3, <1>7, Frame DEF TypeOK, log

-----------------------------------------------------------------------------
Streaming == {"relay", "opening", "events", "closing"}

\* A chunk that passes leaves the record alone.
LEMMA PassKeeps ==
  ASSUME IInv, NEW r \in Requests, NEW from \in Streaming, NEW to \in Streaming,
         NEW n \in Nat \cup {NoCount}, Pass(r, from, n), pc' = [pc EXCEPT ![r] = to],
         cut' \in [Requests -> Counts \cup {NoCount}],
         said' \in [Requests -> Counts \cup {NoCount}]
  PROVE  IInv'
<1> USE DEF IInv
<1>1. /\ pc[r] \in Streaming /\ UNCHANGED <<cfg, ask, metrics, record, ladder, log>>
      /\ chunks' = [chunks EXCEPT ![r] = chunks[r] + 1]
      /\ seen' \in {seen, [seen EXCEPT ![r] = n]}
  BY DEF Pass
<1>2. chunks' \in [Requests -> Nat] /\ seen' \in [Requests -> Nat \cup {NoCount}]
  <2> DEFINE Seen == Nat \cup {NoCount}
  <2>1. chunks \in [Requests -> Nat] /\ seen \in [Requests -> Seen] /\ n \in Seen
    BY DEF TypeOK
  <2>2. chunks' \in [Requests -> Nat]
    BY <1>1, <2>1
  <2> HIDE DEF Seen
  <2>3. seen' \in [Requests -> Seen]
    BY <1>1, <2>1
  <2> QED
    BY <2>2, <2>3 DEF Seen
<1>3. TypeOK'
  BY <1>1, <1>2 DEF TypeOK, ladder, log, Streaming, Steps, Ended
<1>4. Fits(record[r]) /\ RecordsOf(r) = {} /\ (phase[r] = "new" => climbs[r] = 0)
  <2>1. ReqInv(r)
    OBVIOUS
  <2> QED
    BY <1>1, <2>1 DEF ReqInv, Streaming
<1>5. RecordsOf(r)' = {} /\ pc'[r] = to /\ phase'[r] = phase[r] /\ climbs'[r] = climbs[r]
  BY <1>1, <1>4, SameRecords DEF ladder, log, TypeOK
<1>6. Fits(record[r])'
  BY <1>1, <1>4 DEF Fits, RouteFits
<1>7. ReqInv(r)'
  BY <1>4, <1>5, <1>6 DEF ReqInv, Streaming
<1> QED
  BY <1>1, <1>3, <1>7, Frame DEF TypeOK, ladder, log

\* Everything the client pulls from a body is such a chunk.
LEMMA RelayKeeps ==
  ASSUME IInv, NEW r \in Requests, Relay(r)
  PROVE  IInv'
<1> DEFINE Cuts == [Requests -> Counts \cup {NoCount}]
<1>1. /\ cut \in Cuts /\ said \in Cuts /\ pc = [pc EXCEPT ![r] = pc[r]]
  BY DEF IInv, TypeOK
<1>2. ASSUME NEW n \in Counts
      PROVE  /\ n \in Nat /\ n \div 10 \in Nat /\ [cut EXCEPT ![r] = n] \in Cuts
             /\ [said EXCEPT ![r] = n] \in Cuts
  BY <1>1, GatewayAssumption
<1>3. NoCount \in Nat \cup {NoCount} /\ 0 \in Nat /\ [cut EXCEPT ![r] = NoCount] \in Cuts
  BY <1>1
<1>4. ASSUME NEW from \in Streaming, NEW n \in Nat \cup {NoCount}, Pass(r, from, n),
             cut' \in Cuts, said' \in Cuts, UNCHANGED pc
      PROVE  IInv'
  BY <1>1, <1>4, PassKeeps DEF Pass
<1>5. CASE TextChunk(r)
  BY <1>1, <1>3, <1>4, <1>5 DEF TextChunk, Streaming
<1>6. CASE UsageChunk(r)
  BY <1>1, <1>2, <1>4, <1>6 DEF UsageChunk, Streaming
<1>7. CASE SplitUsage(r)
  BY <1>1, <1>2, <1>3, <1>4, <1>7 DEF SplitUsage, Streaming
<1>8. CASE RestOfUsage(r)
  <2>1. cut[r] \in Counts
    BY <1>1, <1>8 DEF RestOfUsage
  <2> QED
    BY <1>2, <1>3, <1>4, <1>8, <2>1 DEF RestOfUsage, Streaming
<1>9. CASE OpenMessage(r)
  <2>1. Pass(r, "opening", 0) /\ pc' = [pc EXCEPT ![r] = "events"] /\ UNCHANGED <<cut, said>>
    BY <1>9 DEF OpenMessage, Goto
  <2> QED
    BY <1>1, <2>1, PassKeeps DEF Streaming
<1>10. CASE CloseMessage(r)
  <2>1. /\ pc' = [pc EXCEPT ![r] = "closing"] /\ UNCHANGED cut
        /\ \/ \E n \in Counts : Pass(r, "events", n) /\ said' = [said EXCEPT ![r] = n]
           \/ Pass(r, "events", 0) /\ UNCHANGED said
    BY <1>10 DEF CloseMessage, Goto
  <2>2. CASE Pass(r, "events", 0) /\ UNCHANGED said
    BY <1>1, <2>1, <2>2, PassKeeps DEF Streaming
  <2>3. ASSUME NEW n \in Counts, Pass(r, "events", n), said' = [said EXCEPT ![r] = n]
        PROVE  IInv'
    BY <1>1, <1>2, <2>1, <2>3, PassKeeps DEF Streaming
  <2> QED
    BY <2>1, <2>2, <2>3
<1> QED
  BY <1>5, <1>6, <1>7, <1>8, <1>9, <1>10 DEF Relay

-----------------------------------------------------------------------------
\* A stream that ends is recorded as it was served.
LEMMA EndKeeps ==
  ASSUME IInv, NEW r \in Requests, StreamEnds(r)
  PROVE  IInv'
<1> USE DEF IInv
<1> DEFINE cost == IF seen[r] = NoCount THEN NoCost
                   ELSE Cost(record[r].served, record[r].input, seen[r])
           rec == [record[r] EXCEPT !.output = seen[r], !.cost = cost]
<1>1. /\ pc[r] \in {"relay", "closing"} /\ record' = [record EXCEPT ![r] = rec] /\ Record(r)
      /\ UNCHANGED <<cfg, ask, metrics, ladder, meter>>
  BY DEF StreamEnds
<1>2. /\ record[r] \in RecordType /\ seen[r] \in Nat \cup {NoCount}
  BY DEF TypeOK
<1>3. record[r].served \in Tier \cup {NoTier} /\ record[r].input \in Nat
  BY <1>2 DEF RecordType
<1>4. cost \in CostType
  BY <1>2, <1>3 DEF CostType, NoCost, Cost
<1>5. rec = [record[r] EXCEPT !.output = seen[r], !.cost = cost]
  OBVIOUS
<1> HIDE DEF cost, rec
<1>6. /\ rec \in RecordType
      /\ rec.served = record[r].served /\ rec.escalations = record[r].escalations
      /\ rec.premium = record[r].premium /\ rec.effective = record[r].effective
      /\ rec.classified = record[r].classified /\ rec.shadow = record[r].shadow
  BY <1>2, <1>4, <1>5 DEF RecordType
<1>7. Fits(record[r]) /\ (phase[r] = "new" => climbs[r] = 0)
  <2>1. ReqInv(r)
    OBVIOUS
  <2> QED
    BY <1>1, <2>1 DEF ReqInv
<1>8. Fits(rec)
  BY <1>6, <1>7 DEF Fits, RouteFits
<1>9. TypeOK'
  <2>1. UNCHANGED <<rung, climbs, phase, meter>> /\ pc[r] # "forward"
    BY <1>1 DEF ladder
  <2> QED
    BY <1>1, <1>6, <2>1, RecordTypes
<1> QED
  BY <1>1, <1>6, <1>7, <1>8, <1>9, RecordKeeps DEF ladder

\* A step that only moves a request out of sight, or on from its record.
LEMMA LeaveKeeps ==
  ASSUME IInv, NEW r \in Requests, NEW l \in {"failed", "gone", "done"}, TypeOK',
         pc' = [pc EXCEPT ![r] = l], UNCHANGED <<cfg, record, emitted, climbs, rung>>,
         \A s \in Requests \ {r} : phase'[s] = phase[s],
         phase'[r] = "new" => climbs[r] = 0,
         l = "failed" => RecordsOf(r) = {},
         l = "done" => pc[r] = "append"
  PROVE  IInv'
<1>1. ReqInv(r) /\ RecordsOf(r)' = RecordsOf(r) /\ pc'[r] = l
  BY SameRecords DEF IInv, TypeOK
<1>2. ReqInv(r)'
  BY <1>1 DEF ReqInv
<1>3. \A s \in Requests \ {r} : pc'[s] = pc[s]
  BY DEF IInv, TypeOK
<1> QED
  BY <1>2, <1>3, Frame

\* A body that is given up has not been recorded.
LEMMA BreakKeeps ==
  ASSUME IInv, NEW r \in Requests, StreamBreaks(r)
  PROVE  IInv'
<1>1. /\ pc[r] = "relay" /\ pc' = [pc EXCEPT ![r] = "failed"]
      /\ UNCHANGED <<cfg, ask, metrics, record, ladder, meter, log>>
  BY DEF StreamBreaks, Goto
<1>2. ReqInv(r) /\ TypeOK
  BY DEF IInv
<1>3. TypeOK'
  BY <1>1, <1>2 DEF TypeOK, ladder, meter, log, Ended, Steps
<1> QED
  BY <1>1, <1>2, <1>3, LeaveKeeps DEF ReqInv, ladder, log

\* The log does not touch what was recorded.
LEMMA AppendKeeps ==
  ASSUME IInv, NEW r \in Requests, AppendLine(r)
  PROVE  IInv'
<1>1. /\ pc[r] = "append" /\ pc' = [pc EXCEPT ![r] = "done"]
      /\ pending' \in {pending, pending \cup {r}}
      /\ unwritten' \in {unwritten, unwritten \cup {r}}
      /\ UNCHANGED <<cfg, ask, metrics, record, ladder, meter, emitted, lines>>
  BY DEF AppendLine, Goto
<1>2. ReqInv(r) /\ TypeOK
  BY DEF IInv
<1>3. TypeOK'
  BY <1>1, <1>2 DEF TypeOK, ladder, meter, Ended, Steps
<1> QED
  BY <1>1, <1>2, <1>3, LeaveKeeps DEF ReqInv, ladder

\* A write that lands touches the lines only.
LEMMA WriteKeeps ==
  ASSUME IInv, NEW r \in Requests, WriteLine(r)
  PROVE  IInv'
<1>1. /\ pending' = pending \ {r} /\ lines' \in {lines, Append(lines, r)}
      /\ unwritten' \in {unwritten, unwritten \cup {r}}
      /\ UNCHANGED <<cfg, pc, ask, metrics, record, ladder, meter, emitted>>
  BY DEF WriteLine
<1>2. ReqInv(r) /\ TypeOK
  BY DEF IInv
<1>3. lines' \in Seq(Requests)
  <2>1. lines \in Seq(Requests)
    BY <1>2 DEF TypeOK
  <2> QED
    BY <1>1, <2>1
<1>4. TypeOK'
  BY <1>1, <1>2, <1>3 DEF TypeOK, ladder, meter
<1>5. ReqInv(r)' = ReqInv(r)
  <2>1. RecordsOf(r)' = RecordsOf(r)
    BY <1>1, SameRecords
  <2> QED
    BY <1>1, <2>1 DEF ReqInv, Fits, RouteFits, ladder
<1> QED
  BY <1>1, <1>2, <1>4, <1>5, Frame DEF ladder

\* A client that leaves takes no record with it.
LEMMA DisconnectKeeps ==
  ASSUME IInv, NEW r \in Requests, Disconnect(r)
  PROVE  IInv'
<1>1. /\ pc[r] \notin Ended \cup {"idle"} /\ pc' = [pc EXCEPT ![r] = "gone"]
      /\ UNCHANGED <<cfg, ask, metrics, record, meter, log>>
  BY DEF Disconnect, Goto
<1>2. ReqInv(r) /\ TypeOK
  BY DEF IInv
<1>3. /\ UNCHANGED <<rung, climbs>>
      /\ (phase' = phase /\ pc[r] # "forward") \/ (phase' = [phase EXCEPT ![r] = "gone"])
  BY <1>2 DEF Disconnect, L!Finish, TypeOK, ladder
<1>4. TypeOK'
  <2>1. CASE phase' = phase /\ pc[r] # "forward"
    BY <1>1, <1>2, <1>3, <2>1 DEF TypeOK, meter, log, Ended, Steps
  <2>2. CASE phase' = [phase EXCEPT ![r] = "gone"]
    BY <1>1, <1>2, <1>3, <2>2 DEF TypeOK, meter, log, Ended, Steps
  <2> QED
    BY <1>3, <2>1, <2>2
<1>5. phase'[r] = "new" => climbs[r] = 0
  BY <1>2, <1>3 DEF ReqInv, TypeOK
<1>6. \A s \in Requests \ {r} : phase'[s] = phase[s]
  BY <1>2, <1>3 DEF TypeOK
<1>7. UNCHANGED <<cfg, record, emitted, climbs, rung>>
  BY <1>1, <1>3 DEF log
<1> QED
  BY <1>1, <1>4, <1>5, <1>6, <1>7, LeaveKeeps

\* Every step keeps the invariant.
LEMMA NextInvariant == IInv /\ [Next]_vars => IInv'
<1> SUFFICES ASSUME IInv, [Next]_vars PROVE IInv'
  OBVIOUS
<1>1. CASE UNCHANGED vars
  <2>1. TypeOK' /\ RecordsFit'
    BY <1>1 DEF IInv, TypeOK, RecordsFit, Fits, RouteFits, vars, ladder, meter, log
  <2>2. ASSUME NEW r \in Requests
        PROVE  ReqInv(r)'
    <3>1. RecordsOf(r)' = RecordsOf(r) /\ ReqInv(r)
      BY <1>1, SameRecords DEF vars, log, IInv
    <3> QED
      BY <1>1, <3>1 DEF ReqInv, Fits, RouteFits, vars, ladder
  <2> QED
    BY <2>1, <2>2 DEF IInv
<1>2. ASSUME NEW r \in Requests, Handle(r)
      PROVE  IInv'
  BY <1>2, ExploreKeeps, ClassifyKeeps, ClimbKeeps, FailsKeeps, AnswersKeeps, StreamsKeeps
     DEF Handle
<1>3. ASSUME NEW r \in Requests,
             \/ Receive(r) \/ Relay(r) \/ StreamEnds(r) \/ StreamBreaks(r)
             \/ AppendLine(r) \/ WriteLine(r) \/ Disconnect(r)
      PROVE  IInv'
  BY <1>3, ReceiveKeeps, RelayKeeps, EndKeeps, BreakKeeps, AppendKeeps, WriteKeeps,
     DisconnectKeeps
<1> QED
  BY <1>1, <1>2, <1>3 DEF Next, Quiet

-----------------------------------------------------------------------------
\* The log.  Only a request that is done has a line, a write in flight or an error
\* met, it has one of the three at most once, and with a log it has one.
Written(r) == r \in pending \cup unwritten \/ \E i \in DOMAIN lines : lines[i] = r

LogInv(r) ==
  /\ pc[r] = "append" => cfg.enabled
  /\ Written(r) => cfg.enabled /\ pc[r] = "done"
  /\ \A i, j \in DOMAIN lines : lines[i] = r /\ lines[j] = r => i = j
  /\ \A i \in DOMAIN lines : lines[i] = r => r \notin pending \cup unwritten
  /\ r \notin pending \cap unwritten
  /\ cfg.enabled /\ cfg.log /\ pc[r] = "done" => Written(r)

\* A request that has not written yet may move; one that is done stays done.
LEMMA LogFrame ==
  ASSUME IInv, NEW r \in Requests, \A q \in Requests : LogInv(q), cfg' = cfg,
         UNCHANGED <<pending, lines, unwritten>>, pc[r] # "done",
         \A s \in Requests \ {r} : pc'[s] = pc[s],
         pc'[r] = "append" => cfg.enabled,
         pc'[r] = "done" => ~(cfg.enabled /\ cfg.log)
  PROVE  \A q \in Requests : LogInv(q)'
<1>1. ASSUME NEW q \in Requests
      PROVE  LogInv(q)'
  <2>1. LogInv(q) /\ Written(q)' = Written(q)
    BY DEF Written
  <2>2. Written(q) => q # r
    BY <2>1 DEF LogInv
  <2> QED
    BY <2>1, <2>2 DEF LogInv
<1> QED
  BY <1>1

\* Emitting a record leaves the log to a request that may append to it.
LEMMA RecordLogs ==
  ASSUME IInv, NEW r \in Requests, \A q \in Requests : LogInv(q), cfg' = cfg,
         pc[r] # "done", Record(r)
  PROVE  \A q \in Requests : LogInv(q)'
<1>1. /\ pc' = [pc EXCEPT ![r] = IF cfg.enabled /\ cfg.log THEN "append" ELSE "done"]
      /\ UNCHANGED <<pending, lines, unwritten>>
  BY DEF Record
<1>2. /\ pc'[r] = "append" => cfg.enabled
      /\ pc'[r] = "done" => ~(cfg.enabled /\ cfg.log)
  BY <1>1 DEF IInv, TypeOK
<1>3. \A s \in Requests \ {r} : pc'[s] = pc[s]
  BY <1>1 DEF IInv, TypeOK
<1> QED
  BY <1>1, <1>2, <1>3, LogFrame

\* So does a step to any place but the append and what is behind it.
LEMMA MoveLogs ==
  ASSUME IInv, NEW r \in Requests, \A q \in Requests : LogInv(q), cfg' = cfg,
         pc[r] # "done", NEW l, l \notin {"append", "done"}, pc' = [pc EXCEPT ![r] = l],
         UNCHANGED <<pending, lines, unwritten>>
  PROVE  \A q \in Requests : LogInv(q)'
<1>1. pc'[r] = l /\ \A s \in Requests \ {r} : pc'[s] = pc[s]
  BY DEF IInv, TypeOK
<1> QED
  BY <1>1, LogFrame

\* A line is handed to a write once, by a request that is done with it.
LEMMA AppendLogs ==
  ASSUME IInv, NEW r \in Requests, \A q \in Requests : LogInv(q), AppendLine(r)
  PROVE  \A q \in Requests : LogInv(q)'
<1>1. /\ pc[r] = "append" /\ pc' = [pc EXCEPT ![r] = "done"] /\ UNCHANGED <<cfg, lines>>
      /\ \/ pending' = pending \cup {r} /\ unwritten' = unwritten
         \/ unwritten' = unwritten \cup {r} /\ pending' = pending
  BY DEF AppendLine, Goto
<1>2. pc'[r] = "done" /\ \A s \in Requests \ {r} : pc'[s] = pc[s]
  BY <1>1 DEF IInv, TypeOK
<1>3. cfg.enabled /\ ~Written(r)
  BY <1>1 DEF LogInv
<1>4. LogInv(r)'
  BY <1>1, <1>2, <1>3 DEF LogInv, Written
<1>5. ASSUME NEW q \in Requests \ {r}
      PROVE  LogInv(q)'
  <2>1. /\ LogInv(q) /\ Written(q)' = Written(q)
        /\ (q \in pending' <=> q \in pending) /\ (q \in unwritten' <=> q \in unwritten)
    BY <1>1 DEF Written
  <2> QED
    BY <1>1, <1>2, <2>1 DEF LogInv
<1> QED
  BY <1>4, <1>5

\* A write that lands turns what was in flight into a line, or meets an error.
LEMMA WriteLogs ==
  ASSUME IInv, NEW r \in Requests, \A q \in Requests : LogInv(q), WriteLine(r)
  PROVE  \A q \in Requests : LogInv(q)'
<1>1. /\ r \in pending /\ pending' = pending \ {r} /\ UNCHANGED <<cfg, pc>>
      /\ \/ lines' = Append(lines, r) /\ unwritten' = unwritten
         \/ lines' = lines /\ unwritten' = unwritten \cup {r}
  BY DEF WriteLine
<1>2. lines \in Seq(Requests)
  BY DEF IInv, TypeOK
<1>3. CASE lines' = lines /\ unwritten' = unwritten \cup {r}
  BY <1>1, <1>3 DEF LogInv, Written
<1>4. CASE lines' = Append(lines, r) /\ unwritten' = unwritten
  <2>1. /\ Len(lines) \in Nat /\ DOMAIN lines = 1 .. Len(lines)
        /\ DOMAIN lines' = 1 .. Len(lines) + 1 /\ lines'[Len(lines) + 1] = r
        /\ \A i \in 1 .. Len(lines) : lines'[i] = lines[i]
    BY <1>2, <1>4
  <2>2. \A i \in DOMAIN lines : lines[i] # r
    BY <1>1 DEF LogInv
  <2>3. cfg.enabled /\ pc[r] = "done"
    BY <1>1 DEF LogInv, Written
  <2>4. \A i \in DOMAIN lines' : lines'[i] = r => i = Len(lines) + 1
    BY <2>1, <2>2
  <2>5. LogInv(r)'
    <3>1. r \notin pending' \cup unwritten' /\ Len(lines) + 1 \in DOMAIN lines'
      BY <1>1, <1>4, <2>1 DEF LogInv
    <3> QED
      BY <1>1, <2>1, <2>3, <2>4, <3>1 DEF LogInv, Written
  <2>6. ASSUME NEW q \in Requests \ {r}
        PROVE  LogInv(q)'
    <3>1. LogInv(q) /\ (q \in pending' <=> q \in pending)
      BY <1>1
    <3>2. /\ \A i \in DOMAIN lines' : lines'[i] = q => i \in DOMAIN lines /\ lines[i] = q
          /\ \A i \in DOMAIN lines : i \in DOMAIN lines' /\ lines'[i] = lines[i]
      BY <2>1
    <3>3. Written(q)' <=> Written(q)
      BY <1>4, <3>1, <3>2 DEF Written
    <3> QED
      BY <1>1, <1>4, <3>1, <3>2, <3>3 DEF LogInv
  <2> QED
    BY <2>5, <2>6
<1> QED
  BY <1>1, <1>3, <1>4

\* Every step keeps the log in order.
LEMMA NextLogs ==
  ASSUME IInv, \A q \in Requests : LogInv(q), [Next]_vars
  PROVE  \A q \in Requests : LogInv(q)'
<1>1. CASE UNCHANGED vars
  BY <1>1 DEF LogInv, Written, vars, log
<1>2. ASSUME NEW r \in Requests, Receive(r) \/ Handle(r) \/ Relay(r) \/ StreamEnds(r)
      PROVE  \A q \in Requests : LogInv(q)'
  <2>1. CASE Receive(r) \/ Explore(r) \/ Classify(r)
    <3>1. UNCHANGED <<cfg, pending, lines, unwritten>> /\ pc[r] # "done"
          /\ \E l \in {"explore", "classify", "forward"} : pc' = [pc EXCEPT ![r] = l]
      BY <2>1 DEF Receive, Explore, Classify, Goto, log
    <3> QED
      BY <3>1, MoveLogs
  <2>2. CASE ForwardFails(r) \/ ForwardStreams(r)
    <3>1. UNCHANGED <<cfg, pending, lines, unwritten>> /\ pc[r] # "done"
          /\ \E l \in {"failed", "relay", "opening"} : pc' = [pc EXCEPT ![r] = l]
      BY <2>2 DEF ForwardFails, ForwardStreams, Returned, Goto, log
    <3> QED
      BY <3>1, MoveLogs
  <2>3. CASE ForwardAnswers(r) \/ StreamEnds(r)
    <3>1. cfg' = cfg /\ pc[r] # "done" /\ Record(r)
      BY <2>3 DEF ForwardAnswers, StreamEnds, Returned
    <3> QED
      BY <3>1, RecordLogs
  <2>4. CASE Climb(r)
    <3>1. UNCHANGED <<cfg, pc, pending, lines, unwritten>>
      BY <2>4 DEF Climb, log
    <3> QED
      BY <3>1 DEF LogInv, Written
  <2>5. CASE Relay(r)
    <3>1. UNCHANGED <<cfg, pending, lines, unwritten>> /\ pc[r] \in Streaming
      BY <2>5 DEF Relay, TextChunk, UsageChunk, SplitUsage, RestOfUsage, OpenMessage,
         CloseMessage, Pass, log, Streaming
    <3>2. pc' = pc \/ \E l \in {"events", "closing"} : pc' = [pc EXCEPT ![r] = l]
      BY <2>5 DEF Relay, TextChunk, UsageChunk, SplitUsage, RestOfUsage, OpenMessage,
         CloseMessage, Goto
    <3>3. CASE pc' = pc
      BY <3>1, <3>3 DEF LogInv, Written
    <3>4. CASE \E l \in {"events", "closing"} : pc' = [pc EXCEPT ![r] = l]
      BY <3>1, <3>4, MoveLogs DEF Streaming
    <3> QED
      BY <3>2, <3>3, <3>4
  <2> QED
    BY <1>2, <2>1, <2>2, <2>3, <2>4, <2>5 DEF Handle
<1>3. ASSUME NEW r \in Requests, StreamBreaks(r) \/ Disconnect(r)
      PROVE  \A q \in Requests : LogInv(q)'
  <2>1. UNCHANGED <<cfg, pending, lines, unwritten>> /\ pc[r] # "done"
        /\ \E l \in {"failed", "gone"} : pc' = [pc EXCEPT ![r] = l]
    BY <1>3 DEF StreamBreaks, Disconnect, Goto, log, Ended
  <2> QED
    BY <2>1, MoveLogs
<1> QED
  BY <1>1, <1>2, <1>3, AppendLogs, WriteLogs DEF Next, Quiet

-----------------------------------------------------------------------------
\* The route.  From the classifier on, a request is on the effective tier or above
\* it by its climbs, and the effective tier is the shadow tier or the classified.
Routed == {"forward", "relay", "opening", "events", "closing", "append", "done"}

Traced(r) ==
  pc[r] \in Routed =>
    /\ rung[r] \in Tier /\ record[r].effective \in Tier
    /\ Rank[rung[r]] = Rank[record[r].effective] + climbs[r]
    /\ IsShadow => record[r].effective = cfg.shadowTier
    /\ ~IsShadow => record[r].effective = record[r].classified

\* A step that leaves a route alone keeps it.
LEMMA TraceFrame ==
  ASSUME NEW r \in Requests, Traced(r), UNCHANGED <<cfg, rung, climbs>>,
         pc'[r] \in Routed => pc[r] \in Routed,
         record'[r].effective = record[r].effective,
         record'[r].classified = record[r].classified
  PROVE  Traced(r)'
BY DEF Traced, IsShadow

\* A request that goes nowhere, or on, with its route.
LEMMA OnwardTraces ==
  ASSUME IInv, NEW r \in Requests, \A q \in Requests : Traced(q),
         UNCHANGED <<cfg, rung, climbs>>,
         NEW l, l \in Routed => pc[r] \in Routed, pc' = [pc EXCEPT ![r] = l],
         \A q \in Requests : /\ record'[q].effective = record[q].effective
                             /\ record'[q].classified = record[q].classified
  PROVE  \A q \in Requests : Traced(q)'
<1>1. \A q \in Requests : pc'[q] \in Routed => pc[q] \in Routed
  BY DEF IInv, TypeOK
<1> QED
  BY <1>1, TraceFrame

\* The classifier's tier, and the tier a climb leads to.
LEMMA ClassifyTraces ==
  ASSUME IInv, NEW r \in Requests, \A q \in Requests : Traced(q), Classify(r)
  PROVE  \A q \in Requests : Traced(q)'
<1>1. PICK t \in Tier :
        /\ record' = [record EXCEPT ![r] =
             [NoRecord EXCEPT !.classified = t, !.effective = EffectiveTier(t),
                              !.served = EffectiveTier(t), !.shadow = IsShadow,
                              !.stream = ask[r].stream, !.input = metrics[r].post,
                              !.explored = metrics[r].ran, !.pre = metrics[r].pre,
                              !.post = metrics[r].post]]
        /\ L!Enter(r) /\ rung'[r] = EffectiveTier(t)
  BY DEF Classify
<1>2. cfg' = cfg /\ pc[r] = "classify" /\ pc' = [pc EXCEPT ![r] = "forward"]
  BY DEF Classify, Goto
<1>3. /\ phase[r] = "new" /\ climbs' = climbs
      /\ \E u \in Tier : rung' = [rung EXCEPT ![r] = u]
  BY <1>1 DEF L!Enter, L!Tier, Tier
<1>4. EffectiveTier(t) \in Tier
  BY GatewayAssumption DEF EffectiveTier, IsShadow, IInv, TypeOK, ConfigType
<1>5. record'[r].effective = EffectiveTier(t) /\ record'[r].classified = t
  BY <1>1 DEF IInv, TypeOK, NoRecord
<1>6. climbs[r] = 0 /\ Rank[EffectiveTier(t)] \in Nat
  BY <1>3, <1>4 DEF IInv, ReqInv, Rank, Tier
<1>7. Traced(r)'
  <2>1. rung'[r] = EffectiveTier(t) /\ climbs'[r] = 0
    BY <1>1, <1>3, <1>6
  <2>2. Rank[rung'[r]] = Rank[record'[r].effective] + climbs'[r]
    BY <1>5, <1>6, <2>1
  <2>3. /\ IsShadow => record'[r].effective = cfg'.shadowTier
        /\ ~IsShadow => record'[r].effective = record'[r].classified
    BY <1>2, <1>5 DEF EffectiveTier
  <2>4. IsShadow' <=> IsShadow
    BY <1>2 DEF IsShadow
  <2> QED
    BY <1>4, <1>5, <2>1, <2>2, <2>3, <2>4 DEF Traced
<1>8. ASSUME NEW q \in Requests \ {r}
      PROVE  Traced(q)'
  <2>1. pc'[q] = pc[q] /\ record'[q] = record[q] /\ rung'[q] = rung[q]
    BY <1>1, <1>2, <1>3 DEF IInv, TypeOK
  <2> QED
    BY <1>2, <1>3, <2>1 DEF Traced, IsShadow
<1> QED
  BY <1>7, <1>8

LEMMA ClimbTraces ==
  ASSUME IInv, NEW r \in Requests, \A q \in Requests : Traced(q), Climb(r)
  PROVE  \A q \in Requests : Traced(q)'
<1>1. /\ pc[r] = "forward" /\ rung[r] # "Complex" /\ UNCHANGED <<cfg, pc, record>>
      /\ rung' = [rung EXCEPT ![r] = L!Escalate(rung[r])]
      /\ climbs' = [climbs EXCEPT ![r] = climbs[r] + 1]
  BY DEF Climb, L!Climb
<1>2. /\ rung[r] \in Tier /\ record[r].effective \in Tier
      /\ Rank[rung[r]] = Rank[record[r].effective] + climbs[r]
      /\ climbs[r] \in Nat /\ Rank[record[r].effective] \in Nat
  BY <1>1 DEF IInv, ReqInv, TypeOK, Rank, Tier
<1> DEFINE next == L!Escalate(rung[r])
<1>3. next \in Tier /\ Rank[next] = Rank[rung[r]] + 1
  BY <1>1, <1>2, EscalateIsNext
<1>4. rung'[r] = next /\ climbs'[r] = climbs[r] + 1
  BY <1>1 DEF IInv, TypeOK
<1> HIDE DEF next
<1>5. Traced(r)'
  <2>1. Rank[rung'[r]] = Rank[record'[r].effective] + climbs'[r]
    BY <1>1, <1>2, <1>3, <1>4
  <2> QED
    BY <1>1, <1>2, <1>3, <1>4, <2>1 DEF Traced, IsShadow, Routed
<1>6. ASSUME NEW q \in Requests \ {r}
      PROVE  Traced(q)'
  <2>1. rung'[q] = rung[q] /\ climbs'[q] = climbs[q]
    BY <1>1 DEF IInv, TypeOK
  <2> QED
    BY <1>1, <2>1 DEF Traced, IsShadow
<1> QED
  BY <1>5, <1>6

\* What forward and the end of a stream put into a record is not the route.
LEMMA RecordTraces ==
  ASSUME IInv, NEW r \in Requests, \A q \in Requests : Traced(q),
         UNCHANGED <<cfg, rung, climbs>>, pc[r] \in Routed, NEW l, pc' = [pc EXCEPT ![r] = l],
         NEW rec, record' = [record EXCEPT ![r] = rec],
         rec.effective = record[r].effective, rec.classified = record[r].classified
  PROVE  \A q \in Requests : Traced(q)'
<1>1. \A q \in Requests : /\ record'[q].effective = record[q].effective
                          /\ record'[q].classified = record[q].classified
  BY DEF IInv, TypeOK
<1> QED
  BY <1>1, OnwardTraces

LEMMA AnswersTrace ==
  ASSUME IInv, NEW r \in Requests, \A q \in Requests : Traced(q),
         ForwardAnswers(r) \/ ForwardStreams(r) \/ StreamEnds(r)
  PROVE  \A q \in Requests : Traced(q)'
<1>1. \E l : pc' = [pc EXCEPT ![r] = l]
  BY DEF ForwardAnswers, ForwardStreams, StreamEnds, Record, Goto
<1>2. record[r] \in RecordType /\ rung[r] = rung[r]
  BY DEF IInv, TypeOK
<1>3. CASE ForwardAnswers(r)
  <2>1. Returned(r) /\ pc[r] \in Routed
    BY <1>3 DEF ForwardAnswers, Returned, Routed
  <2>2. UNCHANGED <<cfg, rung, climbs>> /\ rung[r] \in Tier
    BY <2>1, ReturnedFits
  <2>3. PICK n \in Counts, i \in Sizes :
          record' = [record EXCEPT ![r] = [Served(r) EXCEPT !.input = i, !.output = n,
                                                            !.cost = Cost(rung[r], i, n)]]
    BY <1>3 DEF ForwardAnswers
  <2> DEFINE rec == [Served(r) EXCEPT !.input = i, !.output = n, !.cost = Cost(rung[r], i, n)]
  <2>4. rec.effective = record[r].effective /\ rec.classified = record[r].classified
    BY <1>2 DEF Served, RecordType
  <2> HIDE DEF rec
  <2>5. record' = [record EXCEPT ![r] = rec]
    BY <2>3 DEF rec
  <2> QED
    BY <1>1, <2>1, <2>2, <2>4, <2>5, RecordTraces
<1>4. CASE ForwardStreams(r)
  <2>1. Returned(r) /\ pc[r] \in Routed /\ record' = [record EXCEPT ![r] = Served(r)]
    BY <1>4 DEF ForwardStreams, Returned, Routed
  <2>2. UNCHANGED <<cfg, rung, climbs>>
    BY <2>1, ReturnedFits
  <2>3. /\ Served(r).effective = record[r].effective
        /\ Served(r).classified = record[r].classified
    BY <1>2 DEF Served, RecordType
  <2> QED
    BY <1>1, <2>1, <2>2, <2>3, RecordTraces
<1>5. CASE StreamEnds(r)
  <2> DEFINE cost == IF seen[r] = NoCount THEN NoCost
                     ELSE Cost(record[r].served, record[r].input, seen[r])
             rec == [record[r] EXCEPT !.output = seen[r], !.cost = cost]
  <2>1. /\ UNCHANGED <<cfg, rung, climbs>> /\ pc[r] \in Routed
        /\ record' = [record EXCEPT ![r] = rec]
    BY <1>5 DEF StreamEnds, Routed, ladder
  <2>2. rec.effective = record[r].effective /\ rec.classified = record[r].classified
    BY <1>2 DEF RecordType
  <2> HIDE DEF rec
  <2> QED
    BY <1>1, <2>1, <2>2, RecordTraces
<1> QED
  BY <1>3, <1>4, <1>5

\* Every step keeps the routes.
LEMMA NextTraced ==
  ASSUME IInv, \A q \in Requests : Traced(q), [Next]_vars
  PROVE  \A q \in Requests : Traced(q)'
<1>1. CASE UNCHANGED vars
  BY <1>1 DEF Traced, IsShadow, vars, ladder
<1>2. ASSUME NEW r \in Requests,
             \/ Receive(r) \/ Explore(r) \/ ForwardFails(r) \/ Relay(r)
             \/ StreamBreaks(r) \/ AppendLine(r) \/ WriteLine(r) \/ Disconnect(r)
      PROVE  \A q \in Requests : Traced(q)'
  <2>1. UNCHANGED <<cfg, record>>
    BY <1>2 DEF Receive, Explore, ForwardFails, Returned, Relay, TextChunk, UsageChunk,
       SplitUsage, RestOfUsage, OpenMessage, CloseMessage, Pass, StreamBreaks, AppendLine,
       WriteLine, Disconnect
  <2>2. UNCHANGED <<rung, climbs>>
    BY <1>2 DEF Receive, Explore, ForwardFails, Returned, Relay, TextChunk, UsageChunk,
       SplitUsage, RestOfUsage, OpenMessage, CloseMessage, Pass, StreamBreaks, AppendLine,
       WriteLine, Disconnect, L!Finish, ladder
  <2>3. \/ pc' = pc
        \/ \E l : pc' = [pc EXCEPT ![r] = l] /\ (l \in Routed => pc[r] \in Routed)
    BY <1>2 DEF Receive, Explore, ForwardFails, Returned, Relay, TextChunk, UsageChunk,
       SplitUsage, RestOfUsage, OpenMessage, CloseMessage, Pass, StreamBreaks, AppendLine,
       WriteLine, Disconnect, Goto, Routed
  <2>4. CASE pc' = pc
    BY <2>1, <2>2, <2>4, TraceFrame
  <2>5. CASE \E l : pc' = [pc EXCEPT ![r] = l] /\ (l \in Routed => pc[r] \in Routed)
    BY <2>1, <2>2, <2>5, OnwardTraces
  <2> QED
    BY <2>3, <2>4, <2>5
<1> QED
  BY <1>1, <1>2, ClassifyTraces, ClimbTraces, AnswersTrace DEF Next, Handle, Quiet

-----------------------------------------------------------------------------
\* The meter.  What is known of the sizes of request r, and of its record, until
\* the record is emitted.
Sized(r) ==
  /\ pc[r] \in {"explore", "classify"} => (metrics[r].ran <=> metrics[r].post > ask[r].size)
  /\ pc[r] \in {"forward"} \cup Streaming =>
       /\ record[r].input = record[r].post
       /\ record[r].explored <=> record[r].post > ask[r].size
       /\ record[r].stream = ask[r].stream
       /\ record[r].cost = NoCost

\* What is known of the count: what the meter has seen is what the upstream said,
\* unless the number has come only in part.
Counted(r) ==
  /\ pc[r] \in {"explore", "classify", "forward"} => ask[r].endpoint # "none"
  /\ pc[r] \in {"opening", "events", "closing"} => ask[r].endpoint = "messages"
  /\ pc[r] \in {"idle", "explore", "classify", "forward", "opening"} =>
       seen[r] = NoCount /\ said[r] = NoCount /\ cut[r] = NoCount
  /\ pc[r] = "relay" /\ cfg.enabled /\ cut[r] = NoCount => seen[r] = said[r]
  /\ pc[r] = "events" => said[r] = NoCount /\ (cfg.enabled => seen[r] = 0)
  /\ pc[r] = "closing" /\ cfg.enabled =>
       seen[r] = said[r] \/ (seen[r] = 0 /\ said[r] = NoCount)

MeterInv == MeteredExactly /\ \A r \in Requests : Sized(r) /\ Counted(r)

\* What MeteredExactly says of one record.
Exact(item) ==
  LET r == item.req
      rec == item.rec
  IN /\ rec.stream /\ cut[r] = NoCount =>
          \/ rec.output = said[r]
          \/ said[r] = NoCount /\ ask[r].endpoint = "messages" /\ rec.output = 0
     /\ rec.stream => rec.input = rec.post /\ (rec.explored <=> rec.post > ask[r].size)
     /\ rec.cost = IF rec.output = NoCount THEN NoCost
                   ELSE Cost(rec.served, rec.input, rec.output)

\* A record that was emitted belongs to a request that was served to its end.
LEMMA RecordOfTheServed ==
  ASSUME IInv, NEW i \in DOMAIN emitted
  PROVE  emitted[i].req \in Requests /\ pc[emitted[i].req] \in {"append", "done", "gone"}
<1>1. emitted[i].req \in Requests
  <2> DEFINE Items == [req: Requests, rec: RecordType]
  <2>1. emitted \in Seq(Items)
    BY DEF IInv, TypeOK
  <2>2. emitted[i] \in Items
    <3> HIDE DEF Items
    <3> QED
      BY <2>1
  <2> QED
    BY <2>2
<1>2. i \in RecordsOf(emitted[i].req)
  BY DEF RecordsOf
<1> QED
  BY <1>1, <1>2 DEF IInv, ReqInv

\* A step of a request whose record is not out yet changes no other's meter.
LEMMA MeterFrame ==
  ASSUME IInv, NEW r \in Requests, MeterInv, cfg' = cfg, emitted' = emitted,
         \/ pc[r] \notin {"append", "done", "gone"}
         \/ ask'[r] = ask[r] /\ cut'[r] = cut[r] /\ said'[r] = said[r],
         \A q \in Requests \ {r} :
           /\ pc'[q] = pc[q] /\ ask'[q] = ask[q] /\ metrics'[q] = metrics[q]
           /\ record'[q] = record[q] /\ seen'[q] = seen[q] /\ cut'[q] = cut[q]
           /\ said'[q] = said[q],
         Sized(r)', Counted(r)'
  PROVE  MeterInv'
<1>1. ASSUME NEW i \in DOMAIN emitted
      PROVE  Exact(emitted[i])'
  <2> DEFINE q == emitted[i].req
  <2>1. q \in Requests /\ pc[q] \in {"append", "done", "gone"}
    BY RecordOfTheServed
  <2>2. cut'[q] = cut[q] /\ said'[q] = said[q] /\ ask'[q] = ask[q]
    BY <2>1
  <2>3. Exact(emitted[i])
    BY DEF MeterInv, MeteredExactly, Exact
  <2> QED
    BY <2>2, <2>3 DEF Exact
<1>2. MeteredExactly'
  BY <1>1 DEF MeteredExactly, Exact
<1>3. ASSUME NEW q \in Requests \ {r}
      PROVE  Sized(q)' /\ Counted(q)'
  <2>1. Sized(q) /\ Counted(q)
    BY DEF MeterInv
  <2> QED
    BY <2>1 DEF Sized, Counted
<1> QED
  BY <1>2, <1>3 DEF MeterInv

\* A request that stands where nothing is metered any more.
LEMMA MeterEnds ==
  ASSUME IInv, NEW r \in Requests, MeterInv, UNCHANGED <<cfg, ask, metrics, record, meter, emitted>>,
         NEW l \in {"append", "done"} \cup Ended, pc' = [pc EXCEPT ![r] = l]
  PROVE  MeterInv'
<1>1. pc'[r] = l /\ \A q \in Requests \ {r} : pc'[q] = pc[q]
  BY DEF IInv, TypeOK
<1>2. Sized(r)' /\ Counted(r)'
  BY <1>1 DEF Sized, Counted, Streaming, Ended
<1> QED
  BY <1>1, <1>2, MeterFrame DEF meter

\* A record that is exact may be emitted.
LEMMA RecordMeters ==
  ASSUME IInv, NEW r \in Requests, MeterInv, NEW rec, record' = [record EXCEPT ![r] = rec],
         Record(r), UNCHANGED <<cfg, ask, metrics, meter>>,
         cfg.enabled => Exact([req |-> r, rec |-> rec])
  PROVE  MeterInv'
<1> DEFINE Item == [req |-> r, rec |-> rec]
<1>1. emitted' = IF cfg.enabled THEN Append(emitted, Item) ELSE emitted
  BY DEF Record, IInv, TypeOK
<1>2. /\ pc'[r] \in {"append", "done"} /\ record'[r] = rec
      /\ \A q \in Requests \ {r} : pc'[q] = pc[q] /\ record'[q] = record[q]
  BY DEF Record, IInv, TypeOK
<1>3. /\ Len(emitted) \in Nat /\ DOMAIN emitted = 1 .. Len(emitted)
      /\ DOMAIN Append(emitted, Item) = 1 .. Len(emitted) + 1
      /\ Append(emitted, Item)[Len(emitted) + 1] = Item
      /\ \A i \in 1 .. Len(emitted) : Append(emitted, Item)[i] = emitted[i]
  BY DEF IInv, TypeOK
<1>4. \A item : Exact(item)' <=> Exact(item)
  BY DEF Exact, meter
<1>5. \A i \in DOMAIN emitted : Exact(emitted[i])
  BY DEF MeterInv, MeteredExactly, Exact
<1> HIDE DEF Item
<1>6. ASSUME NEW i \in DOMAIN emitted'
      PROVE  Exact(emitted'[i])
  <2>1. \/ cfg.enabled /\ emitted'[i] = Item
        \/ i \in DOMAIN emitted /\ emitted'[i] = emitted[i]
    BY <1>1, <1>3
  <2>2. cfg.enabled => Exact(Item)
    BY DEF Item
  <2> QED
    BY <1>5, <2>1, <2>2
<1>7. MeteredExactly'
  <2>1. \A i \in DOMAIN emitted' : Exact(emitted[i])'
    BY <1>6 DEF Exact, meter
  <2> QED
    BY <2>1 DEF MeteredExactly, Exact
<1>8. ASSUME NEW q \in Requests
      PROVE  Sized(q)' /\ Counted(q)'
  <2>1. CASE q = r
    BY <1>2, <2>1 DEF Sized, Counted, Streaming
  <2>2. CASE q # r
    <3>1. Sized(q) /\ Counted(q)
      BY DEF MeterInv
    <3> QED
      BY <1>2, <2>2, <3>1 DEF Sized, Counted, meter
  <2> QED
    BY <2>1, <2>2
<1> QED
  BY <1>7, <1>8 DEF MeterInv

-----------------------------------------------------------------------------
\* The sizes of a request that arrives.
LEMMA ReceiveMeters ==
  ASSUME IInv, NEW r \in Requests, MeterInv, Receive(r)
  PROVE  MeterInv'
<1>1. PICK e \in {"chat", "messages"}, s \in BOOLEAN, n \in Sizes :
        /\ ask' = [ask EXCEPT ![r] = [endpoint |-> e, stream |-> s, size |-> n]]
        /\ metrics' = [metrics EXCEPT ![r] = [ran |-> FALSE, pre |-> n, post |-> n]]
  BY DEF Receive
<1>2. PICK l \in {"classify", "explore"} : pc' = [pc EXCEPT ![r] = l]
  BY DEF Receive, Goto
<1>3. UNCHANGED <<cfg, record, ladder, meter, log>> /\ pc[r] = "idle"
  BY DEF Receive
<1>4. TypeOK /\ Counted(r)
  BY DEF IInv, MeterInv
<1>5. /\ pc'[r] = l /\ ask'[r].endpoint = e /\ ask'[r].size = n
      /\ ~metrics'[r].ran /\ metrics'[r].post = n
  BY <1>1, <1>2, <1>4 DEF TypeOK
<1>6. ~(n > n)
  BY GatewayAssumption
<1>7. Sized(r)'
  BY <1>5, <1>6 DEF Sized, Streaming
<1>8. Counted(r)'
  BY <1>3, <1>4, <1>5 DEF Counted, meter
<1>9. \A q \in Requests \ {r} : pc'[q] = pc[q] /\ ask'[q] = ask[q] /\ metrics'[q] = metrics[q]
  BY <1>1, <1>2, <1>4 DEF TypeOK
<1> QED
  BY <1>3, <1>7, <1>8, <1>9, MeterFrame DEF meter, log

\* Evidence makes the request larger, and nothing else does.
LEMMA ExploreMeters ==
  ASSUME IInv, NEW r \in Requests, MeterInv, Explore(r)
  PROVE  MeterInv'
<1>1. UNCHANGED <<cfg, ask, record, ladder, meter, log>>
      /\ pc[r] = "explore" /\ pc' = [pc EXCEPT ![r] = "classify"]
  BY DEF Explore, Goto
<1>2. TypeOK /\ Counted(r) /\ Sized(r)
  BY DEF IInv, MeterInv
<1>3. metrics'[r].ran <=> metrics'[r].post > ask[r].size
  <2>1. CASE UNCHANGED metrics
    BY <1>1, <1>2, <2>1 DEF Sized
  <2>2. ASSUME NEW n \in Evidence,
               metrics' = [metrics EXCEPT ![r] =
                             [ran |-> TRUE, pre |-> ask[r].size, post |-> ask[r].size + n]]
        PROVE  metrics'[r].ran /\ metrics'[r].post > ask[r].size
    <3>1. ask[r].size \in Nat /\ n \in Nat /\ n # 0
      BY <1>2, GatewayAssumption DEF TypeOK
    <3>2. metrics'[r].ran /\ metrics'[r].post = ask[r].size + n
      BY <1>2, <2>2 DEF TypeOK
    <3> QED
      BY <3>1, <3>2
  <2> QED
    BY <2>1, <2>2 DEF Explore
<1>4. \A q \in Requests \ {r} : pc'[q] = pc[q] /\ metrics'[q] = metrics[q]
  BY <1>1, <1>2 DEF Explore, TypeOK
<1>5. pc'[r] = "classify"
  BY <1>1, <1>2 DEF TypeOK
<1>6. Sized(r)'
  BY <1>1, <1>3, <1>5 DEF Sized, Streaming
<1>7. Counted(r)'
  BY <1>1, <1>2, <1>5 DEF Counted, meter
<1> QED
  BY <1>1, <1>4, <1>6, <1>7, MeterFrame DEF meter, log

\* The record starts with the sizes, and without a price.
LEMMA ClassifyMeters ==
  ASSUME IInv, NEW r \in Requests, MeterInv, Classify(r)
  PROVE  MeterInv'
<1>1. PICK t \in Tier :
        record' = [record EXCEPT ![r] =
             [NoRecord EXCEPT !.classified = t, !.effective = EffectiveTier(t),
                              !.served = EffectiveTier(t), !.shadow = IsShadow,
                              !.stream = ask[r].stream, !.input = metrics[r].post,
                              !.explored = metrics[r].ran, !.pre = metrics[r].pre,
                              !.post = metrics[r].post]]
  BY DEF Classify
<1>2. UNCHANGED <<cfg, ask, metrics, meter, log>>
      /\ pc[r] = "classify" /\ pc' = [pc EXCEPT ![r] = "forward"]
  BY DEF Classify, Goto
<1>3. TypeOK /\ Counted(r) /\ Sized(r)
  BY DEF IInv, MeterInv
<1>4. /\ record'[r].input = metrics[r].post /\ record'[r].post = metrics[r].post
      /\ record'[r].explored = metrics[r].ran /\ record'[r].stream = ask[r].stream
      /\ record'[r].cost = NoCost
  BY <1>1, <1>3 DEF TypeOK, NoRecord
<1>5. pc'[r] = "forward" /\ \A q \in Requests \ {r} : pc'[q] = pc[q] /\ record'[q] = record[q]
  BY <1>1, <1>2, <1>3 DEF TypeOK
<1>6. metrics[r].ran <=> metrics[r].post > ask[r].size
  BY <1>2, <1>3 DEF Sized
<1>7. Sized(r)'
  BY <1>2, <1>4, <1>5, <1>6 DEF Sized
<1>8. Counted(r)'
  BY <1>2, <1>3, <1>5 DEF Counted, meter
<1> QED
  BY <1>2, <1>5, <1>7, <1>8, MeterFrame DEF meter, log

\* What forward leaves in a record is neither a size nor a price.
LEMMA ServedSized ==
  ASSUME NEW r \in Requests, record[r] \in RecordType
  PROVE  /\ Served(r).input = record[r].input /\ Served(r).post = record[r].post
         /\ Served(r).explored = record[r].explored /\ Served(r).stream = record[r].stream
         /\ Served(r).cost = record[r].cost /\ Served(r).served = rung[r]
BY DEF Served, RecordType

\* A stream starts with nothing counted.
LEMMA StreamsMeter ==
  ASSUME IInv, NEW r \in Requests, MeterInv, ForwardStreams(r)
  PROVE  MeterInv'
<1>1. /\ Returned(r) /\ record' = [record EXCEPT ![r] = Served(r)]
      /\ pc' = [pc EXCEPT ![r] = IF ask[r].endpoint = "chat" THEN "relay" ELSE "opening"]
      /\ UNCHANGED <<ask, metrics, meter, log>>
  BY DEF ForwardStreams, Goto
<1>2. cfg' = cfg /\ pc[r] = "forward"
  BY <1>1 DEF Returned
<1>3. TypeOK /\ Counted(r) /\ Sized(r)
  BY DEF IInv, MeterInv
<1>4. \/ pc'[r] = "relay"
      \/ pc'[r] = "opening" /\ ask[r].endpoint = "messages"
  <2>1. ask[r].endpoint \in {"none", "chat", "messages"} /\ ask[r].endpoint # "none"
    BY <1>2, <1>3 DEF TypeOK, Counted
  <2>2. pc'[r] = IF ask[r].endpoint = "chat" THEN "relay" ELSE "opening"
    BY <1>1, <1>3 DEF TypeOK
  <2> QED
    BY <2>1, <2>2
<1>5. \A q \in Requests \ {r} : pc'[q] = pc[q] /\ record'[q] = record[q]
  BY <1>1, <1>3 DEF TypeOK
<1>6. Sized(r)'
  <2>1. record'[r] = Served(r) /\ record[r] \in RecordType
    BY <1>1, <1>3 DEF TypeOK
  <2>2. /\ record'[r].input = record[r].input /\ record'[r].post = record[r].post
        /\ record'[r].explored = record[r].explored /\ record'[r].stream = record[r].stream
        /\ record'[r].cost = record[r].cost
    BY <2>1, ServedSized
  <2> QED
    BY <1>1, <1>2, <1>3, <1>4, <2>2 DEF Sized
<1>7. Counted(r)'
  BY <1>1, <1>2, <1>3, <1>4 DEF Counted, meter
<1> QED
  BY <1>1, <1>2, <1>5, <1>6, <1>7, MeterFrame DEF meter, log

\* A completed answer is priced by its own tokens, at the tier that gave it.
LEMMA AnswersMeter ==
  ASSUME IInv, NEW r \in Requests, MeterInv, ForwardAnswers(r)
  PROVE  MeterInv'
<1>1. /\ Returned(r) /\ Record(r) /\ UNCHANGED <<ask, metrics, meter>> /\ ~ask[r].stream
      /\ cfg' = cfg /\ pc[r] = "forward"
  BY DEF ForwardAnswers, Returned
<1>2. PICK n \in Counts, i \in Sizes :
        record' = [record EXCEPT ![r] = [Served(r) EXCEPT !.input = i, !.output = n,
                                                          !.cost = Cost(rung[r], i, n)]]
  BY DEF ForwardAnswers
<1> DEFINE rec == [Served(r) EXCEPT !.input = i, !.output = n, !.cost = Cost(rung[r], i, n)]
<1>3. Served(r) \in RecordType /\ record[r] \in RecordType /\ record[r].stream = ask[r].stream
  BY <1>1, ReturnedFits DEF IInv, TypeOK, MeterInv, Sized
<1>4. Served(r).stream = ask[r].stream /\ Served(r).served = rung[r]
  BY <1>3, ServedSized
<1>5. /\ ~rec.stream /\ rec.served = rung[r] /\ rec.input = i /\ rec.output = n
      /\ rec.cost = Cost(rung[r], i, n)
  <2> HIDE DEF rec
  <2>1. rec = [Served(r) EXCEPT !.input = i, !.output = n, !.cost = Cost(rung[r], i, n)]
    BY DEF rec
  <2> QED
    BY <1>1, <1>3, <1>4, <2>1 DEF RecordType
<1>6. n # NoCount
  BY GatewayAssumption DEF NoCount
<1>7. record' = [record EXCEPT ![r] = rec]
  BY <1>2
<1> HIDE DEF rec
<1>8. Exact([req |-> r, rec |-> rec])
  BY <1>5, <1>6 DEF Exact
<1> QED
  BY <1>1, <1>7, <1>8, RecordMeters

\* A stream that ends is recorded with what was seen, and priced if that is a count.
LEMMA EndMeters ==
  ASSUME IInv, NEW r \in Requests, MeterInv, StreamEnds(r)
  PROVE  MeterInv'
<1> DEFINE cost == IF seen[r] = NoCount THEN NoCost
                   ELSE Cost(record[r].served, record[r].input, seen[r])
           rec == [record[r] EXCEPT !.output = seen[r], !.cost = cost]
<1>1. /\ pc[r] \in {"relay", "closing"} /\ record' = [record EXCEPT ![r] = rec] /\ Record(r)
      /\ UNCHANGED <<cfg, ask, metrics, ladder, meter>>
  BY DEF StreamEnds
<1>2. record[r] \in RecordType /\ Sized(r) /\ Counted(r)
  BY DEF IInv, TypeOK, MeterInv
<1>3. /\ seen[r] = NoCount => cost = NoCost
      /\ seen[r] # NoCount => cost = Cost(record[r].served, record[r].input, seen[r])
  OBVIOUS
<1>4. rec = [record[r] EXCEPT !.output = seen[r], !.cost = cost]
  OBVIOUS
<1> HIDE DEF cost, rec
<1>5. /\ rec.output = seen[r] /\ rec.cost = cost
      /\ rec.served = record[r].served /\ rec.input = record[r].input
      /\ rec.post = record[r].post /\ rec.explored = record[r].explored
  BY <1>2, <1>4 DEF RecordType
<1>6. rec.input = rec.post /\ (rec.explored <=> rec.post > ask[r].size)
  BY <1>1, <1>2, <1>5 DEF Sized, Streaming
<1>7. ASSUME cfg.enabled
      PROVE  cut[r] = NoCount =>
               \/ rec.output = said[r]
               \/ said[r] = NoCount /\ ask[r].endpoint = "messages" /\ rec.output = 0
  BY <1>1, <1>2, <1>5, <1>7 DEF Counted
<1>8. /\ rec.output = NoCount => rec.cost = NoCost
      /\ rec.output # NoCount => rec.cost = Cost(rec.served, rec.input, rec.output)
  BY <1>3, <1>5
<1>9. cfg.enabled => Exact([req |-> r, rec |-> rec])
  BY <1>6, <1>7, <1>8 DEF Exact
<1> QED
  BY <1>1, <1>9, RecordMeters

\* A chunk that passes: the meter of its request has to be right after it, and the
\* rest is as it was.
LEMMA PassMeters ==
  ASSUME IInv, NEW r \in Requests, MeterInv, NEW from \in Streaming, NEW to \in Streaming,
         NEW n, Pass(r, from, n), pc' = [pc EXCEPT ![r] = to],
         \A q \in Requests \ {r} : cut'[q] = cut[q] /\ said'[q] = said[q],
         Counted(r)'
  PROVE  MeterInv'
<1>1. /\ pc[r] \in Streaming /\ UNCHANGED <<cfg, ask, metrics, record, ladder, log>>
      /\ seen' \in {seen, [seen EXCEPT ![r] = n]}
  BY DEF Pass
<1>2. TypeOK /\ Sized(r)
  BY DEF IInv, MeterInv
<1>3. pc'[r] = to /\ \A q \in Requests \ {r} : pc'[q] = pc[q] /\ seen'[q] = seen[q]
  BY <1>1, <1>2 DEF TypeOK
<1>4. Sized(r)'
  BY <1>1, <1>2, <1>3 DEF Sized, Streaming
<1> QED
  BY <1>1, <1>3, <1>4, MeterFrame DEF Streaming, log

\* What a chunk leaves in the meter.
LEMMA Seen ==
  ASSUME IInv, NEW r \in Requests, NEW from, NEW n, Pass(r, from, n)
  PROVE  /\ cfg.enabled /\ n # NoCount => seen'[r] = n
         /\ n = NoCount => seen' = seen
         /\ pc[r] = from /\ UNCHANGED <<cfg, ask>>
BY DEF Pass, IInv, TypeOK

\* The count a relayed stream carries, whole or in parts.
LEMMA RelayedMeters ==
  ASSUME IInv, NEW r \in Requests, MeterInv,
         TextChunk(r) \/ UsageChunk(r) \/ SplitUsage(r) \/ RestOfUsage(r)
  PROVE  MeterInv'
<1>1. TypeOK /\ Counted(r)
  BY DEF IInv, MeterInv
<1>2. pc' = pc /\ pc = [pc EXCEPT ![r] = pc[r]]
  BY <1>1 DEF TextChunk, UsageChunk, SplitUsage, RestOfUsage, TypeOK
<1>3. NoCount \notin Counts
  BY GatewayAssumption DEF NoCount
<1>4. CASE TextChunk(r)
  <2>1. PICK from \in {"relay", "events"} : Pass(r, from, NoCount)
    BY <1>4 DEF TextChunk
  <2>2. UNCHANGED <<cut, said>>
    BY <1>4 DEF TextChunk
  <2>3. Counted(r)'
    BY <1>1, <1>2, <2>1, <2>2, Seen DEF Counted
  <2> QED
    BY <1>2, <2>1, <2>2, <2>3, PassMeters DEF Streaming, Pass
<1>5. CASE UsageChunk(r)
  <2>1. PICK n \in Counts : Pass(r, "relay", n) /\ said' = [said EXCEPT ![r] = n] /\ cut' = cut
    BY <1>5 DEF UsageChunk
  <2>2. said'[r] = n /\ \A q \in Requests \ {r} : said'[q] = said[q]
    BY <1>1, <2>1 DEF TypeOK
  <2>3. pc[r] = "relay" /\ (cfg.enabled => seen'[r] = n) /\ UNCHANGED <<cfg, ask>>
    BY <1>3, <2>1, Seen
  <2>4. Counted(r)'
    BY <1>2, <2>2, <2>3 DEF Counted
  <2> QED
    BY <1>2, <2>1, <2>2, <2>3, <2>4, PassMeters DEF Streaming
<1>6. CASE SplitUsage(r)
  <2>1. PICK n \in Counts : /\ Pass(r, "relay", NoCount) \/ Pass(r, "relay", n \div 10)
                            /\ cut' = [cut EXCEPT ![r] = n] /\ said' = said
    BY <1>6 DEF SplitUsage
  <2>2. cut'[r] = n /\ \A q \in Requests \ {r} : cut'[q] = cut[q]
    BY <1>1, <2>1 DEF TypeOK
  <2>3. pc[r] = "relay"
    BY <2>1 DEF Pass
  <2>4. Counted(r)'
    BY <1>2, <1>3, <2>2, <2>3 DEF Counted
  <2> QED
    BY <1>2, <2>1, <2>2, <2>3, <2>4, PassMeters DEF Streaming
<1>7. CASE RestOfUsage(r)
  <2>1. /\ cut[r] # NoCount /\ Pass(r, "relay", cut[r])
        /\ said' = [said EXCEPT ![r] = cut[r]] /\ cut' = [cut EXCEPT ![r] = NoCount]
    BY <1>7 DEF RestOfUsage
  <2>2. /\ said'[r] = cut[r]
        /\ \A q \in Requests \ {r} : said'[q] = said[q] /\ cut'[q] = cut[q]
    BY <1>1, <2>1 DEF TypeOK
  <2>3. pc[r] = "relay" /\ (cfg.enabled => seen'[r] = cut[r]) /\ UNCHANGED <<cfg, ask>>
    BY <2>1, Seen
  <2>4. Counted(r)'
    BY <1>2, <2>2, <2>3 DEF Counted
  <2> QED
    BY <1>2, <2>1, <2>2, <2>3, <2>4, PassMeters DEF Streaming
<1> QED
  BY <1>4, <1>5, <1>6, <1>7

\* The count a translated stream carries at both its ends.
LEMMA EventsMeter ==
  ASSUME IInv, NEW r \in Requests, MeterInv, OpenMessage(r) \/ CloseMessage(r)
  PROVE  MeterInv'
<1>1. TypeOK /\ Counted(r)
  BY DEF IInv, MeterInv
<1>2. NoCount \notin Counts /\ 0 # NoCount
  BY GatewayAssumption DEF NoCount
<1>3. CASE OpenMessage(r)
  <2>1. Pass(r, "opening", 0) /\ pc' = [pc EXCEPT ![r] = "events"] /\ UNCHANGED <<cut, said>>
    BY <1>3 DEF OpenMessage, Goto
  <2>2. pc[r] = "opening" /\ (cfg.enabled => seen'[r] = 0) /\ UNCHANGED <<cfg, ask>>
    BY <1>2, <2>1, Seen
  <2>3. pc'[r] = "events"
    BY <1>1, <2>1 DEF TypeOK
  <2>4. Counted(r)'
    BY <1>1, <2>1, <2>2, <2>3 DEF Counted
  <2> QED
    BY <2>1, <2>4, PassMeters DEF Streaming
<1>4. CASE CloseMessage(r)
  <2>1. /\ pc' = [pc EXCEPT ![r] = "closing"] /\ UNCHANGED cut
        /\ \/ \E n \in Counts : Pass(r, "events", n) /\ said' = [said EXCEPT ![r] = n]
           \/ Pass(r, "events", 0) /\ UNCHANGED said
    BY <1>4 DEF CloseMessage, Goto
  <2>2. pc'[r] = "closing"
    BY <1>1, <2>1 DEF TypeOK
  <2>3. ASSUME NEW n \in Counts, Pass(r, "events", n), said' = [said EXCEPT ![r] = n]
        PROVE  MeterInv'
    <3>1. said'[r] = n /\ \A q \in Requests \ {r} : said'[q] = said[q]
      BY <1>1, <2>3 DEF TypeOK
    <3>2. pc[r] = "events" /\ (cfg.enabled => seen'[r] = n) /\ UNCHANGED <<cfg, ask>>
      BY <1>2, <2>3, Seen
    <3>3. Counted(r)'
      BY <1>1, <2>2, <3>1, <3>2 DEF Counted
    <3> QED
      BY <2>1, <2>3, <3>1, <3>3, PassMeters DEF Streaming
  <2>4. ASSUME Pass(r, "events", 0), UNCHANGED said
        PROVE  MeterInv'
    <3>1. pc[r] = "events" /\ (cfg.enabled => seen'[r] = 0) /\ UNCHANGED <<cfg, ask>>
      BY <1>2, <2>4, Seen
    <3>2. Counted(r)'
      BY <1>1, <2>2, <2>4, <3>1 DEF Counted
    <3> QED
      BY <2>1, <2>4, <3>2, PassMeters DEF Streaming
  <2> QED
    BY <2>1, <2>3, <2>4
<1> QED
  BY <1>3, <1>4

\* Every step keeps the meter.
LEMMA NextMeters == IInv /\ MeterInv /\ [Next]_vars => MeterInv'
<1> SUFFICES ASSUME IInv, MeterInv, [Next]_vars PROVE MeterInv'
  OBVIOUS
<1>1. CASE UNCHANGED vars
  BY <1>1 DEF MeterInv, MeteredExactly, Sized, Counted, vars, meter, log
<1>2. ASSUME NEW r \in Requests, Climb(r) \/ WriteLine(r)
      PROVE  MeterInv'
  <2>1. UNCHANGED <<cfg, pc, ask, metrics, record, meter, emitted>>
    BY <1>2 DEF Climb, WriteLine, log
  <2> QED
    BY <2>1 DEF MeterInv, MeteredExactly, Sized, Counted, meter
<1>3. ASSUME NEW r \in Requests,
             ForwardFails(r) \/ StreamBreaks(r) \/ AppendLine(r) \/ Disconnect(r)
      PROVE  MeterInv'
  <2>1. /\ UNCHANGED <<cfg, ask, metrics, record, meter, emitted>>
        /\ \E l \in {"append", "done"} \cup Ended : pc' = [pc EXCEPT ![r] = l]
    BY <1>3 DEF ForwardFails, Returned, StreamBreaks, AppendLine, Disconnect, Goto, Ended, log
  <2> QED
    BY <2>1, MeterEnds
<1>4. ASSUME NEW r \in Requests, Handle(r) \/ Relay(r)
      PROVE  MeterInv'
  BY <1>2, <1>3, <1>4, ExploreMeters, ClassifyMeters, AnswersMeter, StreamsMeter,
     RelayedMeters, EventsMeter DEF Handle, Relay
<1> QED
  BY <1>1, <1>2, <1>3, <1>4, ReceiveMeters, EndMeters DEF Next, Quiet

-----------------------------------------------------------------------------
\* The invariant holds in every reachable state.
THEOREM Invariance == Spec => []IInv
<1> QED
  BY InitInvariant, NextInvariant, PTL DEF Spec

\* Every variable of the handlers has its type, for any number of requests, any
\* sizes and any counts.
THEOREM TypeCorrect == Spec => []TypeOK
<1>1. IInv => TypeOK
  BY DEF IInv
<1> QED
  BY <1>1, Invariance, PTL

\* A request served to its end has its one record, no request has two, and with
\* telemetry off there is none.
THEOREM ServedIsRecorded == Spec => []RecordedWhenServed
<1>1. IInv => RecordedWhenServed
  BY DEF IInv, ReqInv, RecordedWhenServed
<1> QED
  BY <1>1, Invariance, PTL

\* The classified, effective and served tiers of every record, its escalations and
\* its premium flag agree, wherever shadow mode and escalation took the request; and
\* without telemetry nothing but escalation moves it.
THEOREM TiersFit == Spec => []TiersAddUp
<1>1. Init => \A r \in Requests : Traced(r)
  BY DEF Init, Traced, Routed
<1>2. IInv /\ (\A r \in Requests : Traced(r)) => TiersAddUp
  <2> SUFFICES ASSUME IInv, NEW r \in Requests, Traced(r),
                      pc[r] \in {"relay", "events", "append", "done"}
               PROVE  /\ IsShadow => Rank[rung[r]] >= Rank[cfg.shadowTier]
                      /\ ~cfg.enabled => Rank[rung[r]] = Rank[record[r].classified] + climbs[r]
    BY DEF IInv, TiersAddUp, ShadowIsTraced
  <2>1. /\ rung[r] \in Tier /\ record[r].effective \in Tier
        /\ Rank[rung[r]] = Rank[record[r].effective] + climbs[r]
        /\ IsShadow => record[r].effective = cfg.shadowTier
        /\ ~IsShadow => record[r].effective = record[r].classified
    BY DEF Traced, Routed
  <2>2. climbs[r] \in Nat /\ Rank[record[r].effective] \in Nat
    BY <2>1 DEF IInv, TypeOK, Rank, Tier
  <2> QED
    BY <2>1, <2>2 DEF IsShadow
<1> QED
  <2>1. IInv /\ (\A r \in Requests : Traced(r)) /\ [Next]_vars
          => (\A r \in Requests : Traced(r))'
    BY NextTraced
  <2> QED
    BY <1>1, <1>2, <2>1, Invariance, PTL DEF Spec

\* However the writes of any number of requests land, each line of the log is the
\* record of one request, and a record without a line met an error or is on its way.
THEOREM LogIsTrue == Spec => []LogIsComplete
<1>1. Init => \A r \in Requests : LogInv(r)
  BY DEF Init, LogInv, Written
<1>2. IInv /\ (\A r \in Requests : LogInv(r)) => LogIsComplete
  <2> SUFFICES ASSUME IInv, \A r \in Requests : LogInv(r)
               PROVE  LogIsComplete
    OBVIOUS
  <2>1. lines \in Seq(Requests)
    BY DEF IInv, TypeOK
  <2>2. ASSUME NEW i \in DOMAIN lines
        PROVE  /\ lines[i] \in Requests /\ RecordsOf(lines[i]) # {}
               /\ lines[i] \notin pending \cup unwritten
               /\ \A j \in DOMAIN lines : lines[i] = lines[j] => i = j
    <3>1. lines[i] \in Requests
      BY <2>1
    <3>2. LogInv(lines[i]) /\ ReqInv(lines[i])
      BY <3>1 DEF IInv
    <3>3. cfg.enabled /\ pc[lines[i]] = "done"
      BY <3>2 DEF LogInv, Written
    <3> QED
      BY <3>1, <3>2, <3>3 DEF LogInv, ReqInv
  <2>3. ASSUME NEW r \in Requests, cfg.enabled, cfg.log, pc[r] = "done"
        PROVE  r \in pending \cup unwritten \cup {lines[i] : i \in DOMAIN lines}
    BY <2>3 DEF LogInv, Written
  <2> QED
    BY <2>2, <2>3 DEF LogIsComplete
<1>3. IInv /\ (\A r \in Requests : LogInv(r)) /\ [Next]_vars => (\A r \in Requests : LogInv(r))'
  BY NextLogs
<1> QED
  BY <1>1, <1>2, <1>3, Invariance, PTL DEF Spec

\* The output of a recorded stream is the count the upstream reported last, its input
\* the size of what was forwarded, and its price follows from both at the tier that
\* served it: for any number of requests, any chunks and any counts.
THEOREM MeterIsExact == Spec => []MeteredExactly
<1>1. Init => MeterInv
  BY DEF Init, MeterInv, MeteredExactly, Sized, Counted, Streaming
<1>2. MeterInv => MeteredExactly
  BY DEF MeterInv
<1> QED
  BY <1>1, <1>2, NextMeters, Invariance, PTL DEF Spec

-----------------------------------------------------------------------------
\* The steps a request has left on the longest way of its handler and its body, the
\* chunks of a stream apart: each rung it may climb is one, the write of its line too.
StepsOf == [idle |-> 10, explore |-> 9, classify |-> 8, forward |-> 5, relay |-> 4,
            opening |-> 4, events |-> 3, closing |-> 2, append |-> 1,
            done |-> 0, failed |-> 0, gone |-> 0]

RungsLeft(r) == IF pc[r] = "forward" THEN 2 - Rank[rung[r]] ELSE 0
InFlight(r) == IF r \in pending THEN 1 ELSE 0
Work(r) == 2 * (StepsOf[pc[r]] + RungsLeft(r)) + InFlight(r)

Advances(r) == Work(r)' < Work(r) /\ \A q \in Requests \ {r} : Work(q)' = Work(q)
Passes(r) == chunks'[r] = chunks[r] + 1 /\ UNCHANGED <<pc, rung, pending>>

\* A request that goes on and on is one whose upstream does: every step passes a
\* chunk on or brings one request nearer to its end, and it leaves the others alone.
OnlyStreamsGoOn == [][\E r \in Requests : Advances(r) \/ Passes(r)]_vars
StepsLeft == \A r \in Requests : Work(r) \in 0 .. 21

\* What the measure is made of are numbers.
LEMMA WorkNat ==
  ASSUME IInv, NEW r \in Requests
  PROVE  /\ pc[r] \in DOMAIN StepsOf /\ StepsOf[pc[r]] \in Nat
         /\ RungsLeft(r) \in 0 .. 2 /\ InFlight(r) \in 0 .. 1
<1>1. pc[r] \in DOMAIN StepsOf
  BY DEF IInv, TypeOK, Steps, Ended, StepsOf
<1>2. StepsOf[pc[r]] \in Nat
  BY <1>1 DEF StepsOf
<1>3. RungsLeft(r) \in 0 .. 2
  <2>1. CASE pc[r] = "forward"
    <3>1. rung[r] \in Tier
      BY <2>1 DEF IInv, ReqInv
    <3>2. Rank[rung[r]] \in 0 .. 2
      BY <3>1 DEF Tier, Rank
    <3> QED
      BY <2>1, <3>2 DEF RungsLeft
  <2>2. CASE pc[r] # "forward"
    BY <2>2 DEF RungsLeft
  <2> QED
    BY <2>1, <2>2
<1> QED
  BY <1>1, <1>2, <1>3 DEF InFlight

\* The others stay where they are.
LEMMA OthersStay ==
  ASSUME NEW r \in Requests,
         \A q \in Requests \ {r} :
           pc'[q] = pc[q] /\ rung'[q] = rung[q] /\ (q \in pending' <=> q \in pending)
  PROVE  \A q \in Requests \ {r} : Work(q)' = Work(q)
BY DEF Work, RungsLeft, InFlight

\* A request goes on to l.
LEMMA MoveAdvances ==
  ASSUME IInv, IInv', NEW r \in Requests, NEW l \in DOMAIN StepsOf,
         pc' = [pc EXCEPT ![r] = l], pending' = pending,
         \A q \in Requests \ {r} : rung'[q] = rung[q],
         StepsOf[l] < StepsOf[pc[r]], l = "forward" => pc[r] = "classify"
  PROVE  Advances(r)
<1>1. pc'[r] = l /\ \A q \in Requests \ {r} : pc'[q] = pc[q]
  BY DEF IInv, TypeOK
<1>2. \A q \in Requests \ {r} : Work(q)' = Work(q)
  BY <1>1, OthersStay
<1>3. /\ StepsOf[pc[r]] \in Nat /\ RungsLeft(r) \in 0 .. 2 /\ InFlight(r) \in 0 .. 1
      /\ RungsLeft(r)' \in 0 .. 2 /\ StepsOf[l] \in Nat
  <2>1. RungsLeft(r)' \in 0 .. 2
    <3>1. CASE pc'[r] = "forward"
      <4>1. rung'[r] \in Tier
        BY <3>1 DEF IInv, ReqInv
      <4>2. Rank[rung'[r]] \in 0 .. 2
        BY <4>1 DEF Tier, Rank
      <4> QED
        BY <3>1, <4>2 DEF RungsLeft
    <3>2. CASE pc'[r] # "forward"
      BY <3>2 DEF RungsLeft
    <3> QED
      BY <3>1, <3>2
  <2>2. StepsOf[l] \in Nat
    BY DEF StepsOf
  <2> QED
    BY <2>1, <2>2, WorkNat
<1>4. InFlight(r)' = InFlight(r)
  BY DEF InFlight
<1>5. Work(r)' = 2 * (StepsOf[l] + RungsLeft(r)') + InFlight(r)
  BY <1>1, <1>4 DEF Work
<1>6. StepsOf[l] + RungsLeft(r)' < StepsOf[pc[r]] + RungsLeft(r)
  <2>1. CASE l = "forward"
    <3>1. StepsOf[l] = 5 /\ StepsOf[pc[r]] = 8
      BY <2>1 DEF StepsOf
    <3> QED
      BY <1>3, <3>1
  <2>2. CASE l # "forward"
    <3>1. RungsLeft(r)' = 0
      BY <1>1, <2>2 DEF RungsLeft
    <3> QED
      BY <1>3, <3>1
  <2> QED
    BY <2>1, <2>2
<1>7. Work(r) = 2 * (StepsOf[pc[r]] + RungsLeft(r)) + InFlight(r)
  BY DEF Work
<1> HIDE DEF Work, StepsOf
<1>8. Work(r)' < Work(r)
  BY <1>3, <1>5, <1>6, <1>7
<1> QED
  BY <1>2, <1>8 DEF Advances

\* A climb leaves one rung less.
LEMMA ClimbAdvances ==
  ASSUME IInv, NEW r \in Requests, Climb(r)
  PROVE  Advances(r)
<1>1. /\ pc[r] = "forward" /\ rung[r] # "Complex" /\ UNCHANGED <<pc, pending>>
      /\ rung' = [rung EXCEPT ![r] = L!Escalate(rung[r])]
  BY DEF Climb, L!Climb, log
<1>2. rung[r] \in Tier
  BY <1>1 DEF IInv, ReqInv
<1> DEFINE next == L!Escalate(rung[r])
<1>3. next \in Tier /\ Rank[next] = Rank[rung[r]] + 1 /\ rung' = [rung EXCEPT ![r] = next]
  BY <1>1, <1>2, EscalateIsNext
<1> HIDE DEF next
<1>4. rung'[r] = next /\ \A q \in Requests \ {r} : rung'[q] = rung[q]
  BY <1>3 DEF IInv, TypeOK
<1>5. \A q \in Requests \ {r} : Work(q)' = Work(q)
  BY <1>1, <1>4, OthersStay
<1>6. Rank[rung[r]] \in Nat
  BY <1>2 DEF Tier, Rank
<1>7. RungsLeft(r) = 2 - Rank[rung[r]] /\ RungsLeft(r)' = 2 - (Rank[rung[r]] + 1)
  BY <1>1, <1>3, <1>4 DEF RungsLeft
<1>8. InFlight(r)' = InFlight(r)
  BY <1>1 DEF InFlight
<1>9. /\ Work(r)' = 2 * (StepsOf[pc[r]] + RungsLeft(r)') + InFlight(r)
      /\ Work(r) = 2 * (StepsOf[pc[r]] + RungsLeft(r)) + InFlight(r)
  BY <1>1, <1>8 DEF Work
<1>10. StepsOf[pc[r]] \in Nat /\ InFlight(r) \in Nat
  BY WorkNat
<1> HIDE DEF Work, StepsOf
<1>11. Work(r)' < Work(r)
  BY <1>6, <1>7, <1>9, <1>10
<1> QED
  BY <1>5, <1>11 DEF Advances

\* A step of a handler.
LEMMA HandleAdvances ==
  ASSUME IInv, IInv', NEW r \in Requests, Receive(r) \/ Handle(r)
  PROVE  Advances(r)
<1>1. ASSUME NEW l \in DOMAIN StepsOf, pc' = [pc EXCEPT ![r] = l], UNCHANGED <<rung, pending>>,
             StepsOf[l] < StepsOf[pc[r]], l # "forward"
      PROVE  Advances(r)
  BY <1>1, MoveAdvances
<1>2. CASE Receive(r)
  <2>1. /\ pc[r] = "idle" /\ UNCHANGED <<rung, pending>>
        /\ \E l \in {"classify", "explore"} : pc' = [pc EXCEPT ![r] = l]
    BY <1>2 DEF Receive, Goto, ladder, log
  <2>2. PICK l \in {"classify", "explore"} : pc' = [pc EXCEPT ![r] = l]
    BY <2>1
  <2>3. l \in DOMAIN StepsOf /\ StepsOf[l] < StepsOf[pc[r]]
    BY <2>1 DEF StepsOf
  <2> QED
    BY <1>1, <2>1, <2>2, <2>3
<1>3. CASE Explore(r)
  <2>1. /\ pc[r] = "explore" /\ UNCHANGED <<rung, pending>>
        /\ pc' = [pc EXCEPT ![r] = "classify"]
    BY <1>3 DEF Explore, Goto, ladder, log
  <2>2. "classify" \in DOMAIN StepsOf /\ StepsOf["classify"] < StepsOf[pc[r]]
    BY <2>1 DEF StepsOf
  <2> QED
    BY <1>1, <2>1, <2>2
<1>4. CASE Classify(r)
  <2>1. /\ pc[r] = "classify" /\ pending' = pending
        /\ pc' = [pc EXCEPT ![r] = "forward"] /\ L!Enter(r)
    BY <1>4 DEF Classify, Goto, log
  <2>2. \A q \in Requests \ {r} : rung'[q] = rung[q]
    BY <2>1 DEF L!Enter, IInv, TypeOK
  <2>3. "forward" \in DOMAIN StepsOf /\ StepsOf["forward"] < StepsOf[pc[r]]
    BY <2>1 DEF StepsOf
  <2> QED
    BY <2>1, <2>2, <2>3, MoveAdvances
<1>5. CASE Climb(r)
  BY <1>5, ClimbAdvances
<1>6. CASE ForwardFails(r) \/ ForwardAnswers(r) \/ ForwardStreams(r)
  <2>1. Returned(r)
    BY <1>6 DEF ForwardFails, ForwardAnswers, ForwardStreams
  <2>2. pc[r] = "forward" /\ rung' = rung
    BY <2>1 DEF Returned, L!Finish
  <2>3. /\ pending' = pending
        /\ \E l \in {"failed", "append", "done", "relay", "opening"} : pc' = [pc EXCEPT ![r] = l]
    BY <1>6 DEF ForwardFails, ForwardAnswers, ForwardStreams, Goto, Record, log
  <2>4. PICK l \in {"failed", "append", "done", "relay", "opening"} : pc' = [pc EXCEPT ![r] = l]
    BY <2>3
  <2>5. l \in DOMAIN StepsOf /\ StepsOf[l] < StepsOf[pc[r]]
    BY <2>2 DEF StepsOf
  <2> QED
    BY <1>1, <2>2, <2>3, <2>4, <2>5
<1> QED
  BY <1>2, <1>3, <1>4, <1>5, <1>6 DEF Handle

\* A step of a body, or a client that leaves.
LEMMA BodyAdvances ==
  ASSUME IInv, IInv', NEW r \in Requests,
         Relay(r) \/ StreamEnds(r) \/ StreamBreaks(r) \/ Disconnect(r)
  PROVE  Advances(r) \/ Passes(r)
<1>1. ASSUME NEW l \in DOMAIN StepsOf, pc' = [pc EXCEPT ![r] = l], UNCHANGED <<rung, pending>>,
             StepsOf[l] < StepsOf[pc[r]], l # "forward"
      PROVE  Advances(r)
  BY <1>1, MoveAdvances
<1>2. CASE TextChunk(r) \/ UsageChunk(r) \/ SplitUsage(r) \/ RestOfUsage(r)
  <2>1. pc' = pc
    BY <1>2 DEF TextChunk, UsageChunk, SplitUsage, RestOfUsage
  <2>2. \E from, n : Pass(r, from, n)
    BY <1>2 DEF TextChunk, UsageChunk, SplitUsage, RestOfUsage
  <2> QED
    BY <2>1, <2>2 DEF Passes, Pass, IInv, TypeOK, ladder, log
<1>3. CASE OpenMessage(r)
  <2>1. pc[r] = "opening" /\ pc' = [pc EXCEPT ![r] = "events"] /\ UNCHANGED <<rung, pending>>
    BY <1>3 DEF OpenMessage, Pass, Goto, ladder, log
  <2>2. "events" \in DOMAIN StepsOf /\ StepsOf["events"] < StepsOf[pc[r]]
    BY <2>1 DEF StepsOf
  <2> QED
    BY <1>1, <2>1, <2>2
<1>4. CASE CloseMessage(r)
  <2>1. pc[r] = "events" /\ pc' = [pc EXCEPT ![r] = "closing"] /\ UNCHANGED <<rung, pending>>
    BY <1>4 DEF CloseMessage, Pass, Goto, ladder, log
  <2>2. "closing" \in DOMAIN StepsOf /\ StepsOf["closing"] < StepsOf[pc[r]]
    BY <2>1 DEF StepsOf
  <2> QED
    BY <1>1, <2>1, <2>2
<1>5. CASE StreamEnds(r) \/ StreamBreaks(r)
  <2>1. /\ pc[r] \in {"relay", "closing"} /\ UNCHANGED <<rung, pending>>
        /\ \E l \in {"append", "done", "failed"} : pc' = [pc EXCEPT ![r] = l]
    BY <1>5 DEF StreamEnds, StreamBreaks, Record, Goto, ladder, log
  <2>2. PICK l \in {"append", "done", "failed"} : pc' = [pc EXCEPT ![r] = l]
    BY <2>1
  <2>3. l \in DOMAIN StepsOf /\ StepsOf[l] < StepsOf[pc[r]]
    BY <2>1 DEF StepsOf
  <2> QED
    BY <1>1, <2>1, <2>2, <2>3
<1>6. CASE Disconnect(r)
  <2>1. pc[r] \notin Ended \cup {"idle"} /\ pc' = [pc EXCEPT ![r] = "gone"] /\ pending' = pending
    BY <1>6 DEF Disconnect, Goto, log
  <2>2. rung' = rung
    BY <1>6 DEF Disconnect, L!Finish, ladder
  <2>3. "gone" \in DOMAIN StepsOf /\ StepsOf["gone"] < StepsOf[pc[r]]
    BY <2>1 DEF StepsOf, IInv, TypeOK, Steps, Ended
  <2> QED
    BY <1>1, <2>1, <2>2, <2>3
<1> QED
  BY <1>2, <1>3, <1>4, <1>5, <1>6 DEF Relay

\* A line is handed to its write, or the write ends.
LEMMA LineAdvances ==
  ASSUME IInv, NEW r \in Requests, AppendLine(r) \/ WriteLine(r)
  PROVE  Advances(r)
<1>1. rung' = rung /\ \A q \in Requests \ {r} : pc'[q] = pc[q] /\ (q \in pending' <=> q \in pending)
  BY DEF AppendLine, WriteLine, Goto, ladder, IInv, TypeOK
<1>2. \A q \in Requests \ {r} : Work(q)' = Work(q)
  BY <1>1, OthersStay
<1>3. CASE AppendLine(r)
  <2>1. pc[r] = "append" /\ pc'[r] = "done"
    BY <1>3 DEF AppendLine, Goto, IInv, TypeOK
  <2>2. RungsLeft(r) = 0 /\ RungsLeft(r)' = 0
    BY <2>1 DEF RungsLeft
  <2>3. StepsOf[pc[r]] = 1 /\ StepsOf[pc'[r]] = 0
    BY <2>1 DEF StepsOf
  <2>4. InFlight(r) \in 0 .. 1 /\ InFlight(r)' \in 0 .. 1
    BY DEF InFlight
  <2>5. Work(r) = 2 + InFlight(r) /\ Work(r)' = InFlight(r)'
    BY <2>2, <2>3, <2>4 DEF Work
  <2> QED
    BY <1>2, <2>4, <2>5 DEF Advances
<1>4. CASE WriteLine(r)
  <2>1. pc' = pc /\ r \in pending /\ r \notin pending'
    BY <1>4 DEF WriteLine
  <2>2. RungsLeft(r)' = RungsLeft(r)
    BY <1>1, <2>1 DEF RungsLeft
  <2>3. InFlight(r) = 1 /\ InFlight(r)' = 0
    BY <2>1 DEF InFlight
  <2> DEFINE n == 2 * (StepsOf[pc[r]] + RungsLeft(r))
  <2>4. n \in Int
    BY WorkNat
  <2>5. Work(r) = n + 1 /\ Work(r)' = n + 0
    BY <2>1, <2>2, <2>3 DEF Work
  <2> HIDE DEF n
  <2>6. Work(r)' < Work(r)
    BY <2>4, <2>5
  <2> QED
    BY <1>2, <2>6 DEF Advances
<1> QED
  BY <1>3, <1>4

\* Whatever fails and whoever leaves, a request takes a bounded number of steps apart
\* from the chunks of its stream, for any number of requests and any budget of climbs.
THEOREM StepsRunOut == Spec => OnlyStreamsGoOn /\ []StepsLeft
<1>1. IInv /\ IInv' /\ [Next]_vars => [\E r \in Requests : Advances(r) \/ Passes(r)]_vars
  <2> SUFFICES ASSUME IInv, IInv', Next
               PROVE  (\E r \in Requests : Advances(r) \/ Passes(r)) \/ UNCHANGED vars
    OBVIOUS
  <2> QED
    BY HandleAdvances, BodyAdvances, LineAdvances DEF Next, Quiet
<1>2. IInv => StepsLeft
  <2> SUFFICES ASSUME IInv, NEW r \in Requests PROVE Work(r) \in 0 .. 21
    BY DEF StepsLeft
  <2>1. /\ StepsOf[pc[r]] \in 0 .. 10
        /\ pc[r] = "forward" => StepsOf[pc[r]] = 5
    BY DEF IInv, TypeOK, StepsOf, Steps, Ended
  <2>2. RungsLeft(r) \in 0 .. 2 /\ (pc[r] # "forward" => RungsLeft(r) = 0)
    BY DEF IInv, ReqInv, RungsLeft, Rank, Tier
  <2>3. InFlight(r) \in 0 .. 1
    BY DEF InFlight
  <2> QED
    BY <2>1, <2>2, <2>3 DEF Work
<1> QED
  BY <1>1, <1>2, Invariance, PTL DEF Spec, OnlyStreamsGoOn
=============================================================================
