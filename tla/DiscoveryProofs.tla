-------------------------- MODULE DiscoveryProofs --------------------------
(***************************************************************************)
(* Proofs about Discovery: types and the discipline of the mutex, that the *)
(* answers agree, and that there is one catalogue.  The invariant follows  *)
(* an answer source by source: what it has been told is in the cache, and  *)
(* what its holder is asking for is not.  Last, that every step brings a   *)
(* request nearer to its answer and that the queue is first in, first out. *)
(***************************************************************************)
EXTENDS Discovery, SequenceTheorems, TLAPS

\* A queue without its head.
LEMMA TailFacts ==
  ASSUME NEW S, NEW s \in Seq(S), s # <<>>
  PROVE  /\ Tail(s) \in Seq(S) /\ Head(s) = s[1] /\ 1 \in DOMAIN s /\ Head(s) \in S
         /\ \A i \in DOMAIN Tail(s) : i + 1 \in DOMAIN s /\ Tail(s)[i] = s[i + 1]
BY HeadTailProperties

\* A queue without the one at place k: who is left keeps the order.
LEMMA RemoveAtFacts ==
  ASSUME NEW S, NEW s \in Seq(S), NEW k \in DOMAIN s
  PROVE  /\ RemoveAt(s, k) \in Seq(S)
         /\ \A i \in DOMAIN RemoveAt(s, k) :
              /\ i \in Nat /\ k \in Nat
              /\ i < k => i \in DOMAIN s /\ RemoveAt(s, k)[i] = s[i]
              /\ i >= k => i + 1 \in DOMAIN s /\ RemoveAt(s, k)[i] = s[i + 1]
<1> DEFINE front == SubSeq(s, 1, k - 1)
           back == SubSeq(s, k + 1, Len(s))
<1>1. k \in 1 .. Len(s) /\ Len(s) \in Nat
  OBVIOUS
<1>2. \A i \in 1 .. Len(s) : s[i] \in S
  OBVIOUS
<1>3. /\ front \in Seq(S) /\ Len(front) = k - 1
      /\ \A i \in 1 .. k - 1 : front[i] = s[i]
  <2>1. k - 1 \in Int /\ \A i \in 1 .. k - 1 : s[i] \in S
    BY <1>1, <1>2
  <2>2. /\ SubSeq(s, 1, k - 1) \in Seq(S)
        /\ Len(SubSeq(s, 1, k - 1)) = IF 1 <= k - 1 THEN k - 1 - 1 + 1 ELSE 0
        /\ \A i \in 1 .. k - 1 - 1 + 1 : SubSeq(s, 1, k - 1)[i] = s[1 + i - 1]
    BY <2>1, SubSeqProperties
  <2> HIDE DEF front, back
  <2>3. front = SubSeq(s, 1, k - 1)
    BY DEF front
  <2> QED
    BY <1>1, <2>2, <2>3
<1>4. /\ back \in Seq(S) /\ Len(back) = Len(s) - k
      /\ \A i \in 1 .. Len(s) - k : back[i] = s[k + i]
  <2>1. k + 1 \in Int /\ Len(s) \in Int /\ \A i \in k + 1 .. Len(s) : s[i] \in S
    BY <1>1, <1>2
  <2>2. /\ SubSeq(s, k + 1, Len(s)) \in Seq(S)
        /\ Len(SubSeq(s, k + 1, Len(s)))
             = IF k + 1 <= Len(s) THEN Len(s) - (k + 1) + 1 ELSE 0
        /\ \A i \in 1 .. Len(s) - (k + 1) + 1 : SubSeq(s, k + 1, Len(s))[i] = s[k + 1 + i - 1]
    BY <2>1, SubSeqProperties
  <2> HIDE DEF front, back
  <2>3. back = SubSeq(s, k + 1, Len(s))
    BY DEF back
  <2> QED
    BY <1>1, <2>2, <2>3
<1>5. RemoveAt(s, k) = front \o back
  BY DEF RemoveAt
<1> HIDE DEF front, back
<1>6. /\ front \o back \in Seq(S) /\ DOMAIN (front \o back) = 1 .. Len(s) - 1
      /\ \A i \in 1 .. Len(s) - 1 :
           (front \o back)[i] = IF i < k THEN front[i] ELSE back[i - (k - 1)]
  <2>1. /\ front \o back \in Seq(S) /\ Len(front \o back) = Len(front) + Len(back)
        /\ \A i \in 1 .. Len(front) + Len(back) :
             (front \o back)[i] = IF i <= Len(front) THEN front[i] ELSE back[i - Len(front)]
    BY <1>3, <1>4, ConcatProperties
  <2>2. Len(front) + Len(back) = Len(s) - 1
    BY <1>1, <1>3, <1>4
  <2>3. DOMAIN (front \o back) = 1 .. Len(s) - 1
    BY <2>1, <2>2
  <2>4. ASSUME NEW i \in 1 .. Len(s) - 1
        PROVE  (front \o back)[i] = IF i < k THEN front[i] ELSE back[i - (k - 1)]
    <3>1. i <= Len(front) <=> i < k
      BY <1>1, <1>3
    <3> QED
      BY <1>3, <2>1, <2>2, <3>1
  <2> QED
    BY <2>1, <2>3, <2>4
<1>7. ASSUME NEW i \in 1 .. Len(s) - 1
      PROVE  /\ i < k => i \in DOMAIN s /\ (front \o back)[i] = s[i]
             /\ i >= k => i + 1 \in DOMAIN s /\ (front \o back)[i] = s[i + 1]
  <2>1. CASE i < k
    BY <1>1, <1>3, <1>6, <2>1
  <2>2. CASE i >= k
    <3>1. i - (k - 1) \in 1 .. Len(s) - k /\ k + (i - (k - 1)) = i + 1
      BY <1>1, <2>2
    <3>2. (front \o back)[i] = back[i - (k - 1)]
      BY <1>1, <1>6, <2>2
    <3>3. back[i - (k - 1)] = s[i + 1]
      BY <1>4, <3>1
    <3>4. ~(i < k)
      BY <1>1, <2>2
    <3> QED
      BY <1>1, <2>2, <3>2, <3>3, <3>4
  <2>3. i < k \/ i >= k
    BY <1>1
  <2> QED
    BY <2>1, <2>2, <2>3
<1>8. ASSUME NEW i \in DOMAIN RemoveAt(s, k)
      PROVE  /\ i \in Nat /\ k \in Nat
             /\ i < k => i \in DOMAIN s /\ RemoveAt(s, k)[i] = s[i]
             /\ i >= k => i + 1 \in DOMAIN s /\ RemoveAt(s, k)[i] = s[i + 1]
  <2>1. i \in 1 .. Len(s) - 1
    BY <1>5, <1>6
  <2> QED
    BY <1>1, <1>5, <1>7, <2>1
<1> QED
  BY <1>5, <1>6, <1>8

-----------------------------------------------------------------------------
\* Nobody stands in the queue twice.
Distinct == \A i, j \in DOMAIN waiters : waiters[i] = waiters[j] => i = j

\* What is known of the answer of request r, source by source.
Known(r) ==
  /\ pc[r] \in {"claude", "settings", "anthropic", "cluster", "endpoint", "done"} =>
       cache["copilot"] # Nothing /\ models[r]["copilot"] = cache["copilot"]
  /\ pc[r] \in {"cluster", "endpoint", "done"} =>
       cache["claude"] # Nothing /\ models[r]["claude"] = cache["claude"]
  /\ pc[r] \in {"cluster", "endpoint"} => cfg.cluster
  /\ pc[r] # "done" => models[r]["cluster"] = Nothing
  /\ pc[r] = "done" => \/ models[r]["cluster"] \in StandIns
                       \/ models[r]["cluster"] = cache["cluster"]
  /\ pc[r] = "gh" => cache["copilot"] = Nothing
  /\ pc[r] \in {"settings", "anthropic"} => cache["claude"] = Nothing
  /\ pc[r] = "endpoint" => cache["cluster"] = Nothing

IInv ==
  /\ TypeOK /\ Distinct
  /\ ~cfg.cluster => cache["cluster"] = Nothing
  /\ \A r \in Requests : Known(r)

\* The initial states.
LEMMA InitInvariant == Init => IInv
<1> SUFFICES ASSUME Init PROVE IInv
  OBVIOUS
<1>1. TypeOK
  BY DiscoveryAssumption
     DEF Init, TypeOK, Unlisted, Lists, StandIns, Holding, Ended, Source, Querying, Remote
<1>2. Distinct /\ cache["cluster"] = Nothing /\ \A r \in Requests : Known(r)
  BY DEF Init, Distinct, Known, Unlisted, Source, Nothing
<1> QED
  BY <1>1, <1>2 DEF IInv

\* The holder moves: the mutex, the queue and everybody's place stay in order.
LEMMA GotoKeeps ==
  ASSUME TypeOK, Distinct, NEW r \in Requests, pc[r] \in Holding,
         NEW to \in Holding \cup Ended, Goto(r, to),
         cfg' = cfg, cache' \in [Source -> Lists \cup {Nothing}],
         models' \in [Requests -> [Source -> Lists \cup StandIns]]
  PROVE  /\ TypeOK' /\ Distinct' /\ pc'[r] = to
         /\ \A q \in Requests \ {r} :
              pc'[q] = pc[q] \/ (pc[q] = "wait" /\ pc'[q] = "copilot")
<1> USE DEF TypeOK
<1>1. holder = r /\ \A q \in Requests \ {r} : pc[q] \notin Holding
  BY DiscoveryAssumption
<1>2. "wait" \notin Holding /\ "copilot" \in Holding /\ "copilot" \notin Ended
      /\ Holding \cap Ended = {}
  BY DEF Holding, Source, Querying, Remote, Ended
<1>3. CASE to \in Holding
  <2>1. pc' = [pc EXCEPT ![r] = to] /\ UNCHANGED <<holder, waiters>>
    BY <1>3 DEF Goto
  <2>2. \A i \in DOMAIN waiters : waiters[i] # r
    BY <1>2
  <2> QED
    BY <1>1, <1>2, <1>3, <2>1, <2>2 DEF Distinct
<1>4. CASE to \notin Holding /\ waiters = <<>>
  <2>1. pc' = [pc EXCEPT ![r] = to] /\ holder' = NoRequest /\ waiters' = waiters
    BY <1>4 DEF Goto
  <2>2. \A q \in Requests : pc'[q] \notin Holding
    BY <1>1, <1>4, <2>1
  <2> QED
    BY <1>1, <1>4, <2>1, <2>2, DiscoveryAssumption DEF Distinct
<1>5. CASE to \notin Holding /\ waiters # <<>>
  <2> DEFINE h == Head(waiters)
  <2>1. /\ pc' = [pc EXCEPT ![r] = to, ![h] = "copilot"]
        /\ holder' = h /\ waiters' = Tail(waiters)
    BY <1>5 DEF Goto
  <2>2. /\ Tail(waiters) \in Seq(Requests) /\ h = waiters[1] /\ 1 \in DOMAIN waiters
        /\ h \in Requests
        /\ \A i \in DOMAIN Tail(waiters) : i + 1 \in DOMAIN waiters
                                           /\ Tail(waiters)[i] = waiters[i + 1]
    BY <1>5, TailFacts
  <2>3. pc[h] = "wait" /\ h # r
    BY <1>2, <2>2
  <2>4. \A i \in DOMAIN Tail(waiters) : Tail(waiters)[i] # h /\ Tail(waiters)[i] # r
    BY <1>2, <2>2 DEF Distinct
  <2> HIDE DEF h
  <2>5. /\ pc' \in [Requests -> Holding \cup Ended \cup {"idle", "wait", "probe"}]
        /\ pc'[r] = to /\ pc'[h] = "copilot"
        /\ \A q \in Requests \ {r, h} : pc'[q] = pc[q]
    BY <1>2, <2>1, <2>2, <2>3
  <2>6. \A q \in Requests : pc'[q] \in Holding <=> holder' = q
    BY <1>1, <1>2, <1>5, <2>1, <2>5
  <2>7. \A i \in DOMAIN waiters' : pc'[waiters'[i]] = "wait"
    <3>1. TAKE i \in DOMAIN waiters'
    <3>2. /\ i \in DOMAIN Tail(waiters) /\ waiters'[i] = Tail(waiters)[i]
          /\ waiters'[i] = waiters[i + 1] /\ i + 1 \in DOMAIN waiters
      BY <2>1, <2>2
    <3>3. waiters'[i] \in Requests \ {r, h}
      BY <2>2, <2>4, <3>2
    <3> QED
      BY <2>5, <3>2, <3>3
  <2>8. Distinct'
    BY <2>1, <2>2 DEF Distinct
  <2>9. holder' # NoRequest
    BY <2>1, <2>2, DiscoveryAssumption
  <2>10. TypeOK'
    BY <2>1, <2>2, <2>5, <2>6, <2>7, <2>9
  <2> QED
    BY <2>3, <2>5, <2>8, <2>10
<1> QED
  BY <1>3, <1>4, <1>5

\* Somebody else's answer: what it rests on stays in the cache.
LEMMA OthersKnow ==
  ASSUME NEW q \in Requests, Known(q), pc[q] \notin Holding, cfg' = cfg,
         pc'[q] = pc[q] \/ (pc[q] = "wait" /\ pc'[q] = "copilot"),
         models'[q] = models[q],
         \A s \in Source : cache'[s] = cache[s] \/ cache[s] = Nothing
  PROVE  Known(q)'
<1> USE DEF Known, Holding, Source, Querying, Remote
<1>1. CASE pc[q] = "done"
  BY <1>1, DiscoveryAssumption DEF StandIns
<1>2. CASE pc[q] # "done"
  BY <1>2
<1> QED
  BY <1>1, <1>2

\* A step of the holder keeps the invariant if it keeps what is known of its own.
LEMMA HolderFrame ==
  ASSUME IInv, NEW r \in Requests, pc[r] \in Holding, NEW to \in Holding \cup Ended,
         Goto(r, to), cfg' = cfg, cache' \in [Source -> Lists \cup {Nothing}],
         models' \in [Requests -> [Source -> Lists \cup StandIns]],
         \A q \in Requests \ {r} : models'[q] = models[q],
         \A s \in Source : cache'[s] = cache[s] \/ cache[s] = Nothing,
         ~cfg.cluster => cache'["cluster"] = Nothing,
         pc'[r] = to => Known(r)'
  PROVE  IInv'
<1>1. /\ TypeOK' /\ Distinct' /\ pc'[r] = to
      /\ \A q \in Requests \ {r} : pc'[q] = pc[q] \/ (pc[q] = "wait" /\ pc'[q] = "copilot")
  BY GotoKeeps DEF IInv
<1>2. ASSUME NEW q \in Requests \ {r}
      PROVE  Known(q)'
  <2>1. pc[q] \notin Holding /\ Known(q)
    BY DEF IInv, TypeOK
  <2> QED
    BY <1>1, <2>1, OthersKnow
<1> QED
  BY <1>1, <1>2 DEF IInv

-----------------------------------------------------------------------------
\* A request arrives at the mutex.
LEMMA LockKeeps ==
  ASSUME IInv, NEW r \in Requests, Lock(r)
  PROVE  IInv'
<1> USE DEF IInv
<1>1. pc[r] = "idle" /\ UNCHANGED <<cfg, cache, models>>
  BY DEF Lock
<1>2. \A q \in Requests : pc[q] \in Holding <=> holder = q
  BY DEF TypeOK
<1>3. \A i \in DOMAIN waiters : waiters[i] \in Requests \ {r}
  BY <1>1 DEF TypeOK
<1>4. \A to : pc' = [pc EXCEPT ![r] = to] => pc'[r] = to /\ \A q \in Requests \ {r} : pc'[q] = pc[q]
  BY DEF TypeOK
<1>5. CASE holder = NoRequest
  <2>1. holder' = r /\ pc' = [pc EXCEPT ![r] = "copilot"] /\ waiters' = waiters
    BY <1>5 DEF Lock
  <2>2. TypeOK'
    BY <1>1, <1>2, <1>4, <1>5, <2>1, DiscoveryAssumption DEF TypeOK, Holding, Source
  <2>3. Distinct' /\ Known(r)'
    BY <1>1, <1>4, <2>1 DEF Distinct, Known
  <2>4. \A q \in Requests \ {r} : Known(q)'
    BY <1>1, <1>4, <2>1 DEF Known
  <2> QED
    BY <1>1, <2>2, <2>3, <2>4
<1>6. CASE holder # NoRequest
  <2>1. holder' = holder /\ pc' = [pc EXCEPT ![r] = "wait"] /\ waiters' = Append(waiters, r)
    BY <1>6 DEF Lock
  <2>2. /\ waiters \in Seq(Requests) /\ waiters' \in Seq(Requests)
        /\ Len(waiters) \in Nat /\ DOMAIN waiters = 1 .. Len(waiters)
        /\ DOMAIN waiters' = 1 .. Len(waiters) + 1 /\ waiters'[Len(waiters) + 1] = r
        /\ \A i \in 1 .. Len(waiters) : waiters'[i] = waiters[i]
    BY <2>1 DEF TypeOK
  <2>3. Distinct'
    BY <1>3, <2>2 DEF Distinct
  <2>4. "wait" \notin Holding /\ pc[r] \notin Holding
    BY <1>1 DEF Holding, Source, Querying, Remote
  <2>5. \A i \in DOMAIN waiters' : pc'[waiters'[i]] = "wait"
    <3>1. TAKE i \in DOMAIN waiters'
    <3>2. CASE i = Len(waiters) + 1
      BY <1>4, <2>1, <2>2, <3>2
    <3>3. CASE i \in 1 .. Len(waiters)
      <4>1. waiters'[i] = waiters[i] /\ waiters[i] \in Requests \ {r} /\ pc[waiters[i]] = "wait"
        BY <1>3, <2>2, <3>3 DEF TypeOK
      <4> QED
        BY <1>4, <2>1, <4>1
    <3> QED
      BY <2>2, <3>2, <3>3
  <2>6. TypeOK'
    BY <1>1, <1>2, <1>4, <1>6, <2>1, <2>2, <2>4, <2>5 DEF TypeOK
  <2>7. Known(r)'
    BY <1>1, <1>4, <2>1 DEF Known
  <2>8. \A q \in Requests \ {r} : Known(q)'
    BY <1>1, <1>4, <2>1 DEF Known
  <2> QED
    BY <1>1, <2>3, <2>6, <2>7, <2>8
<1> QED
  BY <1>5, <1>6

\* The status probe keeps out of everybody's way.
LEMMA ProbeKeeps ==
  ASSUME IInv, NEW r \in Requests, Probe(r) \/ Health(r)
  PROVE  IInv'
<1> USE DEF IInv
<1>1. PICK to \in {"probe", "healthy"} :
        /\ pc[r] \in {"idle", "probe"} /\ pc' = [pc EXCEPT ![r] = to]
        /\ UNCHANGED <<cfg, cache, holder, waiters, models>>
  BY DEF Probe, Health
<1>2. pc'[r] = to /\ \A q \in Requests \ {r} : pc'[q] = pc[q]
  BY <1>1 DEF TypeOK
<1>3. pc[r] \notin Holding /\ to \notin Holding
  BY <1>1 DEF Holding, Source, Querying, Remote
<1>4. \A i \in DOMAIN waiters : waiters[i] \in Requests \ {r}
  BY <1>1 DEF TypeOK
<1>5. TypeOK'
  BY <1>1, <1>2, <1>3, <1>4 DEF TypeOK, Ended
<1>6. Known(r)'
  BY <1>1, <1>2 DEF Known
<1>7. \A q \in Requests \ {r} : Known(q)'
  BY <1>1, <1>2 DEF Known
<1> QED
  BY <1>1, <1>5, <1>6, <1>7 DEF Distinct

\* A source that is answered for: from the cache, or for the first time.
LEMMA TellKeeps ==
  ASSUME IInv, NEW r \in Requests, NEW s \in Source, NEW list \in Lists \cup StandIns,
         Tell(r, s, list),
         s = "copilot" => pc[r] \in {"copilot", "gh"},
         s = "claude" => pc[r] \in {"claude", "settings", "anthropic"},
         s = "cluster" => pc[r] \in {"cluster", "endpoint"},
         cache' \in [Source -> Lists \cup {Nothing}],
         \A t \in Source : cache'[t] = cache[t] \/ (t = s /\ cache[t] = Nothing),
         \/ list # Nothing /\ cache'[s] = list
         \/ s = "cluster" /\ list \in StandIns
  PROVE  IInv'
<1> USE DEF IInv
<1>1. cfg' = cfg /\ models' = [models EXCEPT ![r][s] = list] /\ Goto(r, After(s))
  BY DEF Tell
<1>2. /\ models' \in [Requests -> [Source -> Lists \cup StandIns]]
      /\ models'[r] = [models[r] EXCEPT ![s] = list] /\ models'[r][s] = list
      /\ \A t \in Source \ {s} : models'[r][t] = models[r][t]
      /\ \A q \in Requests \ {r} : models'[q] = models[q]
  <2> DEFINE Answers == [Source -> Lists \cup StandIns]
  <2>1. models \in [Requests -> Answers] /\ models[r] \in Answers
    BY DEF TypeOK
  <2>2. [models[r] EXCEPT ![s] = list] \in Answers
    BY <2>1
  <2>3. models' = [models EXCEPT ![r] = [models[r] EXCEPT ![s] = list]]
    BY <1>1
  <2>4. models' \in [Requests -> Answers]
    <3> HIDE DEF Answers
    <3> QED
      BY <2>1, <2>2, <2>3
  <2> QED
    BY <2>1, <2>3, <2>4
<1>3. pc[r] \in Holding /\ Known(r)
  BY DEF Holding, Source, Querying, Remote
<1>4. /\ s = "copilot" => After(s) = "claude"
      /\ s = "claude" => After(s) = IF cfg.cluster THEN "cluster" ELSE "done"
      /\ s = "cluster" => After(s) = "done"
  BY DEF After
<1>5. After(s) \in Holding \cup Ended
  BY <1>4 DEF Holding, Source, Ended
<1>6. ~cfg.cluster => s # "cluster"
  BY <1>3 DEF Known
<1>7. ~cfg.cluster => cache'["cluster"] = Nothing
  BY <1>6 DEF Source
<1>8. ASSUME pc'[r] = After(s)
      PROVE  Known(r)'
  <2>1. CASE s = "copilot"
    BY <1>1, <1>2, <1>3, <1>4, <1>8, <2>1 DEF Known, Source, StandIns, Nothing, Default, Omitted
  <2>2. CASE s = "claude"
    <3>1. /\ cache["copilot"] # Nothing /\ models[r]["copilot"] = cache["copilot"]
          /\ models[r]["cluster"] = Nothing \/ pc[r] = "done"
      BY <1>3, <2>2 DEF Known
    <3>2. cache'["copilot"] = cache["copilot"] /\ models'[r]["copilot"] = models[r]["copilot"]
          /\ models'[r]["cluster"] = models[r]["cluster"]
      BY <1>2, <2>2 DEF Source
    <3>3. cache'["claude"] # Nothing /\ models'[r]["claude"] = cache'["claude"]
      BY <1>2, <2>2
    <3>4. models[r]["cluster"] = Nothing /\ Nothing \in StandIns
      BY <2>2, <3>1 DEF StandIns
    <3> QED
      BY <1>1, <1>4, <1>8, <2>2, <3>1, <3>2, <3>3, <3>4 DEF Known
  <2>3. CASE s = "cluster"
    <3>1. /\ cache["copilot"] # Nothing /\ models[r]["copilot"] = cache["copilot"]
          /\ cache["claude"] # Nothing /\ models[r]["claude"] = cache["claude"]
      BY <1>3, <2>3 DEF Known
    <3>2. /\ cache'["copilot"] = cache["copilot"] /\ models'[r]["copilot"] = models[r]["copilot"]
          /\ cache'["claude"] = cache["claude"] /\ models'[r]["claude"] = models[r]["claude"]
      BY <1>2, <2>3 DEF Source
    <3>3. models'[r]["cluster"] \in StandIns \/ models'[r]["cluster"] = cache'["cluster"]
      BY <1>2, <2>3
    <3> QED
      BY <1>4, <1>8, <2>3, <3>1, <3>2, <3>3 DEF Known
  <2> QED
    BY <2>1, <2>2, <2>3 DEF Source
<1> QED
  BY <1>1, <1>2, <1>3, <1>5, <1>7, <1>8, HolderFrame

\* The sources that are in the cache.
LEMMA HitKeeps ==
  ASSUME IInv, NEW r \in Requests, Hit(r)
  PROVE  IInv'
<1>1. /\ pc[r] \in Source /\ cache[pc[r]] # Nothing /\ Tell(r, pc[r], cache[pc[r]])
      /\ cache' = cache
  BY DEF Hit
<1>2. cache \in [Source -> Lists \cup {Nothing}] /\ cache[pc[r]] \in Lists
  BY <1>1 DEF IInv, TypeOK
<1> QED
  BY <1>1, <1>2, TellKeeps

\* The sources that are not.
LEMMA MissKeeps ==
  ASSUME IInv, NEW r \in Requests, Miss(r)
  PROVE  IInv'
<1> USE DEF IInv
<1>1. /\ pc[r] \in Source /\ cache[pc[r]] = Nothing /\ Goto(r, FirstAsked[pc[r]])
      /\ UNCHANGED <<cfg, cache, models>>
  BY DEF Miss
<1>2. /\ pc[r] = "copilot" => FirstAsked[pc[r]] = "gh"
      /\ pc[r] = "claude" => FirstAsked[pc[r]] = "settings"
      /\ pc[r] = "cluster" => FirstAsked[pc[r]] = "endpoint"
  BY DEF FirstAsked
<1>3. FirstAsked[pc[r]] \in Holding \cup Ended /\ pc[r] \in Holding /\ Known(r)
  BY <1>1, <1>2 DEF Holding, Source, Querying, Remote
<1>4. pc'[r] = FirstAsked[pc[r]] => Known(r)'
  BY <1>1, <1>2, <1>3 DEF Known, Source
<1>5. /\ cache \in [Source -> Lists \cup {Nothing}]
      /\ models \in [Requests -> [Source -> Lists \cup StandIns]]
  BY DEF TypeOK
<1> QED
  BY <1>1, <1>3, <1>4, <1>5, HolderFrame

\* What a query brings home is put into the cache.
LEMMA InsertKeeps ==
  ASSUME IInv, NEW r \in Requests, NEW s \in Source, NEW list \in Lists, Insert(r, s, list),
         s = "copilot" => pc[r] = "gh",
         s = "claude" => pc[r] \in {"settings", "anthropic"},
         s = "cluster" => pc[r] = "endpoint"
  PROVE  IInv'
<1>1. cache' = [cache EXCEPT ![s] = list] /\ Tell(r, s, list)
  BY DEF Insert
<1>2. cache \in [Source -> Lists \cup {Nothing}] /\ Known(r)
  BY DEF IInv, TypeOK
<1>3. cache[s] = Nothing
  BY <1>2 DEF Known, Source
<1>4. /\ cache' \in [Source -> Lists \cup {Nothing}] /\ cache'[s] = list
      /\ \A t \in Source : cache'[t] = cache[t] \/ (t = s /\ cache[t] = Nothing)
  BY <1>1, <1>2, <1>3
<1>5. list # Nothing
  BY DiscoveryAssumption DEF Lists, Nothing, Default
<1> QED
  BY <1>1, <1>4, <1>5, TellKeeps

LEMMA QueryKeeps ==
  ASSUME IInv, NEW r \in Requests, Copilot(r) \/ Settings(r) \/ Anthropic(r) \/ Cluster(r)
  PROVE  IInv'
<1>1. Found \subseteq Lists /\ Default \in Lists
  BY DEF Lists
<1>2. CASE Copilot(r)
  BY <1>1, <1>2, InsertKeeps DEF Copilot, Source
<1>3. CASE Anthropic(r)
  BY <1>1, <1>3, InsertKeeps DEF Anthropic, Source
<1>4. CASE Settings(r)
  <2>1. CASE \E list \in Lists : Insert(r, "claude", list)
    BY <1>4, <2>1, InsertKeeps DEF Settings, Source
  <2>2. CASE Goto(r, "anthropic") /\ UNCHANGED <<cfg, cache, models>>
    <3>1. pc[r] = "settings" /\ Known(r) /\ pc[r] \in Holding /\ "anthropic" \in Holding
      BY <1>4 DEF Settings, IInv, Holding, Querying, Remote
    <3>2. pc'[r] = "anthropic" => Known(r)'
      BY <2>2, <3>1 DEF Known
    <3>3. /\ cache \in [Source -> Lists \cup {Nothing}]
          /\ models \in [Requests -> [Source -> Lists \cup StandIns]]
      BY DEF IInv, TypeOK
    <3>4. ~cfg.cluster => cache["cluster"] = Nothing
      BY DEF IInv
    <3> QED
      BY <2>2, <3>1, <3>2, <3>3, <3>4, HolderFrame
  <2> QED
    BY <1>1, <1>4, <2>1, <2>2 DEF Settings
<1>5. CASE Cluster(r)
  <2>1. CASE \E list \in Found : Insert(r, "cluster", list)
    BY <1>1, <1>5, <2>1, InsertKeeps DEF Cluster, Source
  <2>2. ASSUME NEW list \in {Default, Omitted}, Tell(r, "cluster", list), cache' = cache
        PROVE  IInv'
    <3>1. pc[r] = "endpoint" /\ cache \in [Source -> Lists \cup {Nothing}]
      BY <1>5 DEF Cluster, IInv, TypeOK
    <3>2. list \in StandIns /\ "cluster" \in Source
      BY DEF StandIns, Source
    <3> QED
      BY <2>2, <3>1, <3>2, TellKeeps
  <2> QED
    BY <1>5, <2>1, <2>2 DEF Cluster
<1> QED
  BY <1>2, <1>3, <1>4, <1>5

\* A client leaves, from the mutex, the queue or the probe.
LEMMA DisconnectKeeps ==
  ASSUME IInv, NEW r \in Requests, Disconnect(r)
  PROVE  IInv'
<1> USE DEF IInv
<1>1. UNCHANGED <<cfg, cache, models>> /\ Known(r)
  BY DEF Disconnect
<1>2. CASE pc[r] \in Holding /\ Goto(r, "gone")
  <2>1. pc'[r] = "gone" => Known(r)'
    <3>1. pc[r] # "done"
      BY <1>2 DEF Holding, Source, Querying, Remote
    <3> QED
      BY <1>1, <3>1 DEF Known
  <2>2. /\ cache \in [Source -> Lists \cup {Nothing}] /\ "gone" \in Ended
        /\ models \in [Requests -> [Source -> Lists \cup StandIns]]
    BY DEF TypeOK, Ended
  <2> QED
    BY <1>1, <1>2, <2>1, <2>2, HolderFrame
<1>3. CASE pc[r] \in {"wait", "probe"} /\ Leave(r)
  <2>1. pc' = [pc EXCEPT ![r] = "gone"] /\ holder' = holder
    BY <1>3 DEF Leave
  <2>2. pc'[r] = "gone" /\ \A q \in Requests \ {r} : pc'[q] = pc[q]
    BY <2>1 DEF TypeOK
  <2>3. "gone" \notin Holding /\ pc[r] \notin Holding
    BY <1>3 DEF Holding, Source, Querying, Remote
  <2>4. /\ waiters' \in Seq(Requests) /\ Distinct'
        /\ \A i \in DOMAIN waiters' : waiters'[i] # r /\ pc[waiters'[i]] = "wait"
        /\ waiters = <<>> => waiters' = <<>>
    <3>1. CASE waiters' = waiters /\ pc[r] # "wait"
      BY <3>1 DEF TypeOK, Distinct
    <3>2. ASSUME NEW k \in DOMAIN waiters, waiters[k] = r, waiters' = RemoveAt(waiters, k)
          PROVE  /\ waiters' \in Seq(Requests) /\ Distinct'
                 /\ \A i \in DOMAIN waiters' : waiters'[i] # r /\ pc[waiters'[i]] = "wait"
                 /\ waiters = <<>> => waiters' = <<>>
      <4>1. /\ waiters' \in Seq(Requests) /\ waiters # <<>>
            /\ \A i \in DOMAIN waiters' :
                 /\ i \in Nat /\ k \in Nat
                 /\ i < k => i \in DOMAIN waiters /\ waiters'[i] = waiters[i]
                 /\ i >= k => i + 1 \in DOMAIN waiters /\ waiters'[i] = waiters[i + 1]
        BY <3>2, RemoveAtFacts DEF TypeOK
      <4>2. ASSUME NEW i \in DOMAIN waiters'
            PROVE  \E j \in DOMAIN waiters : j # k /\ waiters'[i] = waiters[j]
        <5>1. CASE i < k
          BY <4>1, <5>1
        <5>2. CASE i >= k
          BY <4>1, <5>2
        <5> QED
          BY <4>1, <5>1, <5>2
      <4>3. \A i \in DOMAIN waiters' : waiters'[i] # r /\ pc[waiters'[i]] = "wait"
        BY <3>2, <4>2 DEF Distinct, TypeOK
      <4>4. ASSUME NEW i \in DOMAIN waiters', NEW j \in DOMAIN waiters',
                   waiters'[i] = waiters'[j]
            PROVE  i = j
        <5> DEFINE a == IF i < k THEN i ELSE i + 1
                   b == IF j < k THEN j ELSE j + 1
        <5>1. a \in DOMAIN waiters /\ b \in DOMAIN waiters
              /\ waiters'[i] = waiters[a] /\ waiters'[j] = waiters[b]
          BY <4>1
        <5>2. a = b
          BY <4>4, <5>1 DEF Distinct
        <5> QED
          BY <4>1, <5>2
      <4> QED
        BY <4>1, <4>3, <4>4 DEF Distinct
    <3> QED
      BY <1>3, <3>1, <3>2 DEF Leave
  <2>5. \A i \in DOMAIN waiters' : waiters'[i] \in Requests
    BY <2>4
  <2>6. TypeOK'
    BY <1>1, <2>1, <2>2, <2>3, <2>4, <2>5 DEF TypeOK, Ended
  <2>7. Known(r)'
    BY <1>1, <1>3, <2>2 DEF Known
  <2>8. \A q \in Requests \ {r} : Known(q)'
    BY <1>1, <2>2 DEF Known
  <2> QED
    BY <1>1, <2>4, <2>6, <2>7, <2>8
<1> QED
  BY <1>2, <1>3 DEF Disconnect

\* Every step keeps the invariant.
LEMMA NextInvariant == IInv /\ [Next]_vars => IInv'
<1> SUFFICES ASSUME IInv, [Next]_vars PROVE IInv'
  OBVIOUS
<1>1. CASE UNCHANGED vars
  <2>1. TypeOK' /\ Distinct' /\ (~cfg'.cluster => cache'["cluster"] = Nothing)
    BY <1>1 DEF IInv, TypeOK, Distinct, vars
  <2>2. \A q \in Requests : Known(q)'
    BY <1>1 DEF IInv, Known, vars
  <2> QED
    BY <2>1, <2>2 DEF IInv
<1>2. ASSUME NEW r \in Requests,
             \/ Lock(r) \/ Probe(r) \/ Prompt(r)
             \/ Copilot(r) \/ Anthropic(r) \/ Cluster(r) \/ Disconnect(r)
      PROVE  IInv'
  BY <1>2, LockKeeps, ProbeKeeps, HitKeeps, MissKeeps, QueryKeeps, DisconnectKeeps DEF Prompt
<1> QED
  BY <1>1, <1>2 DEF Next, Quiet

-----------------------------------------------------------------------------
\* A step as the catalogue sees it: it learns, and tells at most request r.
LEMMA CatalogueStep ==
  ASSUME TypeOK, TypeOK', NEW r \in Requests, pc[r] # "done",
         \A s \in Source : cache[s] # Nothing => cache'[s] = cache[s],
         \A q \in Requests \ {r} :
           models'[q] = models[q] /\ (pc'[q] = "done" <=> pc[q] = "done"),
         pc'[r] = "done" => C!TrueTo(models'[r], cache')
  PROVE  C!Next
<1>1. C!Learn
  BY DEF C!Learn, TypeOK
<1>2. \A q \in Requests : Told[q] = IF pc[q] = "done" THEN models[q] ELSE Unlisted
  BY DEF Told
<1>3. \A q \in Requests : Told'[q] = IF pc'[q] = "done" THEN models'[q] ELSE Unlisted
  BY DEF Told
<1>4. \A q \in Requests \ {r} : Told'[q] = Told[q]
  BY <1>2, <1>3
<1>5. CASE pc'[r] # "done"
  <2>1. \A q \in Requests : Told'[q] = Told[q]
    BY <1>2, <1>3, <1>4, <1>5
  <2>2. Told' = Told
    BY <2>1 DEF Told
  <2> QED
    BY <1>1, <2>2 DEF C!Next
<1>6. CASE pc'[r] = "done"
  <2>1. Told[r] = C!Silence
    BY <1>2 DEF C!Silence, Unlisted
  <2>2. Told' = [Told EXCEPT ![r] = models'[r]]
    <3>1. Told'[r] = models'[r]
      BY <1>3, <1>6
    <3> QED
      BY <1>4, <3>1 DEF Told
  <2>3. models'[r] \in [Source -> Lists \cup StandIns] /\ C!TrueTo(models'[r], cache')
    BY <1>6 DEF TypeOK
  <2>4. C!Answer(r)
    BY <2>1, <2>2, <2>3 DEF C!Answer
  <2> QED
    BY <1>1, <2>4 DEF C!Next
<1> QED
  BY <1>5, <1>6

\* What an answer says at its end is in the cache, or the cluster is not.
LEMMA TellIsTrue ==
  ASSUME IInv, IInv', NEW r \in Requests, NEW s \in Source, NEW list \in Lists \cup StandIns,
         Tell(r, s, list), pc'[r] = "done", pc[r] \in Holding,
         s = "copilot" => pc[r] \in {"copilot", "gh"},
         s = "claude" => pc[r] \in {"claude", "settings", "anthropic"},
         \A t \in Source \ {s} : cache'[t] = cache[t],
         \/ list # Nothing /\ cache'[s] = list
         \/ s = "cluster" /\ list \in StandIns /\ cache'[s] = Nothing
  PROVE  C!TrueTo(models'[r], cache')
<1>1. /\ cache'["copilot"] # Nothing /\ models'[r]["copilot"] = cache'["copilot"]
      /\ cache'["claude"] # Nothing /\ models'[r]["claude"] = cache'["claude"]
  BY DEF IInv, Known
<1>2. /\ models' = [models EXCEPT ![r][s] = list] /\ Goto(r, After(s)) /\ cfg' = cfg
      /\ models[r] \in [Source -> Lists \cup StandIns]
  BY DEF Tell, IInv, TypeOK
<1>3. models'[r] = [models[r] EXCEPT ![s] = list]
  BY <1>2 DEF IInv, TypeOK
<1>4. \/ models'[r]["cluster"] = cache'["cluster"] /\ cache'["cluster"] # Nothing
      \/ cache'["cluster"] = Nothing /\ models'[r]["cluster"] \in StandIns
  <2>1. CASE s = "cluster"
    BY <1>2, <1>3, <2>1 DEF Source
  <2>2. CASE s # "cluster"
    <3>1. After(s) = "done" /\ ~cfg.cluster
      <4>1. After(s) \in Holding \cup Ended
        BY DEF After, Holding, Source, Ended
      <4>2. pc'[r] = After(s)
        BY <1>2, <4>1, GotoKeeps DEF IInv, TypeOK
      <4>3. s = "claude" /\ After(s) = IF cfg.cluster THEN "cluster" ELSE "done"
        BY <2>2, <4>2 DEF After, Source
      <4> QED
        BY <4>2, <4>3
    <3>2. cache'["cluster"] = Nothing
      BY <1>2, <3>1 DEF IInv
    <3>3. models[r]["cluster"] = Nothing
      <4>1. pc[r] # "done" /\ Known(r)
        BY DEF IInv, Holding, Source, Querying, Remote
      <4> QED
        BY <4>1 DEF Known
    <3>4. models'[r]["cluster"] = models[r]["cluster"]
      BY <1>2, <1>3, <2>2 DEF Source
    <3> QED
      BY <3>2, <3>3, <3>4 DEF StandIns
  <2> QED
    BY <2>1, <2>2
<1> QED
  BY <1>1, <1>4 DEF C!TrueTo, Source

\* The steps of the holder that tell something.
LEMMA TellRefines ==
  ASSUME IInv, IInv', NEW r \in Requests, NEW s \in Source, NEW list \in Lists \cup StandIns,
         Tell(r, s, list), pc[r] \in Holding,
         s = "copilot" => pc[r] \in {"copilot", "gh"},
         s = "claude" => pc[r] \in {"claude", "settings", "anthropic"},
         \A t \in Source \ {s} : cache'[t] = cache[t],
         cache[s] # Nothing => cache'[s] = cache[s],
         \/ list # Nothing /\ cache'[s] = list
         \/ s = "cluster" /\ list \in StandIns /\ cache'[s] = Nothing
  PROVE  C!Next
<1>1. /\ models' = [models EXCEPT ![r][s] = list] /\ Goto(r, After(s)) /\ cfg' = cfg
      /\ After(s) \in Holding \cup Ended
  BY DEF Tell, After, Holding, Source, Ended
<1>2. \A q \in Requests \ {r} : /\ models'[q] = models[q]
                                /\ pc'[q] = "done" <=> pc[q] = "done"
  <2>1. \A q \in Requests \ {r} : pc'[q] = pc[q] \/ (pc[q] = "wait" /\ pc'[q] = "copilot")
    BY <1>1, GotoKeeps DEF IInv, TypeOK
  <2> QED
    BY <1>1, <2>1 DEF IInv, TypeOK
<1>3. pc[r] # "done"
  BY DEF Holding, Source, Querying, Remote
<1>4. pc'[r] = "done" => C!TrueTo(models'[r], cache')
  BY TellIsTrue
<1>5. \A t \in Source : cache[t] # Nothing => cache'[t] = cache[t]
  OBVIOUS
<1> QED
  BY <1>2, <1>3, <1>4, <1>5, CatalogueStep DEF IInv

\* The steps that tell nothing.
LEMMA SilentRefines ==
  ASSUME IInv, IInv', NEW r \in Requests, pc[r] # "done", pc'[r] # "done",
         UNCHANGED <<cache, models>>,
         \A q \in Requests \ {r} : pc'[q] = pc[q] \/ (pc[q] = "wait" /\ pc'[q] = "copilot")
  PROVE  C!Next
<1>1. \A q \in Requests \ {r} : pc'[q] = "done" <=> pc[q] = "done"
  OBVIOUS
<1> QED
  BY <1>1, CatalogueStep DEF IInv

\* The holder moves on without an answer.
LEMMA GotoRefines ==
  ASSUME IInv, IInv', NEW r \in Requests, pc[r] \in Holding, NEW to \in Holding \cup Ended,
         to # "done", Goto(r, to), UNCHANGED <<cfg, cache, models>>
  PROVE  C!Next
<1>1. /\ pc'[r] = to
      /\ \A q \in Requests \ {r} : pc'[q] = pc[q] \/ (pc[q] = "wait" /\ pc'[q] = "copilot")
  BY GotoKeeps DEF IInv, TypeOK
<1>2. pc[r] # "done"
  BY DEF Holding, Source, Querying, Remote
<1> QED
  BY <1>1, <1>2, SilentRefines

LEMMA InsertRefines ==
  ASSUME IInv, IInv', NEW r \in Requests, NEW s \in Source, NEW list \in Lists,
         Insert(r, s, list),
         s = "copilot" => pc[r] = "gh",
         s = "claude" => pc[r] \in {"settings", "anthropic"},
         s = "cluster" => pc[r] = "endpoint"
  PROVE  C!Next
<1>1. cache' = [cache EXCEPT ![s] = list] /\ Tell(r, s, list)
  BY DEF Insert
<1>2. cache \in [Source -> Lists \cup {Nothing}] /\ Known(r)
  BY DEF IInv, TypeOK
<1>3. cache[s] = Nothing /\ pc[r] \in Holding
  BY <1>2 DEF Known, Source, Holding, Querying, Remote
<1>4. list # Nothing
  BY DiscoveryAssumption DEF Lists, Nothing, Default
<1>5. cache'[s] = list /\ \A t \in Source \ {s} : cache'[t] = cache[t]
  BY <1>1, <1>2
<1> QED
  BY <1>1, <1>3, <1>4, <1>5, TellRefines

LEMMA HitRefines ==
  ASSUME IInv, IInv', NEW r \in Requests, Hit(r)
  PROVE  C!Next
<1>1. /\ pc[r] \in Source /\ cache[pc[r]] # Nothing /\ Tell(r, pc[r], cache[pc[r]])
      /\ cache' = cache
  BY DEF Hit
<1>2. pc[r] \in Holding /\ cache[pc[r]] \in Lists
  BY <1>1 DEF IInv, TypeOK, Holding
<1> QED
  BY <1>1, <1>2, TellRefines

LEMMA QueryRefines ==
  ASSUME IInv, IInv', NEW r \in Requests,
         Copilot(r) \/ Settings(r) \/ Anthropic(r) \/ Cluster(r)
  PROVE  C!Next
<1>1. Found \subseteq Lists /\ Default \in Lists
  BY DEF Lists
<1>2. CASE Copilot(r)
  BY <1>1, <1>2, InsertRefines DEF Copilot, Source
<1>3. CASE Anthropic(r)
  BY <1>1, <1>3, InsertRefines DEF Anthropic, Source
<1>4. CASE Settings(r)
  <2>1. CASE \E list \in Lists : Insert(r, "claude", list)
    BY <1>4, <2>1, InsertRefines DEF Settings, Source
  <2>2. CASE Goto(r, "anthropic") /\ UNCHANGED <<cfg, cache, models>>
    BY <1>4, <2>2, GotoRefines DEF Settings, Holding, Querying, Remote
  <2> QED
    BY <1>1, <1>4, <2>1, <2>2 DEF Settings
<1>5. CASE Cluster(r)
  <2>1. CASE \E list \in Found : Insert(r, "cluster", list)
    BY <1>1, <1>5, <2>1, InsertRefines DEF Cluster, Source
  <2>2. ASSUME NEW list \in {Default, Omitted}, Tell(r, "cluster", list), cache' = cache
        PROVE  C!Next
    <3>1. pc[r] = "endpoint" /\ pc[r] \in Holding /\ cache["cluster"] = Nothing
      BY <1>5 DEF Cluster, IInv, Known, Holding, Querying, Remote
    <3>2. list \in StandIns /\ "cluster" \in Source
      BY DEF StandIns, Source
    <3> QED
      BY <2>2, <3>1, <3>2, TellRefines
  <2> QED
    BY <1>5, <2>1, <2>2 DEF Cluster
<1> QED
  BY <1>2, <1>3, <1>4, <1>5

\* Who arrives, asks for the status or leaves learns nothing.
LEMMA ComeAndGoRefines ==
  ASSUME IInv, IInv', NEW r \in Requests,
         Lock(r) \/ Probe(r) \/ Health(r) \/ Miss(r) \/ Disconnect(r)
  PROVE  C!Next
<1>1. CASE Miss(r)
  <2>1. /\ pc[r] \in Source /\ Goto(r, FirstAsked[pc[r]]) /\ UNCHANGED <<cfg, cache, models>>
    BY <1>1 DEF Miss
  <2>2. FirstAsked[pc[r]] \in {"gh", "settings", "endpoint"}
    BY <2>1 DEF FirstAsked, Source
  <2> QED
    BY <2>1, <2>2, GotoRefines DEF Holding, Querying, Remote
<1>2. CASE pc[r] \in Holding /\ Goto(r, "gone") /\ Disconnect(r)
  BY <1>2, GotoRefines DEF Disconnect, Ended
<1>3. CASE Lock(r) \/ Probe(r) \/ Health(r) \/ (pc[r] \in {"wait", "probe"} /\ Leave(r) /\ Disconnect(r))
  <2>1. /\ pc[r] # "done" /\ UNCHANGED <<cache, models>>
        /\ \E to \in {"copilot", "wait", "probe", "healthy", "gone"} :
             pc' = [pc EXCEPT ![r] = to]
    BY <1>3 DEF Lock, Probe, Health, Leave, Disconnect
  <2>2. pc'[r] # "done" /\ \A q \in Requests \ {r} : pc'[q] = pc[q]
    BY <2>1 DEF IInv, TypeOK
  <2> QED
    BY <2>1, <2>2, SilentRefines
<1> QED
  BY <1>1, <1>2, <1>3 DEF Disconnect

-----------------------------------------------------------------------------
\* The invariant holds in every reachable state.
THEOREM Invariance == Spec => []IInv
<1> QED
  BY InitInvariant, NextInvariant, PTL DEF Spec

\* Every variable has its type, the request that works on its answer holds the
\* mutex, and nobody queues for a free one, for any number of requests.
THEOREM TypeCorrect == Spec => []TypeOK
<1>1. IInv => TypeOK
  BY DEF IInv
<1> QED
  BY <1>1, Invariance, PTL

\* No two answers contradict each other, however the requests race and leave.
THEOREM AnswersNeverDiffer == Spec => []AnswersAgree
<1>1. IInv => AnswersAgree
  <2> SUFFICES ASSUME IInv, NEW r \in Requests, NEW q \in Requests,
                      pc[r] = "done", pc[q] = "done"
               PROVE  /\ models[r]["copilot"] = models[q]["copilot"]
                      /\ models[r]["claude"] = models[q]["claude"]
                      /\ models[r]["cluster"] \in Found /\ models[q]["cluster"] \in Found =>
                           models[r]["cluster"] = models[q]["cluster"]
    BY DEF AnswersAgree
  <2>1. Known(r) /\ Known(q)
    BY DEF IInv
  <2> QED
    BY <2>1, DiscoveryAssumption DEF Known, StandIns, Default, Omitted, Nothing
<1> QED
  BY <1>1, Invariance, PTL

\* Mutex, cache and queries implement the catalogue: one list per source, for
\* good, and every answer read from it.
THEOREM Implements == Spec => OneCatalogue
<1>1. Init => C!Init
  <2> SUFFICES ASSUME Init PROVE C!Init
    OBVIOUS
  <2>1. cache = C!Silence
    BY DEF Init, Unlisted, C!Silence
  <2>2. Told = [r \in Requests |-> C!Silence]
    BY DEF Init, Told, Unlisted, C!Silence
  <2> QED
    BY <2>1, <2>2 DEF C!Init
<1>2. IInv /\ IInv' /\ [Next]_vars => [C!Next]_C!vars
  <2> SUFFICES ASSUME IInv, IInv', [Next]_vars PROVE [C!Next]_C!vars
    OBVIOUS
  <2>1. CASE UNCHANGED vars
    BY <2>1 DEF vars, C!vars, Told
  <2>2. ASSUME NEW r \in Requests,
               \/ Lock(r) \/ Probe(r) \/ Prompt(r)
               \/ Copilot(r) \/ Anthropic(r) \/ Cluster(r) \/ Disconnect(r)
        PROVE  C!Next
    BY <2>2, HitRefines, QueryRefines, ComeAndGoRefines DEF Prompt
  <2> QED
    BY <2>1, <2>2 DEF Next, Quiet
<1> QED
  BY <1>1, <1>2, Invariance, PTL DEF Spec, OneCatalogue, C!Spec

-----------------------------------------------------------------------------
\* How far a request is from its end: its place on the longest way of a handler.
StepsOf == [idle |-> 10, wait |-> 9, copilot |-> 8, gh |-> 7, claude |-> 6,
            settings |-> 5, anthropic |-> 4, cluster |-> 3, endpoint |-> 2,
            probe |-> 1, done |-> 0, healthy |-> 0, gone |-> 0]

Work(r) == StepsOf[pc[r]]
Advances(r) == Work(r)' < Work(r) /\ \A q \in Requests : Work(q)' <= Work(q)

\* Every step brings one request nearer to its end and throws none back: no
\* handler of the gateway goes round in a circle, a failed query included.
EveryStepAdvances == [][\E r \in Requests : Advances(r)]_vars
StepsLeft == \A r \in Requests : Work(r) \in 0 .. 10

\* Those who stand in the queue before request q.
Ahead(q) ==
  {waiters[k] : k \in {i \in DOMAIN waiters : \E l \in DOMAIN waiters : i < l /\ waiters[l] = q}}

\* The mutex is fair: while a request queues nobody gets in ahead of it, however
\* the others arrive, are served and leave.
NobodyOvertakes ==
  [][\A q \in Requests : pc[q] = "wait" /\ pc'[q] = "wait" => Ahead(q)' \subseteq Ahead(q)]_vars

\* A request's place is one of those the measure counts.
LEMMA WorkNat ==
  ASSUME TypeOK
  PROVE  \A q \in Requests : Work(q) \in Nat
BY DEF TypeOK, Work, StepsOf, Holding, Source, Querying, Remote, Ended

\* A request that goes on alone.
LEMMA MoveAdvances ==
  ASSUME TypeOK, NEW r \in Requests, NEW to \in DOMAIN StepsOf,
         pc' = [pc EXCEPT ![r] = to], StepsOf[to] < Work(r)
  PROVE  Advances(r)
<1>1. pc'[r] = to /\ \A q \in Requests \ {r} : pc'[q] = pc[q]
  BY DEF TypeOK
<1>2. Work(r)' = StepsOf[to]
  BY <1>1 DEF Work
<1>3. \A q \in Requests \ {r} : Work(q)' = Work(q)
  BY <1>1 DEF Work
<1>4. StepsOf[to] \in Nat
  BY DEF StepsOf
<1> HIDE DEF StepsOf
<1> QED
  BY <1>2, <1>3, <1>4, WorkNat DEF Advances

\* The holder goes on, and wakes the head of the queue if it ends.
LEMMA GotoAdvances ==
  ASSUME IInv, IInv', NEW r \in Requests, pc[r] \in Holding, NEW to \in Holding \cup Ended,
         Goto(r, to), cfg' = cfg, StepsOf[to] < Work(r)
  PROVE  Advances(r)
<1>1. /\ pc'[r] = to
      /\ \A q \in Requests \ {r} : pc'[q] = pc[q] \/ (pc[q] = "wait" /\ pc'[q] = "copilot")
  BY GotoKeeps DEF IInv, TypeOK
<1>2. Work(r)' = StepsOf[to]
  BY <1>1 DEF Work
<1>3. ASSUME NEW q \in Requests \ {r}
      PROVE  Work(q)' <= Work(q)
  <2>1. CASE pc'[q] = pc[q]
    <3>1. Work(q)' = Work(q)
      BY <2>1 DEF Work
    <3> QED
      BY <3>1, WorkNat DEF IInv
  <2>2. CASE pc[q] = "wait" /\ pc'[q] = "copilot"
    BY <2>2 DEF Work, StepsOf
  <2> QED
    BY <1>1, <2>1, <2>2
<1>4. Work(r) \in Nat /\ StepsOf[to] \in Nat
  BY WorkNat DEF IInv, StepsOf, Holding, Source, Querying, Remote, Ended
<1> HIDE DEF StepsOf
<1> QED
  BY <1>2, <1>3, <1>4 DEF Advances

\* A source answered for is behind the request.
LEMMA TellAdvances ==
  ASSUME IInv, IInv', NEW r \in Requests, NEW s \in Source, NEW list, Tell(r, s, list),
         \/ s = "copilot" /\ pc[r] \in {"copilot", "gh"}
         \/ s = "claude" /\ pc[r] \in {"claude", "settings", "anthropic"}
         \/ s = "cluster" /\ pc[r] \in {"cluster", "endpoint"}
  PROVE  Advances(r)
<1>1. Goto(r, After(s)) /\ cfg' = cfg
  BY DEF Tell
<1>2. After(s) \in Holding \cup Ended /\ pc[r] \in Holding
  BY DEF After, Holding, Source, Querying, Remote, Ended
<1>3. CASE s = "copilot"
  <2>1. After(s) = "claude"
    BY <1>3 DEF After
  <2> QED
    BY <1>1, <1>2, <1>3, <2>1, GotoAdvances DEF Work, StepsOf
<1>4. CASE s = "claude"
  <2>1. After(s) \in {"cluster", "done"}
    BY <1>4 DEF After
  <2>2. StepsOf[After(s)] < Work(r)
    BY <1>4, <2>1 DEF Work, StepsOf
  <2> QED
    BY <1>1, <1>2, <2>2, GotoAdvances
<1>5. CASE s = "cluster"
  <2>1. After(s) = "done"
    BY <1>5 DEF After
  <2> QED
    BY <1>1, <1>2, <1>5, <2>1, GotoAdvances DEF Work, StepsOf
<1> QED
  BY <1>3, <1>4, <1>5 DEF Source

\* The request that a step belongs to advances.
LEMMA ActionAdvances ==
  ASSUME IInv, IInv', NEW r \in Requests,
         \/ Lock(r) \/ Probe(r) \/ Prompt(r)
         \/ Copilot(r) \/ Anthropic(r) \/ Cluster(r) \/ Disconnect(r)
  PROVE  Advances(r)
<1> USE DEF Insert
<1>1. TypeOK
  BY DEF IInv
<1>2. CASE Lock(r)
  <2>1. pc[r] = "idle" /\ (pc' = [pc EXCEPT ![r] = "copilot"] \/ pc' = [pc EXCEPT ![r] = "wait"])
    BY <1>2 DEF Lock
  <2> QED
    BY <1>1, <2>1, MoveAdvances DEF Work, StepsOf
<1>3. CASE Probe(r)
  <2>1. PICK to \in {"probe", "healthy"} : pc[r] = "idle" /\ pc' = [pc EXCEPT ![r] = to]
    BY <1>3 DEF Probe
  <2>2. to \in DOMAIN StepsOf /\ StepsOf[to] < Work(r)
    BY <2>1 DEF Work, StepsOf
  <2> QED
    BY <1>1, <2>1, <2>2, MoveAdvances
<1>4. CASE Health(r)
  <2>1. pc[r] = "probe" /\ pc' = [pc EXCEPT ![r] = "healthy"]
    BY <1>4 DEF Health
  <2>2. "healthy" \in DOMAIN StepsOf /\ StepsOf["healthy"] < Work(r)
    BY <2>1 DEF Work, StepsOf
  <2> QED
    BY <1>1, <2>1, <2>2, MoveAdvances
<1>5. CASE Hit(r)
  BY <1>5, TellAdvances DEF Hit, Source
<1>6. CASE Miss(r)
  <2>1. pc[r] \in Source /\ Goto(r, FirstAsked[pc[r]]) /\ cfg' = cfg
    BY <1>6 DEF Miss
  <2>2. /\ FirstAsked[pc[r]] \in Holding /\ pc[r] \in Holding
        /\ StepsOf[FirstAsked[pc[r]]] < Work(r)
    BY <2>1 DEF FirstAsked, Work, StepsOf, Holding, Source, Querying, Remote
  <2> QED
    BY <2>1, <2>2, GotoAdvances
<1>7. CASE Settings(r)
  <2>1. pc[r] = "settings"
    BY <1>7 DEF Settings
  <2>2. CASE \E list : Tell(r, "claude", list)
    BY <2>1, <2>2, TellAdvances DEF Source
  <2>3. CASE Goto(r, "anthropic") /\ cfg' = cfg
    BY <2>1, <2>3, GotoAdvances DEF Work, StepsOf, Holding, Source, Querying, Remote
  <2> QED
    BY <1>7, <2>2, <2>3 DEF Settings
<1>8. CASE Copilot(r)
  BY <1>8, TellAdvances DEF Copilot, Source
<1>9. CASE Anthropic(r)
  BY <1>9, TellAdvances DEF Anthropic, Source
<1>10. CASE Cluster(r)
  BY <1>10, TellAdvances DEF Cluster, Source
<1>11. CASE Disconnect(r)
  <2>1. CASE pc[r] \in Holding /\ Goto(r, "gone")
    <3>1. StepsOf["gone"] < Work(r) /\ "gone" \in Ended
      BY <2>1 DEF Work, StepsOf, Holding, Source, Querying, Remote, Ended
    <3> QED
      BY <1>11, <2>1, <3>1, GotoAdvances DEF Disconnect
  <2>2. CASE pc[r] \in {"wait", "probe"} /\ pc' = [pc EXCEPT ![r] = "gone"]
    <3>1. "gone" \in DOMAIN StepsOf /\ StepsOf["gone"] < Work(r)
      BY <2>2 DEF Work, StepsOf
    <3> QED
      BY <1>1, <2>2, <3>1, MoveAdvances
  <2> QED
    BY <1>11, <2>1, <2>2 DEF Disconnect, Leave
<1> QED
  BY <1>2, <1>3, <1>4, <1>5, <1>6, <1>7, <1>8, <1>9, <1>10, <1>11 DEF Prompt

\* The gateway takes at most ten steps per request, for any number of requests:
\* whoever is not served waits for one query that hangs, never for a loop.
THEOREM StepsRunOut == Spec => EveryStepAdvances /\ []StepsLeft
<1>1. IInv /\ IInv' /\ [Next]_vars => [\E r \in Requests : Advances(r)]_vars
  <2> SUFFICES ASSUME IInv, IInv', Next PROVE (\E r \in Requests : Advances(r)) \/ UNCHANGED vars
    OBVIOUS
  <2> QED
    BY ActionAdvances DEF Next, Quiet
<1>2. TypeOK => StepsLeft
  <2> SUFFICES ASSUME TypeOK, NEW r \in Requests PROVE Work(r) \in 0 .. 10
    BY DEF StepsLeft
  <2>1. pc[r] \in Holding \cup Ended \cup {"idle", "wait", "probe"}
    BY DEF TypeOK
  <2> DEFINE l == pc[r]
  <2>2. StepsOf[l] \in 0 .. 10
    <3>1. l \in Holding \cup Ended \cup {"idle", "wait", "probe"}
      BY <2>1
    <3> HIDE DEF l
    <3> QED
      BY <3>1 DEF StepsOf, Holding, Ended, Source, Querying, Remote
  <2> QED
    BY <2>2 DEF Work
<1> QED
  BY <1>1, <1>2, Invariance, TypeCorrect, PTL DEF Spec, EveryStepAdvances

-----------------------------------------------------------------------------
\* What a step does to the queue.
QueueStep ==
  \/ waiters' = waiters
  \/ \E r \in Requests : pc[r] = "idle" /\ waiters' = Append(waiters, r)
  \/ waiters # <<>> /\ waiters' = Tail(waiters)
  \/ \E k \in DOMAIN waiters : waiters' = RemoveAt(waiters, k)

\* Whoever is ahead of q after the step was so before it.
OrderKept(q) ==
  \A i, l \in DOMAIN waiters' : i < l /\ waiters'[l] = q =>
    \E j, m \in DOMAIN waiters : j < m /\ waiters[m] = q /\ waiters[j] = waiters'[i]

\* Every step joins the queue's end, serves its head or leaves its place.
LEMMA StepsQueue == ASSUME [Next]_vars PROVE QueueStep
<1> USE DEF QueueStep, Goto, Tell, Insert
<1>1. CASE UNCHANGED vars
  BY <1>1 DEF vars
<1>2. ASSUME NEW r \in Requests, Lock(r) \/ Probe(r) \/ Health(r) \/ Disconnect(r)
      PROVE  QueueStep
  BY <1>2 DEF Lock, Probe, Health, Disconnect, Leave
<1>3. ASSUME NEW r \in Requests, NEW to, Goto(r, to)
      PROVE  QueueStep
  BY <1>3
<1>4. ASSUME NEW r \in Requests, Hit(r) \/ Miss(r) \/ Settings(r)
      PROVE  QueueStep
  BY <1>4 DEF Hit, Miss, Settings
<1>5. ASSUME NEW r \in Requests, Copilot(r) \/ Anthropic(r) \/ Cluster(r)
      PROVE  QueueStep
  BY <1>5 DEF Copilot, Anthropic, Cluster
<1> QED
  BY <1>1, <1>2, <1>4, <1>5 DEF Next, Quiet, Prompt

\* The four ways keep the order of those who stay.
LEMMA QueueOrder ==
  ASSUME TypeOK, QueueStep, NEW q \in Requests, pc[q] = "wait"
  PROVE  OrderKept(q)
<1> SUFFICES ASSUME NEW i \in DOMAIN waiters', NEW l \in DOMAIN waiters',
                    i < l, waiters'[l] = q
             PROVE  \E j, m \in DOMAIN waiters :
                      j < m /\ waiters[m] = q /\ waiters[j] = waiters'[i]
  BY DEF OrderKept
<1>1. waiters \in Seq(Requests)
  BY DEF TypeOK
<1>2. CASE waiters' = waiters
  BY <1>2
<1>3. ASSUME NEW r \in Requests, pc[r] = "idle", waiters' = Append(waiters, r)
      PROVE  \E j, m \in DOMAIN waiters : j < m /\ waiters[m] = q /\ waiters[j] = waiters'[i]
  <2>1. /\ Len(waiters) \in Nat /\ DOMAIN waiters = 1 .. Len(waiters)
        /\ DOMAIN waiters' = 1 .. Len(waiters) + 1 /\ waiters'[Len(waiters) + 1] = r
        /\ \A k \in 1 .. Len(waiters) : waiters'[k] = waiters[k]
    BY <1>1, <1>3
  <2>2. l # Len(waiters) + 1
    BY <1>3, <2>1
  <2>3. l \in 1 .. Len(waiters) /\ i \in 1 .. Len(waiters)
    BY <2>1, <2>2
  <2> QED
    BY <2>1, <2>3
<1>4. CASE waiters # <<>> /\ waiters' = Tail(waiters)
  <2>1. \A k \in DOMAIN waiters' : k + 1 \in DOMAIN waiters /\ waiters'[k] = waiters[k + 1]
    BY <1>1, <1>4, TailFacts
  <2>2. i \in Int /\ l \in Int
    BY <1>1, <1>4
  <2>3. i + 1 < l + 1
    BY <2>2
  <2> QED
    BY <2>1, <2>3
<1>5. ASSUME NEW k \in DOMAIN waiters, waiters' = RemoveAt(waiters, k)
      PROVE  \E j, m \in DOMAIN waiters : j < m /\ waiters[m] = q /\ waiters[j] = waiters'[i]
  <2>1. \A n \in DOMAIN waiters' :
          /\ n \in Nat /\ k \in Nat
          /\ n < k => n \in DOMAIN waiters /\ waiters'[n] = waiters[n]
          /\ n >= k => n + 1 \in DOMAIN waiters /\ waiters'[n] = waiters[n + 1]
    BY <1>1, <1>5, RemoveAtFacts
  <2>2. i \in Nat /\ l \in Nat /\ k \in Nat
    BY <2>1
  <2>3. CASE l < k
    <3>1. i < k
      BY <2>2, <2>3
    <3> QED
      BY <2>1, <2>3, <3>1
  <2>4. CASE i >= k
    <3>1. l >= k /\ i + 1 < l + 1
      BY <2>2, <2>4
    <3> QED
      BY <2>1, <2>4, <3>1
  <2>5. CASE i < k /\ l >= k
    <3>1. i < l + 1
      BY <2>2
    <3> QED
      BY <2>1, <2>5, <3>1
  <2> QED
    BY <2>2, <2>3, <2>4, <2>5
<1> QED
  BY <1>2, <1>3, <1>4, <1>5 DEF QueueStep

\* The queue of the mutex is first in, first out for any number of requests.
THEOREM QueueIsFair == Spec => NobodyOvertakes
<1>1. IInv /\ [Next]_vars =>
        [\A q \in Requests : pc[q] = "wait" /\ pc'[q] = "wait" => Ahead(q)' \subseteq Ahead(q)]_vars
  <2> SUFFICES ASSUME IInv, [Next]_vars, NEW q \in Requests, pc[q] = "wait",
                      NEW a \in Ahead(q)'
               PROVE  a \in Ahead(q)
    OBVIOUS
  <2>1. OrderKept(q)
    BY StepsQueue, QueueOrder DEF IInv
  <2>2. PICK i, l \in DOMAIN waiters' : i < l /\ waiters'[l] = q /\ waiters'[i] = a
    BY DEF Ahead
  <2>3. PICK j, m \in DOMAIN waiters : j < m /\ waiters[m] = q /\ waiters[j] = waiters'[i]
    BY <2>1, <2>2 DEF OrderKept
  <2> QED
    BY <2>2, <2>3 DEF Ahead
<1> QED
  BY <1>1, Invariance, PTL DEF Spec, NobodyOvertakes
=============================================================================
