-------------------------- MODULE LookaheadProofs --------------------------
(***************************************************************************)
(* The look-ahead passes on what it held back, for every answer, every way *)
(* of cutting it and every size of the window, and holds it back for a     *)
(* bounded number of steps only.                                           *)
(***************************************************************************)
EXTENDS Lookahead, SequenceTheorems, WellFoundedInduction, TLAPS

Chunk == Seq(LineType)

\* What is held back and what was sent make up what arrived, and nothing is sent
\* before the stream is judged.
IInv ==
  /\ script \in Seq(LineType) /\ pos \in 0 .. Len(script)
  /\ frames \in Seq(Chunk) /\ got \in Seq(Chunk) /\ sent \in Seq(Chunk)
  /\ phase \in Phases
  /\ phase \in {"peek", "rejected"} => sent = <<>>
  /\ phase \notin {"peek", "rejected", "replay"} => frames = <<>>
  /\ phase # "rejected" => sent \o frames = got
  /\ phase = "peek" => peeked = Len(frames)
  /\ peeked \in Nat /\ peeked <= FrameCap

LEMMA InitIInv == Init => IInv
<1> SUFFICES ASSUME Init PROVE IInv
  OBVIOUS
<1>1. script \in Seq(LineType) /\ Len(script) \in Nat
  BY LookaheadAssumption, LenProperties DEF Init
<1>2. <<>> \in Seq(Chunk) /\ <<>> \o <<>> = <<>> /\ Len(<<>>) = 0
  OBVIOUS
<1> QED
  BY <1>1, <1>2, LookaheadAssumption DEF Init, IInv, Phases

\* A chunk that arrives is a piece of the script.
LEMMA ArriveType ==
  ASSUME IInv, NEW lines \in Chunks, Arrive(lines)
  PROVE  /\ lines \in Chunk
         /\ script' = script /\ pos' \in 0 .. Len(script)
         /\ got' = Append(got, lines) /\ got' \in Seq(Chunk)
<1>1. PICK n \in 0 .. Len(script) - pos : lines = SubSeq(script, pos + 1, pos + n)
  BY DEF Chunks
<1>2. script \in Seq(LineType) /\ Len(script) \in Nat /\ pos \in 0 .. Len(script)
  BY LenProperties DEF IInv
<1>3. lines \in Seq(LineType) /\ Len(lines) = n
  <2>1. pos + 1 \in 1 .. Len(script) + 1 /\ pos + n \in pos .. Len(script)
    BY <1>1, <1>2
  <2>2. /\ SubSeq(script, pos + 1, pos + n) \in Seq(LineType)
        /\ Len(SubSeq(script, pos + 1, pos + n)) =
             IF pos + 1 <= pos + n THEN (pos + n) - (pos + 1) + 1 ELSE 0
    BY <1>1, <1>2, <2>1, SubSeqProperties
  <2> QED
    BY <1>1, <1>2, <2>2
<1>4. pos' \in 0 .. Len(script)
  BY <1>1, <1>2, <1>3 DEF Arrive
<1>5. got' \in Seq(Chunk)
  BY <1>3, AppendProperties DEF IInv, Arrive, Chunk
<1> QED
  BY <1>3, <1>4, <1>5 DEF Arrive, Chunk

\* Appending to both sides of sent \o frames = got.
LEMMA AppendToBoth ==
  ASSUME NEW s \in Seq(Chunk), NEW f \in Seq(Chunk), NEW c \in Chunk
  PROVE  s \o Append(f, c) = Append(s \o f, c)
<1>1. /\ Append(f, c) = f \o <<c>> /\ s \o f \in Seq(Chunk) /\ <<c>> \in Seq(Chunk)
  BY AppendIsConcat, ConcatProperties
<1>2. Append(s \o f, c) = (s \o f) \o <<c>>
  BY <1>1, AppendIsConcat
<1> QED
  BY <1>1, <1>2, ConcatAssociative

LEMMA NextIInv == ASSUME IInv, [Next]_vars PROVE IInv'
<1>1. ASSUME NEW lines \in Chunks, PeekChunk(lines) PROVE IInv'
  <2>1. Arrive(lines) /\ phase = "peek" /\ phase' = "peek" /\ frames' = Append(frames, lines)
        /\ Len(frames) < FrameCap /\ peeked' = peeked + 1 /\ sent' = sent
    BY <1>1 DEF PeekChunk, Window
  <2>2. lines \in Chunk /\ script' = script /\ pos' \in 0 .. Len(script)
        /\ got' = Append(got, lines) /\ got' \in Seq(Chunk)
    BY <2>1, ArriveType
  <2>3. frames' \in Seq(Chunk) /\ Len(frames') = Len(frames) + 1
    BY <2>1, <2>2, AppendProperties DEF IInv
  <2>4. sent' \o frames' = got'
    BY <2>1, <2>2, AppendToBoth DEF IInv
  <2>5. peeked' = Len(frames') /\ peeked' \in Nat /\ peeked' <= FrameCap
    BY <2>1, <2>3, LookaheadAssumption, LenProperties DEF IInv
  <2> QED
    BY <2>1, <2>2, <2>3, <2>4, <2>5 DEF IInv
<1>2. ASSUME NEW lines \in Chunks, LiveChunk(lines) PROVE IInv'
  <2>1. Arrive(lines) /\ phase = "live" /\ phase' = "live" /\ frames' = frames
        /\ sent' = Append(sent, lines) /\ peeked' = peeked
    BY <1>2 DEF LiveChunk
  <2>2. lines \in Chunk /\ script' = script /\ pos' \in 0 .. Len(script)
        /\ got' = Append(got, lines) /\ got' \in Seq(Chunk)
    BY <2>1, ArriveType
  <2>3. sent' \in Seq(Chunk) /\ frames = <<>>
    BY <2>1, <2>2, AppendProperties DEF IInv
  <2>4. sent' \o <<>> = sent' /\ sent \o <<>> = sent
    BY <2>3, ConcatEmptySeq DEF IInv
  <2>5. sent' \o frames' = got'
    BY <2>1, <2>2, <2>3, <2>4 DEF IInv
  <2> QED
    BY <2>1, <2>2, <2>3, <2>5 DEF IInv
<1>3. CASE PeekEnd
  BY <1>3 DEF PeekEnd, UpstreamEnds, IInv
<1>4. CASE Judge
  BY <1>4 DEF Judge, IInv, Phases
<1>5. CASE Replay
  <2>1. phase = "replay" /\ UNCHANGED <<script, pos, got, peeked>>
    BY <1>5 DEF Replay
  <2>2. CASE frames # <<>> /\ sent' = Append(sent, Head(frames)) /\ frames' = Tail(frames)
             /\ UNCHANGED phase
    <3>1. Head(frames) \in Chunk /\ frames' \in Seq(Chunk) /\ sent' \in Seq(Chunk)
      BY <2>2, HeadTailProperties, AppendProperties DEF IInv
    <3>2. sent' = sent \o <<Head(frames)>> /\ frames = <<Head(frames)>> \o frames'
      BY <2>2, <3>1, AppendIsConcat, HeadTailProperties, ConcatSimplifications DEF IInv
    <3>3. (sent \o <<Head(frames)>>) \o frames' = sent \o (<<Head(frames)>> \o frames')
      <4>1. sent \in Seq(Chunk) /\ <<Head(frames)>> \in Seq(Chunk)
        BY <3>1 DEF IInv
      <4> QED
        BY <3>1, <4>1, ConcatAssociative
    <3>4. sent' \o frames' = got'
      BY <2>1, <3>2, <3>3 DEF IInv
    <3> QED
      BY <2>1, <2>2, <3>1, <3>4 DEF IInv
  <2>3. CASE frames = <<>> /\ phase' = "live" /\ UNCHANGED <<frames, sent>>
    BY <2>1, <2>3 DEF IInv, Phases
  <2> QED
    BY <1>5, <2>2, <2>3 DEF Replay
<1>6. CASE LiveEnd
  BY <1>6 DEF LiveEnd, UpstreamEnds, IInv, Phases
<1>7. CASE UNCHANGED vars
  BY <1>7 DEF vars, IInv
<1> QED
  BY <1>1, <1>2, <1>3, <1>4, <1>5, <1>6, <1>7 DEF Next, Over

-----------------------------------------------------------------------------
\* Nothing is lost, repeated or reordered between the chunks that arrive, those
\* held back and those the client got, and nothing is sent of a rejected stream.
THEOREM Invariance == Spec => []IInv
<1>1. Init => IInv
  BY InitIInv
<1>2. IInv /\ [Next]_vars => IInv'
  BY NextIInv
<1> QED
  BY <1>1, <1>2, PTL DEF Spec

\* The stream the client gets is the upstream's, byte for byte, or nothing.
THEOREM ReplayIsVerbatim == Spec => []Verbatim
<1>1. IInv => Verbatim
  BY DEF IInv, Verbatim
<1> QED
  BY <1>1, Invariance, PTL

\* The look-ahead buffers at most FRAME_CAP chunks, however small they are.
THEOREM HoldBackBounded == Spec => []HoldBackBound
<1>1. IInv => HoldBackBound
  BY DEF IInv, HoldBackBound
<1> QED
  BY <1>1, Invariance, PTL

-----------------------------------------------------------------------------
\* The steps until the client has all that is held back: a chunk is read once and
\* sent once, and in between the stream is judged.
Held ==
  CASE phase = "peek"   -> 2 * FrameCap - Len(frames) + (IF ended THEN 2 ELSE 3)
    [] phase = "replay" -> Len(frames) + 1
    [] OTHER            -> 0

\* Until a stream is live or rejected every step brings it nearer to that, however
\* long the stream is and however little its chunks hold.
HoldingBackEnds == [][(phase \in {"peek", "replay"}) => Held' < Held]_vars
HeldInBounds == Held \in 0 .. 2 * FrameCap + 3

\* A chunk is read, or the end of the stream.
LEMMA PeekAdvances ==
  ASSUME IInv, NEW lines, PeekChunk(lines) \/ PeekEnd
  PROVE  Held' < Held
<1>1. /\ phase = "peek" /\ phase' = "peek" /\ ~ended
      /\ Len(frames) \in Nat /\ FrameCap \in Nat
  BY LenProperties, LookaheadAssumption DEF PeekChunk, PeekEnd, Window, IInv
<1>2. Held = 2 * FrameCap - Len(frames) + 3
  BY <1>1 DEF Held
<1>3. CASE PeekChunk(lines)
  <2>1. frames' = Append(frames, lines)
    BY <1>3 DEF PeekChunk
  <2>2. Len(frames') = Len(frames) + 1
    BY <2>1 DEF IInv
  <2>3. Held' \in {2 * FrameCap - Len(frames') + 2, 2 * FrameCap - Len(frames') + 3}
    BY <1>1 DEF Held
  <2> HIDE DEF Held
  <2> QED
    BY <1>1, <1>2, <2>2, <2>3
<1>4. CASE PeekEnd
  <2>1. frames' = frames /\ ended' = TRUE
    BY <1>4 DEF PeekEnd
  <2>2. Held' = 2 * FrameCap - Len(frames) + 2
    BY <1>1, <2>1 DEF Held
  <2> HIDE DEF Held
  <2> QED
    BY <1>1, <1>2, <2>2
<1> QED
  BY <1>3, <1>4

\* The stream is judged: no more is held back than the cap allows.
LEMMA JudgeAdvances ==
  ASSUME IInv, Judge
  PROVE  Held' < Held
<1>1. /\ phase = "peek" /\ phase' \in {"rejected", "replay"} /\ frames' = frames
      /\ Len(frames) \in Nat /\ FrameCap \in Nat /\ Len(frames) <= FrameCap
  BY LenProperties, LookaheadAssumption DEF Judge, IInv
<1>2. Held \in {2 * FrameCap - Len(frames) + 2, 2 * FrameCap - Len(frames) + 3}
  BY <1>1 DEF Held
<1>3. Held' \in {0, Len(frames) + 1}
  BY <1>1 DEF Held
<1> HIDE DEF Held
<1> QED
  BY <1>1, <1>2, <1>3

\* A chunk that was held back goes out.
LEMMA ReplayAdvances ==
  ASSUME IInv, Replay
  PROVE  Held' < Held
<1>1. phase = "replay" /\ Len(frames) \in Nat
  BY LenProperties DEF Replay, IInv
<1>2. Held = Len(frames) + 1
  BY <1>1 DEF Held
<1>3. CASE frames # <<>> /\ frames' = Tail(frames) /\ phase' = phase
  <2>1. Len(frames') = Len(frames) - 1
    BY <1>3, HeadTailProperties DEF IInv
  <2>2. Held' = Len(frames') + 1
    BY <1>1, <1>3 DEF Held
  <2> HIDE DEF Held
  <2> QED
    BY <1>1, <1>2, <2>1, <2>2
<1>4. CASE phase' = "live"
  <2>1. Held' = 0
    BY <1>4 DEF Held
  <2> HIDE DEF Held
  <2> QED
    BY <1>1, <1>2, <2>1
<1> QED
  BY <1>3, <1>4 DEF Replay

\* A client waits no longer than 2 * FRAME_CAP + 3 steps for what is held back of a
\* stream, or for its rejection, for any window and every stream.
THEOREM HoldingBackIsShort == Spec => HoldingBackEnds /\ []HeldInBounds
<1>1. IInv /\ [Next]_vars => [(phase \in {"peek", "replay"}) => Held' < Held]_vars
  <2> SUFFICES ASSUME IInv, Next, phase \in {"peek", "replay"}
               PROVE  Held' < Held \/ UNCHANGED vars
    OBVIOUS
  <2> QED
    BY PeekAdvances, JudgeAdvances, ReplayAdvances DEF Next, LiveChunk, LiveEnd, Over
<1>2. Init => HeldInBounds
  <2> SUFFICES ASSUME Init PROVE HeldInBounds
    OBVIOUS
  <2>1. phase \in {"peek", "live"} /\ frames = <<>> /\ ended = FALSE /\ FrameCap \in Nat
    BY LookaheadAssumption DEF Init
  <2> QED
    BY <2>1 DEF HeldInBounds, Held
<1>3. IInv' /\ HeldInBounds /\ [(phase \in {"peek", "replay"}) => Held' < Held]_vars /\ [Next]_vars
        => HeldInBounds'
  <2> SUFFICES ASSUME IInv', HeldInBounds, [Next]_vars,
                      [(phase \in {"peek", "replay"}) => Held' < Held]_vars
               PROVE  HeldInBounds'
    OBVIOUS
  <2>1. CASE UNCHANGED vars
    <3>1. phase' = phase /\ frames' = frames /\ ended' = ended
      BY <2>1 DEF vars, parsed
    <3>2. Held' = Held
      BY <3>1 DEF Held
    <3> HIDE DEF Held
    <3> QED
      BY <3>2 DEF HeldInBounds
  <2>2. Held' \in Nat
    <3>1. FrameCap \in Nat /\ Len(frames') \in Nat /\ (phase' = "peek" => Len(frames') <= FrameCap)
      BY LookaheadAssumption, LenProperties DEF IInv
    <3> QED
      BY <3>1 DEF Held
  <2>3. CASE Next /\ phase \notin {"peek", "replay"}
    <3>1. phase' \notin {"peek", "replay"}
      BY <2>3 DEF Next, PeekChunk, PeekEnd, Judge, Replay, LiveChunk, LiveEnd, Over, vars
    <3> QED
      BY <3>1, LookaheadAssumption DEF HeldInBounds, Held
  <2>4. CASE Next /\ phase \in {"peek", "replay"} /\ ~UNCHANGED vars
    <3>1. Held' < Held
      BY <2>4
    <3>2. Held \in 0 .. 2 * FrameCap + 3 /\ FrameCap \in Nat
      BY LookaheadAssumption DEF HeldInBounds
    <3>3. Held' \in Nat
      BY <2>2
    <3> HIDE DEF Held
    <3>4. Held' \in 0 .. 2 * FrameCap + 3
      BY <3>1, <3>2, <3>3
    <3> QED
      BY <3>4 DEF HeldInBounds
  <2> QED
    BY <2>1, <2>3, <2>4
<1> QED
  BY <1>1, <1>2, <1>3, Invariance, PTL DEF Spec, HoldingBackEnds

-----------------------------------------------------------------------------
\* How far the upstream has come when it is over: to the end of its lines, unless
\* it broke; and what arrived of one that was over before the replay is what the
\* look-ahead read.
EndInv ==
  /\ up = "eof" => pos = Len(script)
  /\ phase \in {"peek", "replay"} => Len(got) = peeked
  /\ phase = "live" /\ up # "open" => Len(got) = peeked
  /\ phase = "closed" => pos = Len(script) \/ (up = "error" /\ Len(sent) = peeked)

\* Every step keeps what is known of the end.
LEMMA EndStep == IInv /\ TypeOK /\ EndInv /\ [Next]_vars => EndInv'
<1> SUFFICES ASSUME IInv, TypeOK, EndInv, [Next]_vars PROVE EndInv'
  OBVIOUS
<1>1. ASSUME NEW lines \in Chunks, PeekChunk(lines) PROVE EndInv'
  <2>1. /\ Arrive(lines) /\ phase = "peek" /\ phase' = "peek" /\ peeked' = peeked + 1
        /\ up = "open" /\ up' = "open"
    BY <1>1 DEF PeekChunk, Arrive
  <2>2. got' = Append(got, lines) /\ Len(got') = Len(got) + 1
    <3>1. lines \in Chunk /\ got' = Append(got, lines) /\ got \in Seq(Chunk)
      BY <2>1, ArriveType DEF IInv
    <3> QED
      BY <3>1, AppendProperties
  <2> QED
    BY <2>1, <2>2 DEF EndInv
<1>2. ASSUME NEW lines \in Chunks, LiveChunk(lines) PROVE EndInv'
  BY <1>2 DEF LiveChunk, Arrive, EndInv
<1>3. CASE PeekEnd
  BY <1>3 DEF PeekEnd, UpstreamEnds, EndInv
<1>4. CASE Judge
  BY <1>4 DEF Judge, EndInv
<1>5. CASE Replay
  BY <1>5 DEF Replay, EndInv
<1>6. CASE LiveEnd
  <2>1. phase = "live" /\ UNCHANGED <<script, pos, got, sent, peeked>>
    BY <1>6 DEF LiveEnd, UpstreamEnds
  <2>2. CASE UpstreamEnds /\ phase' = IF up' = "eof" THEN "closed" ELSE "failed"
    BY <2>1, <2>2 DEF UpstreamEnds, EndInv
  <2>3. CASE up # "open" /\ phase' = "closed" /\ up' = up
    <3>1. frames = <<>> /\ sent \o frames = got /\ sent \in Seq(Chunk)
      BY <2>1 DEF IInv
    <3>2. sent = got
      BY <3>1, ConcatEmptySeq
    <3>3. up \in {"eof", "error"}
      BY <2>3 DEF TypeOK
    <3> QED
      BY <2>1, <2>3, <3>2, <3>3 DEF EndInv
  <2> QED
    BY <1>6, <2>2, <2>3 DEF LiveEnd
<1>7. CASE UNCHANGED vars
  BY <1>7 DEF vars, EndInv
<1> QED
  BY <1>1, <1>2, <1>3, <1>4, <1>5, <1>6, <1>7 DEF Next, Over

\* A set of numbers that has 0 and, with a number, the next, has them all.
LEMMA SetInduction ==
  ASSUME NEW S, 0 \in S, \A n \in Nat : n \in S => n + 1 \in S
  PROVE  \A n \in Nat : n \in S
<1> SUFFICES ASSUME NEW n \in Nat, n \notin S PROVE FALSE
  OBVIOUS
<1> DEFINE R == OpToRel(<, Nat)
           T == Nat \ S
<1>1. T \subseteq Nat /\ T # {}
  OBVIOUS
<1>2. IsWellFoundedOn(R, Nat)
  BY NatLessThanWellFounded
<1> HIDE DEF R, T
<1>3. PICK m \in T : \A k \in T : ~ (<<k, m>> \in R)
  BY <1>1, <1>2, WFMin
<1>4. m \in Nat /\ m \notin S /\ m # 0
  BY <1>3 DEF T
<1>5. m - 1 \in Nat /\ m - 1 \notin S
  BY <1>4
<1>6. <<m - 1, m>> \in R
  BY <1>4, <1>5 DEF R, OpToRel
<1> QED
  BY <1>3, <1>5, <1>6 DEF T

\* f[i] is the text of the first i lines of s, for i up to n.
Runs(f, s, n) == f = [i \in 0 .. n |-> IF i = 0 THEN <<>> ELSE Carry(f[i - 1], s[i])]

\* The same, one value at a time.
LEMMA RunsIs ==
  ASSUME NEW f, NEW s, NEW n \in Nat
  PROVE  Runs(f, s, n) <=>
           /\ f = [i \in 0 .. n |-> f[i]]
           /\ f[0] = <<>>
           /\ \A i \in 1 .. n : f[i] = Carry(f[i - 1], s[i])
<1> DEFINE Step(i) == IF i = 0 THEN <<>> ELSE Carry(f[i - 1], s[i])
<1>1. Step(0) = <<>> /\ \A i \in 1 .. n : Step(i) = Carry(f[i - 1], s[i])
  OBVIOUS
<1>2. Runs(f, s, n) <=> f = [i \in 0 .. n |-> Step(i)]
  BY DEF Runs
<1> HIDE DEF Step
<1>3. ASSUME f = [i \in 0 .. n |-> Step(i)]
      PROVE  f = [i \in 0 .. n |-> f[i]] /\ \A i \in 0 .. n : f[i] = Step(i)
  BY <1>3, Zenon
<1>4. ASSUME f = [i \in 0 .. n |-> f[i]], \A i \in 0 .. n : f[i] = Step(i)
      PROVE  f = [i \in 0 .. n |-> Step(i)]
  <2>1. [i \in 0 .. n |-> f[i]] = [i \in 0 .. n |-> Step(i)]
    BY <1>4
  <2> QED
    BY <1>4, <2>1, Zenon
<1>5. 0 \in 0 .. n /\ \A i \in 0 .. n : i = 0 \/ i \in 1 .. n
  OBVIOUS
<1>6. 1 .. n \subseteq 0 .. n
  OBVIOUS
<1>7. (\A i \in 0 .. n : f[i] = Step(i)) <=>
        f[0] = <<>> /\ \A i \in 1 .. n : f[i] = Carry(f[i - 1], s[i])
  BY <1>1, <1>5, <1>6, Zenon
<1> QED
  BY <1>2, <1>3, <1>4, <1>7, Zenon

\* There is such an f for every length,
LEMMA RunsExists ==
  ASSUME NEW s, NEW n \in Nat
  PROVE  \E f : Runs(f, s, n)
<1> DEFINE S == {m \in Nat : \E f : Runs(f, s, m)}
<1>1. 0 \in S
  <2> DEFINE f == [i \in 0 .. 0 |-> <<>>]
  <2>1. f = [i \in 0 .. 0 |-> f[i]] /\ f[0] = <<>> /\ 1 .. 0 = {}
    OBVIOUS
  <2> HIDE DEF f
  <2> QED
    BY <2>1, RunsIs
<1>2. ASSUME NEW m \in Nat, m \in S PROVE m + 1 \in S
  <2>1. PICK f : Runs(f, s, m)
    BY <1>2
  <2> DEFINE x == Carry(f[m], s[m + 1])
             New(i) == IF i = m + 1 THEN x ELSE f[i]
             g == [i \in 0 .. m + 1 |-> New(i)]
  <2>2. f[0] = <<>> /\ \A i \in 1 .. m : f[i] = Carry(f[i - 1], s[i])
    BY <2>1, RunsIs
  <2>3. New(m + 1) = x /\ \A i \in 0 .. m : New(i) = f[i]
    OBVIOUS
  <2> HIDE DEF New
  <2>4. g = [i \in 0 .. m + 1 |-> g[i]] /\ \A i \in 0 .. m + 1 : g[i] = New(i)
    OBVIOUS
  <2> HIDE DEF g
  <2>5. g[0] = <<>> 
    BY <2>2, <2>3, <2>4
  <2>6. ASSUME NEW i \in 1 .. m + 1 PROVE g[i] = Carry(g[i - 1], s[i])
    <3>1. g[i - 1] = f[i - 1]
      BY <2>3, <2>4
    <3>2. CASE i = m + 1
      BY <3>1, <3>2, <2>3, <2>4
    <3>3. CASE i # m + 1
      <4>1. i \in 1 .. m
        BY <3>3
      <4>2. g[i] = f[i]
        BY <4>1, <2>3, <2>4
      <4> QED
        BY <4>1, <4>2, <3>1, <2>2
    <3> QED
      BY <3>2, <3>3
  <2>7. m + 1 \in Nat /\ g = [i \in 0 .. m + 1 |-> g[i]]
    BY <2>4
  <2>8. Runs(g, s, m + 1)
    BY <2>5, <2>6, <2>7, RunsIs
  <2> QED
    BY <2>7, <2>8
<1> HIDE DEF S
<1>3. n \in S
  BY <1>1, <1>2, SetInduction
<1> QED
  BY <1>3 DEF S

\* two of them agree as far as the sequences do,
LEMMA RunsAgree ==
  ASSUME NEW s, NEW r, NEW m \in Nat, NEW n \in Nat, NEW f, NEW g,
         m <= n, \A i \in 1 .. m : r[i] = s[i],
         Runs(f, s, m), Runs(g, r, n)
  PROVE  f[m] = g[m]
<1> DEFINE S == {i \in Nat : i <= m => f[i] = g[i]}
<1>1. f[0] = <<>> /\ \A i \in 1 .. m : f[i] = Carry(f[i - 1], s[i])
  BY RunsIs
<1>2. g[0] = <<>> /\ \A i \in 1 .. n : g[i] = Carry(g[i - 1], r[i])
  BY RunsIs
<1>3. 0 \in S
  BY <1>1, <1>2
<1>4. ASSUME NEW i \in Nat, i \in S PROVE i + 1 \in S
  <2>1. CASE i + 1 <= m
    <3>1. i + 1 \in 1 .. m /\ i + 1 \in 1 .. n /\ (i + 1) - 1 = i
      BY <2>1
    <3>2. f[i + 1] = Carry(f[i], s[i + 1]) /\ g[i + 1] = Carry(g[i], r[i + 1])
      BY <1>1, <1>2, <3>1
    <3>3. f[i] = g[i] /\ r[i + 1] = s[i + 1]
      BY <1>4, <2>1, <3>1
    <3> QED
      BY <3>2, <3>3
  <2> QED
    BY <2>1
<1> HIDE DEF S
<1>5. m \in S
  BY <1>3, <1>4, SetInduction
<1> QED
  BY <1>5 DEF S

\* and Payload is its last value.
LEMMA PayloadIs ==
  ASSUME NEW s, Len(s) \in Nat
  PROVE  \E f : Runs(f, s, Len(s)) /\ Payload(s) = f[Len(s)]
<1> DEFINE f == CHOOSE g : Runs(g, s, Len(s))
<1>1. Runs(f, s, Len(s))
  BY RunsExists
<1>2. Payload(s) = f[Len(s)]
  BY DEF Payload, Runs
<1> QED
  BY <1>1, <1>2

\* No lines, no text.
LEMMA PayloadNone == Payload(<<>>) = <<>>
<1>1. Len(<<>>) = 0
  OBVIOUS
<1>2. PICK f : Runs(f, <<>>, 0) /\ Payload(<<>>) = f[0]
  BY <1>1, PayloadIs
<1> QED
  BY <1>2, RunsIs

\* The one step of the recursion: what one more line adds.
LEMMA PayloadAppend ==
  ASSUME NEW S, NEW s \in Seq(S), NEW x \in S
  PROVE  Payload(Append(s, x)) = Carry(Payload(s), x)
<1> DEFINE r == Append(s, x)
           n == Len(s)
<1>1. /\ n \in Nat /\ Len(r) = n + 1 /\ r[n + 1] = x
      /\ \A i \in 1 .. n : r[i] = s[i]
  BY AppendProperties, LenProperties
<1>2. PICK f : Runs(f, s, n) /\ Payload(s) = f[n]
  BY <1>1, PayloadIs
<1>3. PICK g : Runs(g, r, n + 1) /\ Payload(r) = g[n + 1]
  <2> HIDE DEF r
  <2> QED
    BY <1>1, PayloadIs
<1> HIDE DEF r, n
<1>4. n <= n + 1
  BY <1>1
<1>5. f[n] = g[n]
  BY <1>1, <1>2, <1>3, <1>4, RunsAgree
<1>6. n + 1 \in 1 .. n + 1 /\ (n + 1) - 1 = n /\ n + 1 \in Nat
  BY <1>1
<1>7. g[n + 1] = Carry(g[(n + 1) - 1], r[n + 1])
  BY <1>3, <1>6, RunsIs
<1> QED
  BY <1>1, <1>2, <1>3, <1>5, <1>6, <1>7 DEF r

\* A set that has the empty sequence and, with a sequence, each that appends to it.
LEMMA SeqInduction ==
  ASSUME NEW S, NEW H, <<>> \in H, \A s \in Seq(S), x \in S : s \in H => Append(s, x) \in H
  PROVE  Seq(S) \subseteq H
<1> DEFINE N == {n \in Nat : \A s \in Seq(S) : Len(s) = n => s \in H}
<1>1. 0 \in N
  BY EmptySeq
<1>2. ASSUME NEW n \in Nat, n \in N PROVE n + 1 \in N
  <2>1. SUFFICES ASSUME NEW s \in Seq(S), Len(s) = n + 1 PROVE s \in H
    OBVIOUS
  <2>2. PICK r \in Seq(S), x \in S : s = Append(r, x)
    BY <2>1, SequenceEmptyOrAppend
  <2>3. Len(r) = n
    BY <2>1, <2>2, AppendProperties, LenProperties
  <2> QED
    BY <1>2, <2>2, <2>3
<1> HIDE DEF N
<1>3. \A n \in Nat : n \in N
  BY <1>1, <1>2, SetInduction
<1> QED
  BY <1>3, LenProperties DEF N


\* The text of typed lines is typed.
LEMMA PayloadType == \A s \in Seq(LineType) : Payload(s) \in Seq(Chars)
<1> DEFINE H == {s \in Seq(LineType) : Payload(s) \in Seq(Chars)}
<1>1. <<>> \in H
  BY PayloadNone, EmptySeq
<1>2. ASSUME NEW s \in Seq(LineType), NEW x \in LineType, s \in H PROVE Append(s, x) \in H
  <2>1. Payload(Append(s, x)) = Carry(Payload(s), x)
    BY PayloadAppend
  <2>2. Payload(s) \in Seq(Chars)
    BY <1>2
  <2> HIDE DEF H
  <2>3. Carry(Payload(s), x) \in Seq(Chars)
    <3>1. CASE x.line = "text"
      <4>1. x.data \in Chars
        BY <3>1 DEF LineType
      <4>2. Carry(Payload(s), x) = Append(Payload(s), x.data)
        BY <3>1 DEF Carry
      <4> QED
        BY <2>2, <4>1, <4>2, AppendProperties
    <3>2. CASE x.line # "text"
      BY <2>2, <3>2 DEF Carry
    <3> QED
      BY <3>1, <3>2
  <2>4. Append(s, x) \in Seq(LineType)
    BY AppendProperties
  <2> QED
    BY <2>1, <2>3, <2>4 DEF H
<1> HIDE DEF H
<1>3. Seq(LineType) \subseteq H
  BY <1>1, <1>2, SeqInduction
<1> QED
  BY <1>3 DEF H

\* Appending to the second of two sequences.
LEMMA AppendToConcat ==
  ASSUME NEW S, NEW s \in Seq(S), NEW t \in Seq(S), NEW x \in S
  PROVE  s \o Append(t, x) = Append(s \o t, x)
<1>1. Append(t, x) = t \o <<x>>
  BY AppendIsConcat
<1>2. s \o t \in Seq(S) /\ <<x>> \in Seq(S)
  BY ConcatProperties
<1>3. Append(s \o t, x) = (s \o t) \o <<x>>
  BY <1>2, AppendIsConcat
<1>4. (s \o t) \o <<x>> = s \o (t \o <<x>>)
  BY <1>2, ConcatAssociative
<1> QED
  BY <1>1, <1>3, <1>4

\* The text of a sequence cut in two.
LEMMA PayloadConcat ==
  ASSUME NEW s \in Seq(LineType)
  PROVE  \A r \in Seq(LineType) : Payload(s \o r) = Payload(s) \o Payload(r)
<1> DEFINE H == {r \in Seq(LineType) : Payload(s \o r) = Payload(s) \o Payload(r)}
<1>1. Payload(s) \in Seq(Chars)
  BY PayloadType
<1>2. <<>> \in H
  <2>1. s \o <<>> = s /\ Payload(s) \o <<>> = Payload(s)
    BY <1>1, ConcatEmptySeq
  <2>2. <<>> \in Seq(LineType)
    BY EmptySeq
  <2> QED
    BY <2>1, <2>2, PayloadNone
<1>3. ASSUME NEW r \in Seq(LineType), NEW x \in LineType, r \in H PROVE Append(r, x) \in H
  <2>1. s \o Append(r, x) = Append(s \o r, x) /\ s \o r \in Seq(LineType)
    BY AppendToConcat, ConcatProperties
  <2>2. /\ Payload(Append(s \o r, x)) = Carry(Payload(s \o r), x)
        /\ Payload(Append(r, x)) = Carry(Payload(r), x)
    BY <2>1, PayloadAppend
  <2>3. Payload(s \o r) = Payload(s) \o Payload(r) /\ Payload(r) \in Seq(Chars)
    BY <1>3, PayloadType
  <2> DEFINE a == Payload(s)
             b == Payload(r)
  <2>4. a \in Seq(Chars) /\ b \in Seq(Chars)
    BY <1>1, <2>3
  <2>5. Carry(a \o b, x) = a \o Carry(b, x)
    <3> HIDE DEF a, b, H
    <3>1. CASE x.line = "text"
      <4>1. x.data \in Chars
        BY <3>1 DEF LineType
      <4>2. a \o Append(b, x.data) = Append(a \o b, x.data)
        BY <2>4, <4>1, AppendToConcat
      <4> QED
        BY <3>1, <4>2 DEF Carry
    <3>2. CASE x.line # "text"
      BY <3>2 DEF Carry
    <3> QED
      BY <3>1, <3>2
  <2>6. Append(r, x) \in Seq(LineType)
    BY AppendProperties
  <2> QED
    BY <2>1, <2>2, <2>3, <2>5, <2>6
<1> HIDE DEF H
<1>4. Seq(LineType) \subseteq H
  BY <1>2, <1>3, SeqInduction
<1> QED
  BY <1>4 DEF H

\* Lines of which none is a text line carry no text.
LEMMA PayloadQuiet ==
  ASSUME NEW s \in Seq(LineType), \A i \in 1 .. Len(s) : s[i].line # "text"
  PROVE  Payload(s) = <<>>
<1> DEFINE n == Len(s)
<1>1. n \in Nat
  BY LenProperties
<1>2. PICK f : Runs(f, s, n) /\ Payload(s) = f[n]
  BY <1>1, PayloadIs
<1> DEFINE S == {i \in Nat : i <= n => f[i] = <<>>}
<1> HIDE DEF n
<1>3. f[0] = <<>> /\ \A i \in 1 .. n : f[i] = Carry(f[i - 1], s[i])
  BY <1>1, <1>2, RunsIs
<1>4. 0 \in S
  BY <1>3
<1>5. ASSUME NEW i \in Nat, i \in S PROVE i + 1 \in S
  <2>1. CASE i + 1 <= n
    <3>1. i + 1 \in 1 .. n /\ (i + 1) - 1 = i /\ f[i] = <<>>
      BY <1>1, <1>5, <2>1
    <3>2. f[i + 1] = Carry(f[i], s[i + 1])
      BY <1>3, <3>1
    <3>3. s[i + 1].line # "text"
      BY <3>1 DEF n
    <3> QED
      BY <3>1, <3>2, <3>3 DEF Carry
  <2> QED
    BY <2>1
<1> HIDE DEF S
<1>6. n \in S
  BY <1>1, <1>4, <1>5, SetInduction
<1> QED
  BY <1>1, <1>2, <1>6 DEF S

-----------------------------------------------------------------------------
\* The least and the greatest of some indices.
LEMMA LeastOf ==
  ASSUME NEW T, T \subseteq Nat, T # {}
  PROVE  \E x \in T : \A y \in T : x <= y
<1> DEFINE R == OpToRel(<, Nat)
<1>1. IsWellFoundedOn(R, Nat)
  BY NatLessThanWellFounded
<1> HIDE DEF R
<1>2. PICK x \in T : \A y \in T : ~ (<<y, x>> \in R)
  BY <1>1, WFMin
<1>3. ASSUME NEW y \in T PROVE x <= y
  <2>1. x \in Nat /\ y \in Nat /\ ~ (<<y, x>> \in R)
    BY <1>2
  <2>2. ~ (y < x)
    BY <2>1 DEF R, OpToRel
  <2> QED
    BY <2>1, <2>2
<1> QED
  BY <1>3

LEMMA MinMaxOf ==
  ASSUME NEW n \in Nat, NEW T, T \subseteq 1 .. n, T # {}
  PROVE  /\ Min(T) \in T /\ \A y \in T : Min(T) <= y
         /\ Max(T) \in T /\ \A y \in T : y <= Max(T)
<1> DEFINE U == {n - i : i \in T}
<1>1. T \subseteq Nat /\ U \subseteq Nat /\ U # {}
  OBVIOUS
<1>2. \E x \in T : \A y \in T : x <= y
  BY <1>1, LeastOf
<1>3. PICK u \in U : \A v \in U : u <= v
  <2> HIDE DEF U
  <2> QED
    BY <1>1, LeastOf
<1>4. PICK i \in T : u = n - i
  BY <1>3
<1>5. ASSUME NEW y \in T PROVE i >= y
  <2>1. n - y \in U
    OBVIOUS
  <2>2. n - i <= n - y
    BY <1>3, <1>4, <2>1
  <2>3. i \in Nat /\ y \in Nat
    BY <1>1
  <2> QED
    BY <2>2, <2>3
<1> HIDE DEF U
<1>6. Min(T) \in T /\ \A y \in T : Min(T) <= y
  BY <1>2, Zenon DEF Min
<1>7. Max(T) \in T /\ \A y \in T : Max(T) >= y
  <2>1. \E x \in T : \A y \in T : x >= y
    BY <1>5
  <2> QED
    BY <2>1, Zenon DEF Max
<1>8. \A y \in T : y <= Max(T)
  BY <1>1, <1>7
<1> QED
  BY <1>6, <1>7, <1>8

-----------------------------------------------------------------------------
\* What is refused stays refused however the text goes on,
LEMMA RefusesPrefix ==
  ASSUME NEW t, NEW u, Len(t) \in Nat, Len(u) \in Nat, Len(t) <= Len(u),
         \A i \in 1 .. Len(t) : u[i] = t[i], Refuses(t)
  PROVE  Refuses(u)
<1>1. PICK i \in 1 .. Len(t) - 1 : t[i] = "r1" /\ t[i + 1] = "r2"
  BY DEF Refuses
<1>2. i \in 1 .. Len(t) /\ i + 1 \in 1 .. Len(t) /\ i \in 1 .. Len(u) - 1
  BY <1>1
<1>3. u[i] = t[i] /\ u[i + 1] = t[i + 1]
  BY <1>2
<1> QED
  BY <1>1, <1>2, <1>3 DEF Refuses

\* and the blanks around a text do not matter.
LEMMA TrimIs ==
  ASSUME NEW t \in Seq(Chars)
  PROVE  /\ Trim(t) \in Seq(Chars) /\ Len(Trim(t)) <= Len(t)
         /\ Refuses(Trim(t)) <=> Refuses(t)
<1> DEFINE visible == {i \in DOMAIN t : t[i] # "_"}
           n == Len(t)
<1>1. n \in Nat /\ DOMAIN t = 1 .. n /\ \A i \in 1 .. n : t[i] \in Chars
  BY LenProperties, ElementOfSeq
<1>2. CASE visible = {}
  <2>1. Trim(t) = <<>>
    BY <1>2 DEF Trim
  <2>2. \A i \in 1 .. n : t[i] = "_"
    BY <1>1, <1>2
  <2>3. ~ Refuses(t)
    <3>1. SUFFICES ASSUME NEW i \in 1 .. n - 1, t[i] = "r1" PROVE FALSE
      BY DEF Refuses
    <3>2. i \in 1 .. n
      BY <1>1
    <3> QED
      BY <2>2, <3>1, <3>2
  <2>4. <<>> \in Seq(Chars) /\ Len(<<>>) = 0 /\ ~ Refuses(<<>>)
    <3>1. Len(<<>>) = 0 /\ 1 .. 0 - 1 = {}
      OBVIOUS
    <3> QED
      BY <3>1, EmptySeq DEF Refuses
  <2> QED
    BY <1>1, <2>1, <2>3, <2>4
<1>3. CASE visible # {}
  <2> DEFINE a == Min(visible)
             b == Max(visible)
             r == SubSeq(t, a, b)
  <2>1. Trim(t) = r
    BY <1>3 DEF Trim
  <2>2. visible \subseteq 1 .. n
    BY <1>1
  <2>3. \A i \in visible : i \in 1 .. n /\ t[i] # "_"
    BY <1>1
  <2>4. \A i \in 1 .. n : t[i] # "_" => i \in visible
    BY <1>1
  <2> HIDE DEF visible
  <2>5. a \in visible /\ b \in visible /\ \A i \in visible : a <= i /\ i <= b
    BY <1>1, <1>3, <2>2, MinMaxOf
  <2> HIDE DEF a, b
  <2>6. a \in 1 .. n /\ b \in 1 .. n /\ a <= b
    BY <2>3, <2>5
  <2>7. /\ r \in Seq(Chars) /\ Len(r) = b - a + 1
        /\ \A i \in 1 .. b - a + 1 : r[i] = t[a + i - 1]
    <3>1. \A i \in a .. b : t[i] \in Chars
      BY <1>1, <2>6
    <3>2. a \in Int /\ b \in Int
      BY <1>1, <2>6
    <3> QED
      BY <2>6, <3>1, <3>2, SubSeqProperties
  <2> HIDE DEF r
  <2>8. ASSUME Refuses(r) PROVE Refuses(t)
    <3>1. PICK i \in 1 .. Len(r) - 1 : r[i] = "r1" /\ r[i + 1] = "r2"
      BY <2>8 DEF Refuses
    <3>2. i \in 1 .. b - a + 1 /\ i + 1 \in 1 .. b - a + 1 /\ (a + i - 1) + 1 = a + (i + 1) - 1
          /\ a + i - 1 \in 1 .. n - 1
      BY <1>1, <2>6, <2>7, <3>1
    <3>3. r[i] = t[a + i - 1] /\ r[i + 1] = t[(a + i - 1) + 1]
      BY <2>7, <3>2
    <3> QED
      BY <3>1, <3>2, <3>3 DEF Refuses
  <2>9. ASSUME Refuses(t) PROVE Refuses(r)
    <3>1. PICK i \in 1 .. n - 1 : t[i] = "r1" /\ t[i + 1] = "r2"
      BY <2>9 DEF Refuses
    <3>2. i \in 1 .. n /\ i + 1 \in 1 .. n
      BY <1>1, <3>1
    <3>3. i \in visible /\ i + 1 \in visible
      BY <2>4, <3>1, <3>2
    <3>4. a <= i /\ i + 1 <= b
      BY <2>5, <3>3
    <3> DEFINE k == i - a + 1
    <3>5. k \in 1 .. b - a /\ k \in 1 .. b - a + 1 /\ k + 1 \in 1 .. b - a + 1
          /\ a + k - 1 = i /\ a + (k + 1) - 1 = i + 1
      BY <1>1, <2>6, <3>2, <3>4
    <3> HIDE DEF k
    <3>6. r[k] = t[i] /\ r[k + 1] = t[i + 1]
      BY <2>7, <3>5
    <3>7. k \in 1 .. Len(r) - 1
      BY <2>6, <2>7, <3>5
    <3> QED
      BY <3>1, <3>6, <3>7 DEF Refuses
  <2>10. Len(r) <= n
    BY <1>1, <2>6, <2>7
  <2> QED
    BY <2>1, <2>7, <2>8, <2>9, <2>10
<1> QED
  BY <1>2, <1>3

\* The one finish_reason of some lines.
LEMMA FinishIs ==
  ASSUME NEW s, NEW before, NEW n \in Nat, DOMAIN s = 1 .. n,
         NEW i \in 1 .. n, s[i].line = "finish",
         \A j \in 1 .. n : s[j].line = "finish" => j = i
  PROVE  FinishOf(s, before) = s[i].data
<1> DEFINE reasons == {j \in DOMAIN s : s[j].line = "finish"}
<1>1. reasons = {i}
  OBVIOUS
<1>2. FinishOf(s, before) = IF reasons = {} THEN before ELSE s[Max(reasons)].data
  BY DEF FinishOf
<1> HIDE DEF reasons
<1>3. reasons \subseteq 1 .. n /\ reasons # {}
  BY <1>1
<1>4. Max(reasons) \in reasons
  BY <1>3, MinMaxOf
<1>5. Max(reasons) = i
  BY <1>1, <1>4
<1> QED
  BY <1>2, <1>3, <1>5

\* No finish_reason, no change.
LEMMA FinishNone ==
  ASSUME NEW s, NEW before, NEW n \in Nat, DOMAIN s = 1 .. n,
         \A j \in 1 .. n : s[j].line # "finish"
  PROVE  FinishOf(s, before) = before
  BY DEF FinishOf

\* A well-formed answer has one finish_reason at most.
LEMMA OneFinish ==
  ASSUME NEW s, NEW n \in Nat, Len(s) = n, DOMAIN s = 1 .. n, WellFormed(s),
         NEW i \in 1 .. n, s[i].line = "finish"
  PROVE  \A j \in 1 .. n : s[j].line = "finish" => j = i
<1>1. \A k \in 1 .. n : s[k].line = "finish" => \A j \in k + 1 .. n : s[j].line \notin {"text", "finish"}
  BY DEF WellFormed
<1>2. ASSUME NEW j \in 1 .. n, s[j].line = "finish", j # i PROVE FALSE
  <2>1. j \in i + 1 .. n \/ i \in j + 1 .. n
    BY <1>2
  <2> QED
    BY <1>1, <1>2, <2>1
<1> QED
  BY <1>2

-----------------------------------------------------------------------------
\* Every step keeps the types.
LEMMA TypeStep == IInv /\ TypeOK /\ [Next]_vars => TypeOK'
<1> SUFFICES ASSUME IInv, TypeOK, [Next]_vars PROVE TypeOK'
  OBVIOUS
<1>0. pos' \in 0 .. Len(script')
  BY NextIInv DEF IInv
<1>1. ASSUME NEW lines \in Chunks, PeekChunk(lines) PROVE TypeOK'
  <2>1. lines \in Seq(LineType)
    BY <1>1, ArriveType DEF PeekChunk, Chunk
  <2>2. /\ text' = text \o Payload(lines) /\ finish' = FinishOf(lines, finish)
        /\ tools' = (tools \/ Has(lines, "tool")) /\ ended' = Has(lines, "done")
        /\ peeked' = peeked + 1 /\ UNCHANGED <<esc, script, up, phase>>
    BY <1>1 DEF PeekChunk, Arrive
  <2>3. text' \in Seq(Chars)
    <3>1. Payload(lines) \in Seq(Chars) /\ text \in Seq(Chars)
      BY <2>1, PayloadType DEF TypeOK
    <3> QED
      BY <2>2, <3>1, ConcatProperties
  <2>4. finish' \in Reasons \cup {NoFinish}
    <3> DEFINE reasons == {i \in DOMAIN lines : lines[i].line = "finish"}
               n == Len(lines)
    <3>1. n \in Nat /\ DOMAIN lines = 1 .. n
      BY <2>1, LenProperties
    <3>2. CASE reasons = {}
      <4>1. finish' = finish
        BY <2>2, <3>2 DEF FinishOf
      <4> QED
        BY <4>1 DEF TypeOK
    <3>3. CASE reasons # {}
      <4>1. finish' = lines[Max(reasons)].data
        BY <2>2, <3>3 DEF FinishOf
      <4>2. reasons \subseteq 1 .. n
        BY <3>1
      <4>3. \A i \in reasons : lines[i] \in LineType /\ lines[i].line = "finish"
        BY <2>1, <3>1, ElementOfSeq
      <4> HIDE DEF reasons
      <4>4. Max(reasons) \in reasons
        BY <3>1, <3>3, <4>2, MinMaxOf
      <4>5. \A l \in LineType : l.line = "finish" => l.data \in Reasons
        BY DEF LineType
      <4> QED
        BY <4>1, <4>3, <4>4, <4>5
    <3> QED
      BY <3>2, <3>3
  <2>5. tools' \in BOOLEAN /\ ended' \in BOOLEAN
    BY <2>2 DEF Has, TypeOK
  <2> QED
    BY <1>0, <2>2, <2>3, <2>4, <2>5 DEF TypeOK
<1>2. ASSUME NEW lines \in Chunks, LiveChunk(lines) PROVE TypeOK'
  BY <1>0, <1>2 DEF LiveChunk, Arrive, parsed, TypeOK
<1>3. CASE PeekEnd
  BY <1>0, <1>3 DEF PeekEnd, UpstreamEnds, TypeOK
<1>4. CASE Judge
  BY <1>0, <1>4 DEF Judge, parsed, TypeOK, Phases
<1>5. CASE Replay
  BY <1>0, <1>5 DEF Replay, parsed, TypeOK, Phases
<1>6. CASE LiveEnd
  <2>1. phase' \in Phases /\ up' \in {"open", "eof", "error"}
    BY <1>6 DEF LiveEnd, UpstreamEnds, TypeOK, Phases
  <2>2. UNCHANGED <<esc, script, parsed, peeked>>
    BY <1>6 DEF LiveEnd, UpstreamEnds
  <2> QED
    BY <1>0, <2>1, <2>2 DEF parsed, TypeOK
<1>7. CASE UNCHANGED vars
  BY <1>7 DEF vars, parsed, TypeOK
<1> QED
  BY <1>1, <1>2, <1>3, <1>4, <1>5, <1>6, <1>7 DEF Next, Over

\* What was parsed of the chunks is text, a finish_reason and two flags.
THEOREM TypeCorrect == Spec => []TypeOK
<1>1. Init => TypeOK
  <2> SUFFICES ASSUME Init PROVE TypeOK
    OBVIOUS
  <2>1. script \in Seq(LineType) /\ Len(script) \in Nat
    BY LookaheadAssumption, LenProperties DEF Init
  <2>2. <<>> \in Seq(Chars)
    BY EmptySeq
  <2>3. esc \in Escs /\ script \in Scripts /\ pos \in 0 .. Len(script) /\ peeked \in Nat
    BY <2>1 DEF Init
  <2>4. up \in {"open", "eof", "error"} /\ phase \in Phases /\ tools \in BOOLEAN /\ ended \in BOOLEAN
    BY DEF Init, Phases
  <2>5. text \in Seq(Chars) /\ finish \in Reasons \cup {NoFinish}
    BY <2>2 DEF Init
  <2> QED
    BY <2>3, <2>4, <2>5 DEF TypeOK
<1> QED
  BY <1>1, TypeStep, Invariance, PTL DEF Spec

-----------------------------------------------------------------------------
Rest == SubSeq(script, pos + 1, Len(script))
Arrived(kind) == \E i \in 1 .. pos : script[i].line = kind

\* While the look-ahead reads, the text it has and the text to come are the
\* answer's, its finish_reason and its tool flag are those of the lines that
\* arrived, and it has seen the end only if all of them did or the upstream broke.
WindowInv ==
  phase = "peek" =>
    /\ Payload(script) = text \o Payload(Rest)
    /\ finish = NoFinish => ~ Arrived("finish")
    /\ finish # NoFinish => \E i \in 1 .. pos : script[i].line = "finish" /\ script[i].data = finish
    /\ tools <=> Arrived("tool")
    /\ ended => pos = Len(script) \/ up = "error"
    /\ up = "error" => ended
    /\ up = "eof" => pos = Len(script)

\* A chunk that arrives is the next piece of the script.
LEMMA ArriveLines ==
  ASSUME IInv, NEW lines \in Chunks, Arrive(lines)
  PROVE  \E n \in 0 .. Len(script) - pos :
           /\ lines = SubSeq(script, pos + 1, pos + n) /\ lines \in Seq(LineType)
           /\ Len(lines) = n /\ DOMAIN lines = 1 .. n /\ pos' = pos + n /\ script' = script
           /\ \A k \in 1 .. n : lines[k] = script[pos + k]
<1>1. PICK n \in 0 .. Len(script) - pos : lines = SubSeq(script, pos + 1, pos + n)
  BY DEF Chunks
<1>2. script \in Seq(LineType) /\ Len(script) \in Nat /\ pos \in 0 .. Len(script)
  BY LenProperties DEF IInv
<1>3. \A i \in pos + 1 .. pos + n : script[i] \in LineType
  <2>1. \A i \in pos + 1 .. pos + n : i \in 1 .. Len(script)
    BY <1>1, <1>2
  <2> QED
    BY <1>2, <2>1, ElementOfSeq
<1>4. pos + 1 \in Int /\ pos + n \in Int
  BY <1>1, <1>2
<1>5. /\ SubSeq(script, pos + 1, pos + n) \in Seq(LineType)
      /\ Len(SubSeq(script, pos + 1, pos + n)) =
           IF pos + 1 <= pos + n THEN (pos + n) - (pos + 1) + 1 ELSE 0
      /\ \A k \in 1 .. (pos + n) - (pos + 1) + 1 :
           SubSeq(script, pos + 1, pos + n)[k] = script[(pos + 1) + k - 1]
  BY <1>3, <1>4, SubSeqProperties
<1>6. lines \in Seq(LineType) /\ Len(lines) = n
  BY <1>1, <1>2, <1>5
<1>7. \A k \in 1 .. n : lines[k] = script[pos + k]
  <2>1. TAKE k \in 1 .. n
  <2>2. k \in 1 .. (pos + n) - (pos + 1) + 1 /\ (pos + 1) + k - 1 = pos + k
    BY <1>1, <1>2
  <2>3. SubSeq(script, pos + 1, pos + n)[k] = script[(pos + 1) + k - 1]
    BY <1>5, <2>2
  <2> QED
    BY <1>1, <2>2, <2>3
<1>8. DOMAIN lines = 1 .. n
  BY <1>6, LenProperties
<1> QED
  BY <1>1, <1>6, <1>7, <1>8 DEF Arrive

\* The window's invariant survives a chunk: the text grows by the chunk's,
LEMMA ReadText ==
  ASSUME IInv, TypeOK, WindowInv, NEW lines \in Chunks, PeekChunk(lines)
  PROVE  Payload(script') = text' \o Payload(Rest')
<1>0. Arrive(lines) /\ text' = text \o Payload(lines) /\ phase = "peek"
  BY DEF PeekChunk
<1>1. PICK n \in 0 .. Len(script) - pos :
        /\ lines = SubSeq(script, pos + 1, pos + n) /\ lines \in Seq(LineType)
        /\ pos' = pos + n /\ script' = script
  BY <1>0, ArriveLines
<1>2. script \in Seq(LineType) /\ Len(script) \in Nat /\ pos \in 0 .. Len(script)
  BY LenProperties DEF IInv
<1> DEFINE rest == SubSeq(script, (pos + n) + 1, Len(script))
<1>3. lines \o rest = SubSeq(script, pos + 1, Len(script))
  <2>1. pos + 1 \in 1 .. Len(script) + 1 /\ pos + n \in (pos + 1) - 1 .. Len(script)
        /\ Len(script) \in pos + n .. Len(script)
    BY <1>1, <1>2
  <2>2. SubSeq(script, pos + 1, pos + n) \o SubSeq(script, (pos + n) + 1, Len(script))
          = SubSeq(script, pos + 1, Len(script))
    BY <1>2, <2>1, ConcatAdjacentSubSeq
  <2> QED
    BY <1>1, <2>2
<1>4. rest \in Seq(LineType)
  <2>1. \A i \in (pos + n) + 1 .. Len(script) : i \in 1 .. Len(script)
    BY <1>1, <1>2
  <2>2. \A i \in (pos + n) + 1 .. Len(script) : script[i] \in LineType
    BY <1>2, <2>1, ElementOfSeq
  <2>3. (pos + n) + 1 \in Int /\ Len(script) \in Int
    BY <1>1, <1>2
  <2> QED
    BY <2>2, <2>3, SubSeqProperties
<1>5. Rest' = rest /\ Rest = lines \o rest
  BY <1>1, <1>3 DEF Rest
<1> HIDE DEF rest
<1>6. Payload(script) = text \o Payload(lines \o rest)
  BY <1>0, <1>5 DEF WindowInv
<1>7. Payload(lines \o rest) = Payload(lines) \o Payload(rest)
  BY <1>1, <1>4, PayloadConcat
<1>8. text \in Seq(Chars) /\ Payload(lines) \in Seq(Chars) /\ Payload(rest) \in Seq(Chars)
  BY <1>1, <1>4, PayloadType DEF TypeOK
<1>9. (text \o Payload(lines)) \o Payload(rest) = text \o (Payload(lines) \o Payload(rest))
  BY <1>8, ConcatAssociative
<1> QED
  BY <1>0, <1>1, <1>5, <1>6, <1>7, <1>9

\* and the finish_reason, the tool flag and the end are those of what arrived.
LEMMA ReadFlags ==
  ASSUME IInv, TypeOK, WindowInv, NEW lines \in Chunks, PeekChunk(lines)
  PROVE  /\ finish' = NoFinish => ~ Arrived("finish")'
         /\ finish' # NoFinish =>
              \E i \in 1 .. pos' : script'[i].line = "finish" /\ script'[i].data = finish'
         /\ tools' <=> Arrived("tool")'
         /\ ended' => pos' = Len(script')
<1>0. /\ Arrive(lines) /\ phase = "peek" /\ finish = NoFinish
      /\ finish' = FinishOf(lines, finish) /\ ended' = Has(lines, "done")
      /\ tools' = (tools \/ Has(lines, "tool"))
  BY DEF PeekChunk, Window
<1>1. PICK n \in 0 .. Len(script) - pos :
        /\ lines \in Seq(LineType) /\ DOMAIN lines = 1 .. n
        /\ pos' = pos + n /\ script' = script
        /\ \A k \in 1 .. n : lines[k] = script[pos + k]
  BY <1>0, ArriveLines
<1>2. script \in Seq(LineType) /\ Len(script) \in Nat /\ pos \in 0 .. Len(script)
  BY LenProperties DEF IInv
<1>3. WellFormed(script) /\ DOMAIN script = 1 .. Len(script)
  BY <1>2, StreamAssumption, LenProperties DEF TypeOK
<1>4. ASSUME NEW i \in 1 .. pos + n
      PROVE  i \in 1 .. pos \/ \E k \in 1 .. n : i = pos + k
  <2>1. i > pos => i - pos \in 1 .. n /\ i = pos + (i - pos)
    BY <1>1, <1>2
  <2>2. i \in 1 .. pos \/ i > pos
    BY <1>1, <1>2
  <2> QED
    BY <2>1, <2>2
<1>5. ASSUME NEW k \in 1 .. n
      PROVE  pos + k \in 1 .. pos + n /\ pos + k \in 1 .. Len(script)
  BY <1>1, <1>2
<1>6. \A i \in 1 .. pos : i \in 1 .. pos + n
  BY <1>1, <1>2
<1>7. ~ Arrived("finish") /\ (tools <=> Arrived("tool"))
  BY <1>0 DEF WindowInv
<1>8. ASSUME finish' = NoFinish PROVE ~ Arrived("finish")'
  <2>1. ASSUME NEW k \in 1 .. n, lines[k].line = "finish" PROVE FALSE
    <3>1. lines[k] \in LineType
      BY <1>1, <2>1, ElementOfSeq
    <3>2. lines[k].data \in Reasons
      BY <2>1, <3>1 DEF LineType
    <3>3. \A j \in 1 .. n : lines[j].line = "finish" => j = k
      <4>1. TAKE j \in 1 .. n
      <4>2. HAVE lines[j].line = "finish"
      <4>3. script[pos + k].line = "finish" /\ script[pos + j].line = "finish"
        BY <1>1, <2>1, <4>2
      <4>4. pos + k \in 1 .. Len(script) /\ pos + j \in 1 .. Len(script)
        BY <1>5, <2>1
      <4>5. pos + j = pos + k
        BY <1>2, <1>3, <4>3, <4>4, OneFinish
      <4> QED
        BY <1>1, <1>2, <4>5
    <3>4. finish' = lines[k].data
      BY <1>0, <1>1, <2>1, <3>3, FinishIs
    <3> QED
      BY <1>8, <3>2, <3>4 DEF Reasons, NoFinish
  <2>2. ASSUME NEW i \in 1 .. pos + n, script[i].line = "finish" PROVE FALSE
    <3>1. CASE i \in 1 .. pos
      BY <1>7, <2>2, <3>1 DEF Arrived
    <3>2. CASE \E k \in 1 .. n : i = pos + k
      BY <1>1, <2>1, <2>2, <3>2
    <3> QED
      BY <1>4, <2>2, <3>1, <3>2
  <2> QED
    BY <1>1, <2>2 DEF Arrived
<1>9. ASSUME finish' # NoFinish
      PROVE  \E i \in 1 .. pos' : script'[i].line = "finish" /\ script'[i].data = finish'
  <2>1. PICK k \in 1 .. n : lines[k].line = "finish"
    <3>1. SUFFICES ASSUME \A k \in 1 .. n : lines[k].line # "finish" PROVE FALSE
      OBVIOUS
    <3>2. finish' = finish
      BY <1>0, <1>1, <3>1, FinishNone
    <3> QED
      BY <1>0, <1>9, <3>2
  <2>2. \A j \in 1 .. n : lines[j].line = "finish" => j = k
    <3>1. TAKE j \in 1 .. n
    <3>2. HAVE lines[j].line = "finish"
    <3>3. script[pos + k].line = "finish" /\ script[pos + j].line = "finish"
      BY <1>1, <2>1, <3>2
    <3>4. pos + k \in 1 .. Len(script) /\ pos + j \in 1 .. Len(script)
      BY <1>5
    <3>5. pos + j = pos + k
      BY <1>2, <1>3, <3>3, <3>4, OneFinish
    <3> QED
      BY <1>1, <1>2, <3>5
  <2>3. finish' = lines[k].data
    BY <1>0, <1>1, <2>1, <2>2, FinishIs
  <2>4. pos + k \in 1 .. pos' /\ script'[pos + k] = lines[k]
    BY <1>1, <1>5
  <2> QED
    BY <2>1, <2>3, <2>4
<1>10. tools' <=> Arrived("tool")'
  <2>1. Arrived("tool")' <=> \E i \in 1 .. pos + n : script[i].line = "tool"
    BY <1>1 DEF Arrived
  <2>2. Has(lines, "tool") <=> \E k \in 1 .. n : script[pos + k].line = "tool"
    BY <1>1 DEF Has
  <2>3. Arrived("tool") <=> \E i \in 1 .. pos : script[i].line = "tool"
    BY DEF Arrived
  <2>4. (\E i \in 1 .. pos + n : script[i].line = "tool") <=>
          \/ \E i \in 1 .. pos : script[i].line = "tool"
          \/ \E k \in 1 .. n : script[pos + k].line = "tool"
    BY <1>4, <1>5, <1>6
  <2> QED
    BY <1>0, <1>7, <2>1, <2>2, <2>3, <2>4
<1>11. ASSUME ended' PROVE pos' = Len(script')
  <2>1. PICK k \in 1 .. n : lines[k].line = "done"
    BY <1>0, <1>1, <1>11 DEF Has
  <2>2. pos + k \in 1 .. Len(script) /\ script[pos + k].line = "done"
    BY <1>1, <1>5, <2>1
  <2>3. pos + k = Len(script)
    BY <1>3, <2>2 DEF WellFormed
  <2> QED
    BY <1>1, <1>2, <2>1, <2>3
<1> QED
  BY <1>8, <1>9, <1>10, <1>11

LEMMA WindowStep == IInv /\ TypeOK /\ WindowInv /\ [Next]_vars => WindowInv'
<1> SUFFICES ASSUME IInv, TypeOK, WindowInv, [Next]_vars PROVE WindowInv'
  OBVIOUS
<1>1. ASSUME NEW lines \in Chunks, PeekChunk(lines) PROVE WindowInv'
  <2>1. Payload(script') = text' \o Payload(Rest')
    BY <1>1, ReadText
  <2>2. /\ finish' = NoFinish => ~ Arrived("finish")'
        /\ finish' # NoFinish =>
              \E i \in 1 .. pos' : script'[i].line = "finish" /\ script'[i].data = finish'
        /\ tools' <=> Arrived("tool")'
        /\ ended' => pos' = Len(script')
    BY <1>1, ReadFlags
  <2>3. up' = "open"
    BY <1>1 DEF PeekChunk, Arrive
  <2> QED
    BY <2>1, <2>2, <2>3 DEF WindowInv
<1>2. ASSUME NEW lines \in Chunks, LiveChunk(lines) PROVE WindowInv'
  BY <1>2 DEF LiveChunk, WindowInv
<1>3. CASE PeekEnd
  <2>1. /\ UNCHANGED <<script, pos, text, finish, tools>> /\ ended' = TRUE
        /\ (pos = Len(script) /\ up' = "eof") \/ up' = "error"
        /\ phase = "peek"
    BY <1>3 DEF PeekEnd, UpstreamEnds
  <2> QED
    BY <2>1 DEF WindowInv, Rest, Arrived
<1>4. CASE Judge
  BY <1>4 DEF Judge, WindowInv
<1>5. CASE Replay
  BY <1>5 DEF Replay, WindowInv
<1>6. CASE LiveEnd
  BY <1>6 DEF LiveEnd, WindowInv
<1>7. CASE UNCHANGED vars
  BY <1>7 DEF vars, parsed, WindowInv, Rest, Arrived
<1> QED
  BY <1>1, <1>2, <1>3, <1>4, <1>5, <1>6, <1>7 DEF Next, Over

-----------------------------------------------------------------------------
\* What the window shows of an answer that arrived, or that the upstream did not
\* break off: the text begins the answer's, the finish_reason is the answer's, and
\* behind the end or behind a finish_reason there is no more text.
LEMMA Shown ==
  ASSUME IInv, TypeOK, WindowInv, phase = "peek", up # "error"
  PROVE  /\ Payload(script) \in Seq(Chars) /\ Len(Payload(script)) \in Nat
         /\ Len(text) \in Nat /\ Len(text) <= Len(Payload(script))
         /\ \A i \in 1 .. Len(text) : Payload(script)[i] = text[i]
         /\ finish # NoFinish => FinishOf(script, NoFinish) = finish
         /\ finish = NoFinish /\ ended => FinishOf(script, NoFinish) = NoFinish
         /\ ended \/ finish # NoFinish => text = Payload(script)
         /\ ended => (tools <=> Has(script, "tool"))
<1> DEFINE n == Len(script)
           all == Payload(script)
           rest == Payload(Rest)
<1>1. /\ script \in Seq(LineType) /\ n \in Nat /\ pos \in 0 .. n /\ WellFormed(script)
      /\ DOMAIN script = 1 .. n
  BY StreamAssumption, LenProperties DEF IInv, TypeOK
<1>2. /\ all = text \o rest
      /\ finish = NoFinish => ~ Arrived("finish")
      /\ finish # NoFinish => \E i \in 1 .. pos : script[i].line = "finish" /\ script[i].data = finish
      /\ tools <=> Arrived("tool")
      /\ ended => pos = n
  BY DEF WindowInv
<1>3. \A i \in pos + 1 .. n : i \in 1 .. n
  BY <1>1
<1>4. /\ Rest \in Seq(LineType) /\ Len(Rest) = (IF pos + 1 <= n THEN n - (pos + 1) + 1 ELSE 0)
      /\ \A i \in 1 .. n - (pos + 1) + 1 : Rest[i] = script[(pos + 1) + i - 1]
  <2>1. \A i \in pos + 1 .. n : script[i] \in LineType
    BY <1>1, <1>3, ElementOfSeq
  <2>2. pos + 1 \in Int /\ n \in Int
    BY <1>1
  <2> HIDE DEF n
  <2>3. /\ SubSeq(script, pos + 1, n) \in Seq(LineType)
        /\ Len(SubSeq(script, pos + 1, n)) = (IF pos + 1 <= n THEN n - (pos + 1) + 1 ELSE 0)
        /\ \A i \in 1 .. n - (pos + 1) + 1 : SubSeq(script, pos + 1, n)[i] = script[(pos + 1) + i - 1]
    BY <2>1, <2>2, SubSeqProperties
  <2> QED
    BY <2>3 DEF Rest, n
<1>5. rest \in Seq(Chars) /\ all \in Seq(Chars) /\ text \in Seq(Chars)
  BY <1>1, <1>4, PayloadType DEF TypeOK
<1>6. ASSUME finish # NoFinish
      PROVE  \E i \in 1 .. pos : /\ script[i].data = finish /\ FinishOf(script, NoFinish) = finish
                                /\ \A j \in i + 1 .. n : script[j].line # "text"
  <2>1. PICK i \in 1 .. pos : script[i].line = "finish" /\ script[i].data = finish
    BY <1>2, <1>6
  <2>2. i \in 1 .. n
    BY <1>1
  <2>3. \A j \in 1 .. n : script[j].line = "finish" => j = i
    BY <1>1, <2>1, <2>2, OneFinish
  <2>4. FinishOf(script, NoFinish) = script[i].data
    BY <1>1, <2>1, <2>2, <2>3, FinishIs
  <2>5. \A j \in i + 1 .. n : script[j].line # "text"
    BY <1>1, <2>1, <2>2 DEF WellFormed
  <2> QED
    BY <2>1, <2>4, <2>5
<1>7. ASSUME finish = NoFinish, ended PROVE FinishOf(script, NoFinish) = NoFinish
  <2>1. pos = n /\ ~ Arrived("finish")
    BY <1>2, <1>7
  <2>2. \A j \in 1 .. n : script[j].line # "finish"
    BY <2>1 DEF Arrived
  <2> QED
    BY <1>1, <2>2, FinishNone
<1>8. ASSUME ended PROVE rest = <<>> /\ (tools <=> Has(script, "tool"))
  <2>1. pos = n
    BY <1>2, <1>8
  <2>2. Rest = <<>>
    <3>1. n < pos + 1 /\ pos + 1 \in Int /\ n \in Int
      BY <1>1, <2>1
    <3> QED
      BY <3>1, SubSeqEmpty DEF Rest
  <2>3. tools <=> Has(script, "tool")
    BY <1>1, <1>2, <2>1 DEF Arrived, Has
  <2> QED
    BY <2>2, <2>3, PayloadNone
<1>9. ASSUME finish # NoFinish PROVE rest = <<>>
  <2>1. PICK i \in 1 .. pos : \A j \in i + 1 .. n : script[j].line # "text"
    BY <1>6, <1>9
  <2>2. \A k \in 1 .. Len(Rest) : Rest[k].line # "text"
    <3>1. TAKE k \in 1 .. Len(Rest)
    <3>2. k \in 1 .. n - (pos + 1) + 1 /\ (pos + 1) + k - 1 \in i + 1 .. n
      <4>1. n \in Nat /\ pos \in 0 .. n /\ i \in 1 .. pos
        BY <1>1, <2>1
      <4>2. Len(Rest) = (IF pos + 1 <= n THEN n - (pos + 1) + 1 ELSE 0)
        BY <1>4
      <4> HIDE DEF n
      <4> QED
        BY <4>1, <4>2
    <3> QED
      BY <1>4, <2>1, <3>2
  <2> QED
    BY <1>4, <2>2, PayloadQuiet
<1> HIDE DEF all, rest, n
<1>10. ended \/ finish # NoFinish => text = all
  <2>1. ended \/ finish # NoFinish => rest = <<>>
    BY <1>8, <1>9
  <2>2. text \o <<>> = text
    BY <1>5, ConcatEmptySeq
  <2> QED
    BY <1>2, <2>1, <2>2
<1>11. /\ Len(text) \in Nat /\ Len(all) \in Nat /\ Len(text) <= Len(all)
       /\ \A i \in 1 .. Len(text) : all[i] = text[i]
  <2>1. Len(text) \in Nat /\ Len(rest) \in Nat
    BY <1>5, LenProperties
  <2>2. /\ Len(text \o rest) = Len(text) + Len(rest)
        /\ \A i \in 1 .. Len(text) + Len(rest) :
             (text \o rest)[i] = IF i <= Len(text) THEN text[i] ELSE rest[i - Len(text)]
    BY <1>5, ConcatProperties
  <2>3. \A i \in 1 .. Len(text) : i \in 1 .. Len(text) + Len(rest) /\ i <= Len(text)
    BY <2>1
  <2> QED
    BY <1>2, <2>1, <2>2, <2>3
<1> QED
  BY <1>5, <1>6, <1>7, <1>8, <1>10, <1>11 DEF all

\* A window that condemns an answer has a reason the whole answer shows too,
LEMMA RejectedIsUnsound ==
  ASSUME IInv, TypeOK, WindowInv, phase = "peek", up # "error", PrefixIsDegenerate(Prefix, esc)
  PROVE  ~ SoundScript
<1> SUFFICES ASSUME SoundScript PROVE FALSE
  OBVIOUS
<1> DEFINE all == Payload(script)
           whole == FinishOf(script, NoFinish)
<1>1. whole \in {"stop", "tool_calls"} /\ ~ Refuses(all) /\ (Trim(all) # <<>> \/ Has(script, "tool"))
  BY DEF SoundScript
<1>2. /\ all \in Seq(Chars) /\ Len(all) \in Nat
      /\ Len(text) \in Nat /\ Len(text) <= Len(all)
      /\ \A i \in 1 .. Len(text) : all[i] = text[i]
      /\ finish # NoFinish => whole = finish
      /\ ended => text = all
      /\ ended => (tools <=> Has(script, "tool"))
  BY Shown
<1> HIDE DEF all, whole
<1>3. \/ finish = "content_filter" \/ finish = "length"
      \/ ended /\ TextOf(text) = "empty" /\ ~ tools
      \/ TextOf(text) = "refusal"
  BY DEF PrefixIsDegenerate, Prefix
<1>4. finish \notin {"content_filter", "length"}
  BY <1>1, <1>2 DEF NoFinish
<1>5. CASE ended /\ TextOf(text) = "empty" /\ ~ tools
  <2>1. Trim(text) = <<>>
    BY <1>5 DEF TextOf
  <2> QED
    BY <1>1, <1>2, <1>5, <2>1
<1>6. CASE TextOf(text) = "refusal"
  <2>1. Refuses(Trim(text))
    BY <1>6 DEF TextOf, LooksLikeRefusal
  <2>2. Refuses(text)
    BY <2>1, TrimIs DEF TypeOK
  <2>3. Refuses(all)
    BY <1>2, <2>2, RefusesPrefix
  <2> QED
    BY <1>1, <2>3
<1> QED
  BY <1>3, <1>4, <1>5, <1>6

\* and one that was wide enough to show a bad head shows it.
LEMMA PassedIsGood ==
  ASSUME IInv, TypeOK, WindowInv, phase = "peek", up # "error", ~ Window,
         peeked < FrameCap, ~ PrefixIsDegenerate(Prefix, esc)
  PROVE  ~ BadHead
<1> DEFINE all == Payload(script)
           whole == FinishOf(script, NoFinish)
           m == Min({MaxChars, Len(all)})
           head == SubSeq(all, 1, m)
<1>1. /\ all \in Seq(Chars) /\ Len(all) \in Nat
      /\ Len(text) \in Nat /\ Len(text) <= Len(all)
      /\ \A i \in 1 .. Len(text) : all[i] = text[i]
      /\ finish # NoFinish => whole = finish
      /\ finish = NoFinish /\ ended => whole = NoFinish
      /\ ended \/ finish # NoFinish => text = all
  BY Shown
<1>2. Len(text) >= MaxChars \/ finish # NoFinish \/ ended
  BY <1>1, LookaheadAssumption DEF Window, IInv
<1>3. BadHead <=> \/ whole = "content_filter" /\ Len(all) < MaxChars
                  \/ esc.onRefusal /\ Len(all) <= RefusalCap /\ Refuses(head)
  BY DEF BadHead
<1> HIDE DEF all, whole, head
<1>4. m \in Nat /\ m <= MaxChars /\ m <= Len(all) /\ m \in {MaxChars, Len(all)}
  <2> DEFINE k == Len(all)
  <2>1. k \in Nat /\ MaxChars \in Nat
    BY <1>1, LookaheadAssumption
  <2> HIDE DEF k
  <2>2. \E x \in {MaxChars, k} : \A y \in {MaxChars, k} : x <= y
    BY <2>1
  <2>3. Min({MaxChars, k}) \in {MaxChars, k} /\ \A y \in {MaxChars, k} : Min({MaxChars, k}) <= y
    BY <2>2, Zenon DEF Min
  <2>4. Min({MaxChars, k}) \in Nat /\ Min({MaxChars, k}) <= MaxChars /\ Min({MaxChars, k}) <= k
    BY <2>1, <2>3
  <2> QED
    BY <2>3, <2>4 DEF k
<1> HIDE DEF m
<1>5. ASSUME whole = "content_filter", Len(all) < MaxChars PROVE FALSE
  <2>1. finish # NoFinish \/ ended
    BY <1>1, <1>2, <1>5, LookaheadAssumption
  <2>2. finish = "content_filter"
    BY <1>1, <1>5, <2>1 DEF NoFinish
  <2> QED
    BY <2>2 DEF PrefixIsDegenerate, Prefix
<1>6. ASSUME esc.onRefusal, Len(all) <= RefusalCap, Refuses(head) PROVE FALSE
  <2>1. \A i \in 1 .. m : i \in 1 .. Len(all)
    BY <1>1, <1>4
  <2>2. head \in Seq(Chars) /\ Len(head) = m /\ \A i \in 1 .. m : head[i] = all[i]
    <3>1. \A i \in 1 .. m : all[i] \in Chars
      BY <1>1, <2>1, ElementOfSeq
    <3>2. 1 \in Int /\ m \in Int
      BY <1>4
    <3>3. /\ SubSeq(all, 1, m) \in Seq(Chars)
          /\ Len(SubSeq(all, 1, m)) = (IF 1 <= m THEN m - 1 + 1 ELSE 0)
          /\ \A i \in 1 .. m - 1 + 1 : SubSeq(all, 1, m)[i] = all[1 + i - 1]
      BY <3>1, <3>2, SubSeqProperties
    <3> QED
      BY <1>4, <3>3 DEF head
  <2>3. m <= Len(text)
    BY <1>1, <1>2, <1>4, LookaheadAssumption
  <2>4. \A i \in 1 .. m : i \in 1 .. Len(text)
    BY <1>1, <1>4, <2>3
  <2>5. \A i \in 1 .. Len(head) : text[i] = head[i]
    BY <1>1, <2>2, <2>4
  <2>6. Refuses(text)
    BY <1>1, <1>4, <1>6, <2>2, <2>3, <2>5, RefusesPrefix
  <2> DEFINE t == Trim(text)
  <2>7. Refuses(t) /\ Len(t) <= Len(text) /\ t \in Seq(Chars)
    BY <2>6, TrimIs DEF TypeOK
  <2> HIDE DEF t
  <2>8. t # <<>>
    <3>1. Len(<<>>) = 0 /\ 1 .. 0 - 1 = {}
      OBVIOUS
    <3> QED
      BY <2>7, <3>1 DEF Refuses
  <2>9. Len(t) <= RefusalCap
    <3>1. Len(t) \in Nat
      BY <2>7, LenProperties
    <3> QED
      BY <1>1, <1>6, <2>7, <3>1, LookaheadAssumption
  <2>10. TextOf(text) = "refusal"
    BY <2>7, <2>8, <2>9 DEF TextOf, LooksLikeRefusal, t
  <2> QED
    BY <1>6, <2>10 DEF PrefixIsDegenerate, Prefix
<1> QED
  BY <1>3, <1>5, <1>6

\* Every step keeps the verdict right.
LEMMA VerdictStep == IInv /\ TypeOK /\ WindowInv /\ VerdictIsRight /\ [Next]_vars => VerdictIsRight'
<1> SUFFICES ASSUME IInv, TypeOK, WindowInv, VerdictIsRight, [Next]_vars PROVE VerdictIsRight'
  OBVIOUS
<1>0. ASSUME script' = script, esc' = esc
      PROVE  (SoundScript' <=> SoundScript) /\ (BadHead' <=> BadHead)
  BY <1>0 DEF SoundScript, BadHead
<1>1. ASSUME NEW lines \in Chunks, PeekChunk(lines) PROVE VerdictIsRight'
  BY <1>1 DEF PeekChunk, VerdictIsRight, SoundStreamKept, BadHeadCaught
<1>2. ASSUME NEW lines \in Chunks, LiveChunk(lines) PROVE VerdictIsRight'
  BY <1>0, <1>2 DEF LiveChunk, Arrive, VerdictIsRight, SoundStreamKept, BadHeadCaught
<1>3. CASE PeekEnd
  BY <1>3 DEF PeekEnd, VerdictIsRight, SoundStreamKept, BadHeadCaught
<1>4. CASE Judge
  <2>1. /\ phase = "peek" /\ ~ Window /\ UNCHANGED <<esc, script, up, peeked>>
        /\ phase' = IF PrefixIsDegenerate(Prefix, esc) THEN "rejected" ELSE "replay"
    BY <1>4 DEF Judge
  <2>2. CASE up = "error"
    BY <2>1, <2>2 DEF VerdictIsRight, SoundStreamKept, BadHeadCaught
  <2>3. CASE up # "error" /\ PrefixIsDegenerate(Prefix, esc)
    <3>1. ~ SoundScript /\ phase' = "rejected"
      BY <2>1, <2>3, RejectedIsUnsound
    <3> QED
      BY <1>0, <2>1, <3>1 DEF VerdictIsRight, SoundStreamKept, BadHeadCaught
  <2>4. CASE up # "error" /\ ~ PrefixIsDegenerate(Prefix, esc)
    <3>1. peeked < FrameCap => ~ BadHead
      BY <2>1, <2>4, PassedIsGood
    <3>2. phase' = "replay"
      BY <2>1, <2>4
    <3> QED
      BY <1>0, <2>1, <3>1, <3>2 DEF VerdictIsRight, SoundStreamKept, BadHeadCaught
  <2> QED
    BY <2>2, <2>3, <2>4
<1>5. CASE Replay
  BY <1>0, <1>5 DEF Replay, VerdictIsRight, SoundStreamKept, BadHeadCaught
<1>6. CASE LiveEnd
  BY <1>0, <1>6 DEF LiveEnd, UpstreamEnds, VerdictIsRight, SoundStreamKept, BadHeadCaught
<1>7. CASE UNCHANGED vars
  BY <1>0, <1>7 DEF vars, VerdictIsRight, SoundStreamKept, BadHeadCaught
<1> QED
  BY <1>1, <1>2, <1>3, <1>4, <1>5, <1>6, <1>7 DEF Next, Over

\* The window's invariant holds throughout.
LEMMA WindowHolds == Spec => []WindowInv
<1>1. Init => WindowInv
  <2> SUFFICES ASSUME Init PROVE WindowInv
    OBVIOUS
  <2>1. script \in Seq(LineType) /\ Len(script) \in Nat /\ pos = 0 /\ text = <<>>
    BY LookaheadAssumption, LenProperties DEF Init
  <2>2. Rest = script
    BY <2>1, SubSeqFull DEF Rest
  <2>3. <<>> \o Payload(script) = Payload(script)
    BY <2>1, PayloadType, ConcatEmptySeq
  <2>4. 1 .. 0 = {}
    OBVIOUS
  <2> QED
    BY <2>1, <2>2, <2>3, <2>4 DEF Init, WindowInv, Arrived
<1> QED
  BY <1>1, WindowStep, TypeCorrect, Invariance, PTL DEF Spec

\* A sound answer that arrives whole is never rejected, and one that is bad within
\* the window never reaches the client: for every well-formed answer, however it
\* is cut into chunks, and for every size of the window and of the caps.
THEOREM VerdictHolds == Spec => []VerdictIsRight
<1>1. Init => VerdictIsRight
  BY DEF Init, VerdictIsRight, SoundStreamKept, BadHeadCaught
<1> QED
  BY <1>1, VerdictStep, WindowHolds, TypeCorrect, Invariance, PTL DEF Spec

-----------------------------------------------------------------------------
\* Two sequences that the same one completes to one are the same.
LEMMA CancelSuffix ==
  ASSUME NEW S, NEW a \in Seq(S), NEW b \in Seq(S), NEW c \in Seq(S), a \o c = b \o c
  PROVE  a = b
<1>1. Len(a) \in Nat /\ Len(b) \in Nat /\ Len(c) \in Nat
  BY LenProperties
<1>2. /\ Len(a \o c) = Len(a) + Len(c) /\ Len(b \o c) = Len(b) + Len(c)
      /\ \A i \in 1 .. Len(a) + Len(c) :
           (a \o c)[i] = IF i <= Len(a) THEN a[i] ELSE c[i - Len(a)]
      /\ \A i \in 1 .. Len(b) + Len(c) :
           (b \o c)[i] = IF i <= Len(b) THEN b[i] ELSE c[i - Len(b)]
  BY ConcatProperties
<1>3. Len(a) = Len(b)
  BY <1>1, <1>2
<1>4. \A i \in 1 .. Len(a) : i \in 1 .. Len(a) + Len(c) /\ i <= Len(a)
  BY <1>1
<1>5. \A i \in 1 .. Len(a) : a[i] = b[i]
  BY <1>2, <1>3, <1>4
<1> QED
  BY <1>3, <1>5, SeqEqual

Come == SubSeq(script, 1, pos)

\* What the look-ahead has parsed is what the lines that arrived carry.
LEMMA ParsedIsCome ==
  ASSUME IInv, TypeOK, WindowInv, phase = "peek"
  PROVE  text = Payload(Come) /\ (tools <=> Has(Come, "tool"))
<1> DEFINE n == Len(script)
<1>1. script \in Seq(LineType) /\ n \in Nat /\ pos \in 0 .. n
  BY LenProperties DEF IInv
<1>2. Come \o Rest = script
  <2>1. 1 \in 1 .. n + 1 /\ pos \in 1 - 1 .. n /\ n \in pos .. n
    BY <1>1
  <2>2. SubSeq(script, 1, pos) \o SubSeq(script, pos + 1, n) = SubSeq(script, 1, n)
    BY <1>1, <2>1, ConcatAdjacentSubSeq
  <2> QED
    BY <1>1, <2>2, SubSeqFull DEF Come, Rest
<1>3. /\ Come \in Seq(LineType) /\ Len(Come) = pos
      /\ \A i \in 1 .. pos : Come[i] = script[i]
  <2>1. \A i \in 1 .. pos : i \in 1 .. n
    BY <1>1
  <2>2. \A i \in 1 .. pos : script[i] \in LineType
    BY <1>1, <2>1, ElementOfSeq
  <2>3. 1 \in Int /\ pos \in Int
    BY <1>1
  <2>4. /\ SubSeq(script, 1, pos) \in Seq(LineType)
        /\ Len(SubSeq(script, 1, pos)) = (IF 1 <= pos THEN pos - 1 + 1 ELSE 0)
        /\ \A i \in 1 .. pos - 1 + 1 : SubSeq(script, 1, pos)[i] = script[1 + i - 1]
    BY <2>2, <2>3, SubSeqProperties
  <2> QED
    BY <1>1, <2>4 DEF Come
<1>4. Rest \in Seq(LineType)
  <2>1. \A i \in pos + 1 .. n : i \in 1 .. n
    BY <1>1
  <2>2. \A i \in pos + 1 .. n : script[i] \in LineType
    BY <1>1, <2>1, ElementOfSeq
  <2>3. pos + 1 \in Int /\ n \in Int
    BY <1>1
  <2> QED
    BY <2>2, <2>3, SubSeqProperties DEF Rest
<1>5. Payload(Come) \o Payload(Rest) = text \o Payload(Rest)
  BY <1>2, <1>3, <1>4, PayloadConcat DEF WindowInv
<1>6. Payload(Come) \in Seq(Chars) /\ Payload(Rest) \in Seq(Chars) /\ text \in Seq(Chars)
  BY <1>3, <1>4, PayloadType DEF TypeOK
<1>7. text = Payload(Come)
  BY <1>5, <1>6, CancelSuffix
<1>8. tools <=> \E i \in 1 .. pos : Come[i].line = "tool"
  BY <1>3 DEF WindowInv, Arrived
<1>9. DOMAIN Come = 1 .. pos
  BY <1>3, LenProperties
<1> QED
  BY <1>7, <1>8, <1>9 DEF Has

\* A break while the look-ahead reads closes the window as an end does; once the
\* stream is replayed, the checks have found nothing against what had come.
TornInv ==
  /\ phase = "peek" /\ up = "error" => ended /\ finish = NoFinish
  /\ phase \in {"replay", "live", "closed"} /\ up = "error" => ~ Fails(Come)

LEMMA TornStep == IInv /\ TypeOK /\ WindowInv /\ TornInv /\ [Next]_vars => TornInv'
<1> SUFFICES ASSUME IInv, TypeOK, WindowInv, TornInv, [Next]_vars PROVE TornInv'
  OBVIOUS
<1>0. ASSUME UNCHANGED <<esc, script, pos>> PROVE Fails(Come)' <=> Fails(Come)
  BY <1>0 DEF Fails, Come
<1>1. ASSUME NEW lines \in Chunks, PeekChunk(lines) \/ LiveChunk(lines) PROVE TornInv'
  BY <1>1 DEF PeekChunk, LiveChunk, Arrive, TornInv
<1>2. CASE PeekEnd
  BY <1>2 DEF PeekEnd, Window, TornInv
<1>3. CASE Judge
  <2>1. /\ phase = "peek" /\ UNCHANGED <<esc, script, pos, up>>
        /\ phase' = IF PrefixIsDegenerate(Prefix, esc) THEN "rejected" ELSE "replay"
    BY <1>3 DEF Judge
  <2>2. ASSUME up = "error", ~ PrefixIsDegenerate(Prefix, esc) PROVE ~ Fails(Come)
    <3>1. ended /\ finish = NoFinish
      BY <2>1, <2>2 DEF TornInv
    <3>2. text = Payload(Come) /\ (tools <=> Has(Come, "tool"))
      BY <2>1, ParsedIsCome
    <3>3. /\ ~ (esc.onEmptyResponse /\ TextOf(text) = "empty" /\ ~ tools)
          /\ ~ (esc.onRefusal /\ TextOf(text) = "refusal")
      BY <2>2, <3>1 DEF PrefixIsDegenerate, Prefix, NoFinish
    <3>4. Trim(text) = <<>> => TextOf(text) = "empty"
      BY DEF TextOf
    <3> QED
      BY <3>2, <3>3, <3>4 DEF Fails
  <2> QED
    BY <1>0, <2>1, <2>2 DEF TornInv
<1>4. CASE Replay
  BY <1>0, <1>4 DEF Replay, TornInv
<1>5. CASE LiveEnd
  <2>1. /\ phase = "live" /\ UNCHANGED <<esc, script, pos>>
        /\ (phase' = "closed" /\ up' \in {"eof", up}) \/ phase' = "failed"
    BY <1>5 DEF LiveEnd, UpstreamEnds
  <2> QED
    BY <1>0, <2>1 DEF TornInv
<1>6. CASE UNCHANGED vars
  BY <1>0, <1>6 DEF vars, parsed, TornInv
<1> QED
  BY <1>1, <1>2, <1>3, <1>4, <1>5, <1>6 DEF Next, Over

\* A client that sees its stream end normally has all of it, unless the upstream
\* broke while the stream was held back: then it has what was held back, and that
\* passed the checks on a whole answer; for any cut and any window.
THEOREM CleanEnds == Spec => []CleanEndIsWhole
<1>1. Init => EndInv /\ TornInv
  BY DEF Init, EndInv, TornInv
<1>2. EndInv /\ TornInv => CleanEndIsWhole
  BY DEF EndInv, TornInv, Come, CleanEndIsWhole
<1> QED
  BY <1>1, <1>2, EndStep, TornStep, WindowHolds, TypeCorrect, Invariance, PTL DEF Spec
=============================================================================
