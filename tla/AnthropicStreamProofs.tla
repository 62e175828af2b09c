----------------------- MODULE AnthropicStreamProofs -----------------------
(***************************************************************************)
(* The translated stream is a legal Anthropic message, for every choice of *)
(* texts, tools and fragments and every sequence of parts.                 *)
(*                                                                         *)
(* The client is behind the translator by the events in the queue.  So the *)
(* invariant that is inductive says that the queue leads, by legal events  *)
(* only, from what the client's parser knows to what it will know when it  *)
(* has caught up, which is what the translator's own state says.           *)
(*                                                                         *)
(* What the events carry follows from what each step puts out: text in the *)
(* step it comes in, a tool's arguments while its block is open, and the   *)
(* closing event last.                                                     *)
(***************************************************************************)
EXTENDS AnthropicStream, SequenceTheorems, WellFoundedInduction, TLAPS

Names == Tools \cup {""}     \* what a block may be the block of
Starts == {P!BlockStart(i, k, t) : i \in Nat, k \in P!Kinds, t \in Names}
Deltas == {P!BlockDelta(i, k, d) : i \in Nat, k \in P!Kinds, d \in Texts \cup Fragments}
Stops == {P!BlockStop(i) : i \in Nat}
Closings == {P!MessageDelta(r, n) : r \in {"end_turn", "max_tokens", "tool_use"},
                                    n \in Counts \cup {0}}
Event == {P!MessageStart} \cup Starts \cup Deltas \cup Stops \cup Closings \cup {P!MessageStop}

LEMMA EventTypes ==
  /\ P!MessageStart \in Event /\ P!MessageStop \in Event
  /\ \A i \in Nat : P!BlockStop(i) \in Event
  /\ \A i \in Nat, k \in P!Kinds, t \in Names : P!BlockStart(i, k, t) \in Event
  /\ \A i \in Nat, k \in P!Kinds, d \in Texts \cup Fragments : P!BlockDelta(i, k, d) \in Event
  /\ \A r \in {"end_turn", "max_tokens", "tool_use"}, n \in Counts \cup {0} :
       P!MessageDelta(r, n) \in Event
<1>1. ASSUME NEW i \in Nat, NEW k \in P!Kinds, NEW t \in Names
      PROVE  P!BlockStart(i, k, t) \in Starts
  BY DEF Starts
<1>2. ASSUME NEW i \in Nat, NEW k \in P!Kinds, NEW d \in Texts \cup Fragments
      PROVE  P!BlockDelta(i, k, d) \in Deltas
  BY DEF Deltas
<1>3. ASSUME NEW i \in Nat PROVE P!BlockStop(i) \in Stops
  BY DEF Stops
<1>4. ASSUME NEW r \in {"end_turn", "max_tokens", "tool_use"}, NEW n \in Counts \cup {0}
      PROVE  P!MessageDelta(r, n) \in Closings
  BY DEF Closings
<1> QED
  BY <1>1, <1>2, <1>3, <1>4 DEF Event

\* Events q take a parser from c to d, and each is legal when it comes.
Path(c, q, d) ==
  /\ q \in Seq(Event)
  /\ \E p : /\ p[1] = c /\ p[Len(q) + 1] = d
            /\ \A i \in 1 .. Len(q) : P!Legal(p[i], q[i]) /\ p[i + 1] = P!After(p[i], q[i])

LEMMA PathNone == ASSUME NEW c PROVE Path(c, <<>>, c)
<1> DEFINE p == [i \in {1} |-> c]
<1>1. p[1] = c /\ p[Len(<<>>) + 1] = c
  OBVIOUS
<1>2. <<>> \in Seq(Event) /\ 1 .. Len(<<>>) = {}
  OBVIOUS
<1> HIDE DEF p
<1> QED
  BY <1>1, <1>2 DEF Path

LEMMA PathOne ==
  ASSUME NEW c, NEW e \in Event, P!Legal(c, e)
  PROVE  Path(c, <<e>>, P!After(c, e))
<1> DEFINE p == [i \in {1, 2} |-> IF i = 1 THEN c ELSE P!After(c, e)]
<1>1. <<e>> \in Seq(Event) /\ Len(<<e>>) = 1 /\ <<e>>[1] = e
  OBVIOUS
<1>2. p[1] = c /\ p[2] = P!After(c, e)
  OBVIOUS
<1>3. ASSUME NEW i \in 1 .. Len(<<e>>)
      PROVE  P!Legal(p[i], <<e>>[i]) /\ p[i + 1] = P!After(p[i], <<e>>[i])
  <2>1. i = 1
    BY <1>1
  <2> QED
    BY <1>1, <1>2, <2>1
<1>4. p[Len(<<e>>) + 1] = P!After(c, e)
  BY <1>1, <1>2
<1> HIDE DEF p
<1> QED
  BY <1>1, <1>2, <1>3, <1>4 DEF Path

LEMMA PathConcat ==
  ASSUME NEW c, NEW q, NEW d, NEW r, NEW e, Path(c, q, d), Path(d, r, e)
  PROVE  Path(c, q \o r, e)
<1>1. PICK a : /\ a[1] = c /\ a[Len(q) + 1] = d
               /\ \A i \in 1 .. Len(q) : P!Legal(a[i], q[i]) /\ a[i + 1] = P!After(a[i], q[i])
  BY DEF Path
<1>2. PICK b : /\ b[1] = d /\ b[Len(r) + 1] = e
               /\ \A i \in 1 .. Len(r) : P!Legal(b[i], r[i]) /\ b[i + 1] = P!After(b[i], r[i])
  BY DEF Path
<1> DEFINE m == Len(q)
           n == Len(r)
           p == [i \in 1 .. m + n + 1 |-> IF i <= m + 1 THEN a[i] ELSE b[i - m]]
<1>3. q \in Seq(Event) /\ r \in Seq(Event) /\ m \in Nat /\ n \in Nat
  BY LenProperties DEF Path
<1>4. /\ q \o r \in Seq(Event) /\ Len(q \o r) = m + n
      /\ \A i \in 1 .. m + n : (q \o r)[i] = IF i <= m THEN q[i] ELSE r[i - m]
  BY <1>3, ConcatProperties
<1>5. p[1] = c /\ p[m + n + 1] = e
  BY <1>1, <1>2, <1>3
<1>6. ASSUME NEW i \in 1 .. m + n
      PROVE  P!Legal(p[i], (q \o r)[i]) /\ p[i + 1] = P!After(p[i], (q \o r)[i])
  <2>1. CASE i <= m
    <3>1. i \in 1 .. m /\ (q \o r)[i] = q[i] /\ p[i] = a[i] /\ p[i + 1] = a[i + 1]
      BY <1>3, <1>4, <2>1
    <3> QED
      BY <1>1, <3>1
  <2>2. CASE i > m
    <3>1. i - m \in 1 .. n /\ (q \o r)[i] = r[i - m]
      BY <1>3, <1>4, <2>2
    <3>2. p[i] = b[i - m]
      BY <1>1, <1>2, <1>3, <2>2
    <3>3. p[i + 1] = b[(i - m) + 1]
      BY <1>3, <2>2
    <3> QED
      BY <1>2, <3>1, <3>2, <3>3
  <2> QED
    BY <1>3, <2>1, <2>2
<1> HIDE DEF p
<1> QED
  BY <1>4, <1>5, <1>6 DEF Path

LEMMA PathPop ==
  ASSUME NEW c, NEW q, NEW d, Path(c, q, d), q # <<>>
  PROVE  P!Legal(c, Head(q)) /\ Path(P!After(c, Head(q)), Tail(q), d)
<1>1. PICK a : /\ a[1] = c /\ a[Len(q) + 1] = d
               /\ \A i \in 1 .. Len(q) : P!Legal(a[i], q[i]) /\ a[i + 1] = P!After(a[i], q[i])
  BY DEF Path
<1>2. q \in Seq(Event) /\ Len(q) \in Nat \ {0} /\ Head(q) = q[1]
  BY LenProperties, EmptySeq DEF Path
<1>3. /\ Tail(q) \in Seq(Event) /\ Len(Tail(q)) = Len(q) - 1
      /\ \A i \in 1 .. Len(q) - 1 : Tail(q)[i] = q[i + 1]
  BY <1>2, HeadTailProperties
<1> DEFINE p == [i \in 1 .. Len(q) |-> a[i + 1]]
<1>4. p[1] = P!After(c, Head(q)) /\ p[Len(Tail(q)) + 1] = d
  BY <1>1, <1>2, <1>3
<1>5. ASSUME NEW i \in 1 .. Len(Tail(q))
      PROVE  P!Legal(p[i], Tail(q)[i]) /\ p[i + 1] = P!After(p[i], Tail(q)[i])
  <2>1. i + 1 \in 1 .. Len(q) /\ i \in 1 .. Len(q) /\ Tail(q)[i] = q[i + 1]
    BY <1>2, <1>3
  <2>2. p[i] = a[i + 1] /\ p[i + 1] = a[(i + 1) + 1]
    BY <2>1
  <2> QED
    BY <1>1, <2>1, <2>2
<1> HIDE DEF p
<1> QED
  BY <1>1, <1>2, <1>3, <1>4, <1>5 DEF Path

-----------------------------------------------------------------------------
\* What the client will know once it has pulled everything queued.
At(phase, o, n) == [phase |-> phase, block |-> o.index, kind |-> o.kind, next |-> n]

PhaseNow == IF finished THEN "over" ELSE IF started THEN "content" ELSE "waiting"

IInv ==
  /\ TypeOK
  /\ ~started => open = NoOpen /\ nextIndex = 0 /\ ~finished
  /\ \A t \in Tools : toolBlocks[t] # P!NoBlock => started
  /\ finished => open = NoOpen
  /\ mode = "ingest" => ~finished
  /\ Path(client, out, At(PhaseNow, open, nextIndex))

\* The pieces every action queues lead where they should.
LEMMA StartPath ==
  ASSUME IInv, ~finished
  PROVE  Path(client, out \o EmitStart, At("content", open, nextIndex))
<1>1. CASE started
  <2>1. out \o EmitStart = out
    BY <1>1, ConcatEmptySeq DEF EmitStart, IInv, Path
  <2> QED
    BY <1>1, <2>1 DEF IInv, PhaseNow
<1>2. CASE ~started
  <2> DEFINE c == At("waiting", NoOpen, 0)
  <2>1. Path(client, out, c) /\ open = NoOpen /\ nextIndex = 0
    BY <1>2 DEF IInv, PhaseNow
  <2>2. P!Legal(c, P!MessageStart) /\ P!After(c, P!MessageStart) = At("content", NoOpen, 0)
    BY DEF P!Legal, P!After, P!MessageStart, At, NoOpen, P!NoBlock
  <2>3. P!MessageStart \in Event
    BY DEF Event
  <2>4. Path(c, <<P!MessageStart>>, At("content", NoOpen, 0))
    BY <2>2, <2>3, PathOne
  <2> QED
    BY <1>2, <2>1, <2>4, PathConcat DEF EmitStart
<1> QED
  BY <1>1, <1>2

LEMMA ClosePath ==
  ASSUME TypeOK, NEW n \in Nat
  PROVE  Path(At("content", open, n), CloseOpenBlock, At("content", NoOpen, n))
<1>1. CASE open = NoOpen
  BY <1>1, PathNone DEF CloseOpenBlock
<1>2. CASE open # NoOpen
  <2>1. open \in [kind: P!Kinds, index: Nat]
    BY <1>2 DEF TypeOK
  <2>2. P!BlockStop(open.index) \in Event
    <3>1. open.index \in Nat
      BY <2>1
    <3>2. P!BlockStop(open.index) \in Stops
      BY <3>1 DEF Stops
    <3> QED
      BY <3>2 DEF Event
  <2>3. P!Legal(At("content", open, n), P!BlockStop(open.index))
    BY <2>1 DEF P!Legal, P!BlockStop, At, P!NoBlock
  <2>4. P!After(At("content", open, n), P!BlockStop(open.index)) = At("content", NoOpen, n)
    BY DEF P!After, P!BlockStop, At, NoOpen, P!NoBlock
  <2> QED
    BY <1>2, <2>2, <2>3, <2>4, PathOne DEF CloseOpenBlock
<1> QED
  BY <1>1, <1>2

LEMMA OpenPath ==
  ASSUME TypeOK, NEW k \in P!Kinds, NEW t \in Names
  PROVE  Path(At("content", open, nextIndex), OpenBlock(k, t),
              At("content", [kind |-> k, index |-> nextIndex], nextIndex + 1))
<1> DEFINE c == At("content", NoOpen, nextIndex)
           e == P!BlockStart(nextIndex, k, t)
<1>1. nextIndex \in Nat
  BY DEF TypeOK
<1>2. Path(At("content", open, nextIndex), CloseOpenBlock, c)
  BY <1>1, ClosePath
<1>3. e \in Event
  BY <1>1, EventTypes
<1>4. /\ P!Legal(c, e)
      /\ P!After(c, e) = At("content", [kind |-> k, index |-> nextIndex], nextIndex + 1)
  BY <1>1 DEF P!Legal, P!After, P!BlockStart, At, NoOpen, P!NoBlock
<1>5. Path(c, <<e>>, At("content", [kind |-> k, index |-> nextIndex], nextIndex + 1))
  BY <1>3, <1>4, PathOne
<1> QED
  BY <1>2, <1>5, PathConcat DEF OpenBlock

LEMMA DeltaPath ==
  ASSUME NEW k \in P!Kinds, NEW i \in Nat, NEW n, NEW d \in Texts \cup Fragments
  PROVE  LET c == At("content", [kind |-> k, index |-> i], n)
         IN Path(c, <<P!BlockDelta(i, k, d)>>, c)
<1> DEFINE c == At("content", [kind |-> k, index |-> i], n)
           e == P!BlockDelta(i, k, d)
<1>1. e \in Event
  <2>1. e \in Deltas
    BY DEF Deltas
  <2> QED
    BY <2>1 DEF Event
<1>2. P!Legal(c, e) /\ P!After(c, e) = c
  BY DEF P!Legal, P!After, P!BlockDelta, At, P!NoBlock
<1> QED
  BY <1>1, <1>2, PathOne

-----------------------------------------------------------------------------
LEMMA InitIInv == Init => IInv
<1> SUFFICES ASSUME Init PROVE IInv
  OBVIOUS
<1>1. TypeOK
  <2>1. parts \in Seq(Part) /\ nextIndex \in Nat /\ outputTokens \in Counts \cup {0}
    BY DEF Init
  <2>2. toolBlocks \in [Tools -> Blocks]
    BY DEF Init, Blocks
  <2>3. client \in [phase: {"waiting", "content", "ending", "over"}, block: Blocks,
                    kind: P!Kinds \cup {"none"}, next: Nat]
    BY DEF Init, P!Init, P!Waiting, Blocks
  <2> QED
    BY <2>1, <2>2, <2>3 DEF Init, TypeOK
<1>2. client = At(PhaseNow, open, nextIndex)
  BY DEF Init, P!Init, P!Waiting, At, PhaseNow, NoOpen
<1>3. Path(client, <<>>, client)
  BY PathNone
<1> QED
  BY <1>1, <1>2, <1>3 DEF Init, IInv, NoOpen

\* A part that is handled leaves the message in its content phase.
LEMMA ArriveKeeps ==
  ASSUME IInv, NEW part \in Part, Arrive(part), started' = TRUE,
         open' \in [kind: P!Kinds, index: Nat] \cup {NoOpen}, nextIndex' \in Nat,
         toolBlocks' \in [Tools -> Blocks], stopReason' \in {"end_turn", "max_tokens", "tool_use"},
         outputTokens' \in Counts \cup {0}, done' \in BOOLEAN,
         Path(client, out', At("content", open', nextIndex'))
  PROVE  IInv'
<1>1. ~finished /\ finished' = finished /\ client' = client /\ mode' = "ingest"
  BY DEF IInv, TypeOK, Arrive
<1>2. parts' \in Seq(Part)
  BY DEF IInv, TypeOK, Arrive
<1>3. TypeOK'
  BY <1>1, <1>2 DEF IInv, TypeOK
<1>4. PhaseNow' = "content"
  BY <1>1 DEF PhaseNow
<1> QED
  BY <1>1, <1>3, <1>4 DEF IInv

LEMMA IngestKeeps == ASSUME IInv, Ingest PROVE IInv'
<1>1. /\ nextIndex \in Nat /\ nextIndex + 1 \in Nat /\ toolBlocks \in [Tools -> Blocks]
      /\ open \in [kind: P!Kinds, index: Nat] \cup {NoOpen}
      /\ "text" \in P!Kinds /\ "tool_use" \in P!Kinds
      /\ stopReason \in {"end_turn", "max_tokens", "tool_use"}
      /\ outputTokens \in Counts \cup {0} /\ done \in BOOLEAN /\ TypeOK
  BY DEF IInv, TypeOK, P!Kinds
<1>2. ~finished
  BY DEF Ingest, IInv, Arrive, Blank, Content, NewTool, MoreTool, FinishReason, Usage, DoneLine
<1>3. Path(client, out \o EmitStart, At("content", open, nextIndex))
  BY <1>2, StartPath
<1>4. CASE Blank
  <2>1. [part |-> "blank"] \in Part
    BY DEF Part
  <2> QED
    BY <1>1, <1>3, <1>4, <2>1, ArriveKeeps DEF Blank
<1>5. ASSUME NEW x \in Texts, Content(x) PROVE IInv'
  <2>1. [part |-> "text", data |-> x] \in Part
    BY DEF Part
  <2>2. CASE /\ open.kind = "text"
             /\ out' = out \o EmitStart \o <<P!BlockDelta(open.index, "text", x)>>
             /\ UNCHANGED <<open, nextIndex>>
    <3>1. open = [kind |-> "text", index |-> open.index] /\ open.index \in Nat
      BY <1>1, <2>2 DEF NoOpen
    <3>2. Path(At("content", open, nextIndex), <<P!BlockDelta(open.index, "text", x)>>,
               At("content", open, nextIndex))
      BY <1>1, <3>1, DeltaPath
    <3>3. Path(client, out', At("content", open', nextIndex'))
      BY <1>3, <2>2, <3>2, PathConcat
    <3> QED
      BY <1>1, <1>5, <2>1, <2>2, <3>3, ArriveKeeps DEF Content
  <2>3. CASE /\ out' = out \o EmitStart \o OpenBlock("text", "")
                            \o <<P!BlockDelta(nextIndex, "text", x)>>
             /\ open' = [kind |-> "text", index |-> nextIndex]
             /\ nextIndex' = nextIndex + 1
    <3>1. Path(At("content", open, nextIndex), OpenBlock("text", ""),
               At("content", open', nextIndex'))
      BY <1>1, <2>3, OpenPath DEF Names
    <3>2. Path(At("content", open', nextIndex'), <<P!BlockDelta(nextIndex, "text", x)>>,
               At("content", open', nextIndex'))
      BY <1>1, <2>3, DeltaPath
    <3>3. Path(client, out \o EmitStart \o OpenBlock("text", ""),
               At("content", open', nextIndex'))
      BY <1>3, <3>1, PathConcat
    <3>4. Path(client, out', At("content", open', nextIndex'))
      BY <2>3, <3>2, <3>3, PathConcat
    <3>5. open' \in [kind: P!Kinds, index: Nat] \cup {NoOpen}
      BY <1>1, <2>3
    <3> QED
      BY <1>1, <1>5, <2>1, <2>3, <3>4, <3>5, ArriveKeeps DEF Content
  <2> QED
    BY <1>5, <2>2, <2>3 DEF Content
<1>6. ASSUME NEW t \in Tools, NEW a \in Fragments \cup {""}, NewTool(t, a) PROVE IInv'
  <2> DEFINE delta == IF a = "" THEN <<>> ELSE <<P!BlockDelta(nextIndex, "tool_use", a)>>
  <2>1. [part |-> "tool", tool |-> t, data |-> a] \in Part
    BY DEF Part
  <2>2. /\ out' = out \o EmitStart \o OpenBlock("tool_use", t) \o delta
        /\ open' = [kind |-> "tool_use", index |-> nextIndex]
        /\ nextIndex' = nextIndex + 1
    BY <1>6 DEF NewTool
  <2>3. Path(At("content", open, nextIndex), OpenBlock("tool_use", t),
             At("content", open', nextIndex'))
    BY <1>1, <2>2, OpenPath DEF Names
  <2>4. Path(At("content", open', nextIndex'), delta, At("content", open', nextIndex'))
    <3>1. CASE a = ""
      BY <3>1, PathNone
    <3>2. CASE a # ""
      BY <1>1, <2>2, <3>2, DeltaPath
    <3> QED
      BY <3>1, <3>2
  <2> HIDE DEF delta
  <2>5. Path(client, out \o EmitStart \o OpenBlock("tool_use", t),
             At("content", open', nextIndex'))
    BY <1>3, <2>3, PathConcat
  <2>6. Path(client, out', At("content", open', nextIndex'))
    BY <2>2, <2>4, <2>5, PathConcat
  <2>7. open' \in [kind: P!Kinds, index: Nat] \cup {NoOpen}
    BY <1>1, <2>2
  <2>8. toolBlocks' \in [Tools -> Blocks]
    <3>1. nextIndex \in Blocks
      BY <1>1 DEF Blocks
    <3>2. toolBlocks' = [toolBlocks EXCEPT ![t] = nextIndex]
      BY <1>6 DEF NewTool
    <3> QED
      BY <1>1, <3>1, <3>2
  <2> QED
    BY <1>1, <1>6, <2>1, <2>2, <2>6, <2>7, <2>8, ArriveKeeps DEF NewTool
<1>7. ASSUME NEW t \in Tools, NEW a \in Fragments \cup {""}, MoreTool(t, a) PROVE IInv'
  <2>1. [part |-> "tool", tool |-> t, data |-> a] \in Part
    BY DEF Part
  <2>2. started /\ started' = TRUE
    BY <1>7 DEF IInv, TypeOK, MoreTool
  <2>3. Path(client, out, At("content", open, nextIndex)) /\ out \in Seq(Event)
    BY <1>2, <2>2 DEF IInv, PhaseNow, Path
  <2>4. Path(client, out', At("content", open, nextIndex))
    <3>1. CASE a # "" /\ open = [kind |-> "tool_use", index |-> toolBlocks[t]]
      <4> DEFINE e == P!BlockDelta(toolBlocks[t], "tool_use", a)
      <4>1. toolBlocks[t] \in Nat
        BY <1>1, <1>7 DEF MoreTool, Blocks
      <4>2. Path(At("content", open, nextIndex), <<e>>, At("content", open, nextIndex))
        BY <1>1, <3>1, <4>1, DeltaPath
      <4>3. out' = Append(out, e) /\ e \in Event
        BY <1>1, <1>7, <3>1, <4>1, EventTypes DEF MoreTool
      <4>4. out' = out \o <<e>>
        BY <2>3, <4>3, AppendIsConcat
      <4> QED
        BY <2>3, <4>2, <4>4, PathConcat
    <3>2. CASE ~(a # "" /\ open = [kind |-> "tool_use", index |-> toolBlocks[t]])
      BY <1>7, <2>3, <3>2 DEF MoreTool
    <3> QED
      BY <3>1, <3>2
  <2> QED
    BY <1>1, <1>7, <2>1, <2>2, <2>4, ArriveKeeps DEF MoreTool
<1>8. ASSUME NEW reason \in Reasons, FinishReason(reason) PROVE IInv'
  <2>1. [part |-> "finish", data |-> reason] \in Part
    BY DEF Part
  <2>2. Path(At("content", open, nextIndex), CloseOpenBlock, At("content", NoOpen, nextIndex))
    BY <1>1, ClosePath
  <2>3. Path(client, out', At("content", open', nextIndex'))
    BY <1>3, <1>8, <2>2, PathConcat DEF FinishReason
  <2>4. stopReason' \in {"end_turn", "max_tokens", "tool_use"}
    BY <1>8 DEF FinishReason, MapStopReason
  <2> QED
    BY <1>1, <1>8, <2>1, <2>3, <2>4, ArriveKeeps DEF FinishReason
<1>9. ASSUME NEW n \in Counts, Usage(n) PROVE IInv'
  <2>1. [part |-> "usage", data |-> n] \in Part
    BY DEF Part
  <2> QED
    BY <1>1, <1>3, <1>9, <2>1, ArriveKeeps DEF Usage
<1>10. CASE DoneLine
  <2>1. [part |-> "done"] \in Part
    BY DEF Part
  <2>2. /\ mode' = mode /\ mode = "ingest" /\ done' = TRUE
        /\ parts' = Append(parts, [part |-> "done"])
        /\ UNCHANGED <<finished, client, out, started, open, nextIndex, toolBlocks,
                       stopReason, outputTokens>>
    BY <1>10 DEF DoneLine, Arrive
  <2>3. parts' \in Seq(Part)
    BY <1>1, <2>1, <2>2 DEF TypeOK
  <2>4. TypeOK'
    BY <1>1, <2>2, <2>3 DEF TypeOK
  <2>5. PhaseNow' = PhaseNow
    BY <2>2 DEF PhaseNow
  <2> QED
    BY <2>2, <2>4, <2>5 DEF IInv
<1> QED
  BY <1>4, <1>5, <1>6, <1>7, <1>8, <1>9, <1>10 DEF Ingest

LEMMA PairIsConcat == ASSUME NEW x, NEW y PROVE <<x>> \o <<y>> = <<x, y>>
<1> DEFINE S == {x, y}
<1>1. <<x>> \in Seq(S) /\ <<y>> \in Seq(S) /\ <<x, y>> \in Seq(S)
  OBVIOUS
<1>2. /\ <<x>> \o <<y>> \in Seq(S) /\ Len(<<x>> \o <<y>>) = 2
      /\ (<<x>> \o <<y>>)[1] = x /\ (<<x>> \o <<y>>)[2] = y
  BY <1>1, ConcatProperties
<1>3. Len(<<x, y>>) = 2 /\ <<x, y>>[1] = x /\ <<x, y>>[2] = y
  OBVIOUS
<1> DEFINE s == <<x>> \o <<y>>
           t == <<x, y>>
<1>4. s \in Seq(S) /\ t \in Seq(S) /\ Len(s) = Len(t) /\ \A i \in 1 .. Len(s) : s[i] = t[i]
  <2>1. s \in Seq(S) /\ t \in Seq(S) /\ Len(s) = 2 /\ Len(t) = 2
    BY <1>1, <1>2, <1>3
  <2>2. s[1] = t[1] /\ s[2] = t[2]
    BY <1>2, <1>3
  <2> HIDE DEF s, t
  <2>3. ASSUME NEW i \in 1 .. Len(s) PROVE i = 1 \/ i = 2
    BY <2>1
  <2> QED
    BY <2>1, <2>2, <2>3
<1> HIDE DEF s, t, S
<1>5. s = t
  BY <1>4, SeqEqual
<1> QED
  BY <1>5 DEF s, t

\* The closing events, and the message is over.
LEMMA FinalizeKeeps ==
  ASSUME IInv, ~finished, Finalize, mode' = "poll", UNCHANGED <<parts, client>>
  PROVE  IInv'
<1> DEFINE c == At("content", NoOpen, nextIndex)
           d == At("ending", NoOpen, nextIndex)
           e == At("over", NoOpen, nextIndex)
           close == P!MessageDelta(stopReason, outputTokens)
<1>1. /\ TypeOK /\ nextIndex \in Nat
      /\ stopReason \in {"end_turn", "max_tokens", "tool_use"} /\ outputTokens \in Counts \cup {0}
  BY DEF IInv, TypeOK
<1>2. Path(client, out \o EmitStart, At("content", open, nextIndex))
  BY StartPath
<1>3. Path(client, out \o EmitStart \o CloseOpenBlock, c)
  BY <1>1, <1>2, ClosePath, PathConcat
<1>4. close \in Event /\ P!MessageStop \in Event
  BY <1>1, EventTypes
<1>5. P!Legal(c, close) /\ P!After(c, close) = d
  BY DEF P!Legal, P!After, P!MessageDelta, At, NoOpen, P!NoBlock
<1>6. P!Legal(d, P!MessageStop) /\ P!After(d, P!MessageStop) = e
  BY DEF P!Legal, P!After, P!MessageStop, At, NoOpen, P!NoBlock
<1>7. Path(c, <<close>>, d) /\ Path(d, <<P!MessageStop>>, e)
  BY <1>4, <1>5, <1>6, PathOne
<1>8. <<close>> \o <<P!MessageStop>> = <<close, P!MessageStop>>
  BY PairIsConcat
<1>9. Path(c, <<close, P!MessageStop>>, e)
  <2> HIDE DEF c, d, e, close
  <2> QED
    BY <1>7, <1>8, PathConcat
<1>10. Path(client, out', e)
  BY <1>3, <1>9, PathConcat DEF Finalize
<1>11. TypeOK' /\ started' = TRUE /\ finished' = TRUE /\ open' = NoOpen /\ nextIndex' = nextIndex
  BY <1>1 DEF Finalize, TypeOK
<1>12. e = At(PhaseNow', open', nextIndex') /\ client' = client
  BY <1>11 DEF PhaseNow
<1> QED
  BY <1>10, <1>11, <1>12 DEF IInv

\* What the queue starts with is legal, and leaves the parser in a proper state.
LEMMA PullStep ==
  ASSUME IInv, Pull
  PROVE  P!Legal(client, Head(out)) /\ client' = P!After(client, Head(out)) /\ IInv'
<1> DEFINE e == Head(out)
<1>1. out # <<>> /\ out \in Seq(Event) /\ Path(client, out, At(PhaseNow, open, nextIndex))
  BY DEF IInv, Pull, Path
<1>2. P!Legal(client, e) /\ Path(P!After(client, e), Tail(out), At(PhaseNow, open, nextIndex))
  BY <1>1, PathPop
<1>3. e \in Event
  BY <1>1, HeadTailProperties
<1>4. /\ client' = P!After(client, e) /\ out' = Tail(out)
      /\ UNCHANGED <<mode, done, started, finished, open, nextIndex, toolBlocks, stopReason,
                     outputTokens, parts>>
  BY DEF Pull, state
<1>5. P!After(client, e) \in [phase: {"waiting", "content", "ending", "over"}, block: Blocks,
                              kind: P!Kinds \cup {"none"}, next: Nat]
  <2> DEFINE Parser == [phase: {"waiting", "content", "ending", "over"}, block: Blocks,
                        kind: P!Kinds \cup {"none"}, next: Nat]
  <2>1. client \in Parser
    BY DEF IInv, TypeOK
  <2>2. CASE e \in {P!MessageStart, P!MessageStop}
    BY <2>1, <2>2 DEF P!After, P!MessageStart, P!MessageStop
  <2>3. CASE e \in Starts
    <3>1. PICK i \in Nat, k \in P!Kinds, t \in Names : e = P!BlockStart(i, k, t)
      BY <2>3 DEF Starts
    <3>2. e.type = "content_block_start" /\ e.index = i /\ e.kind = k
      BY <3>1 DEF P!BlockStart
    <3>3. P!After(client, e) = [client EXCEPT !.block = i, !.kind = k, !.next = i + 1]
      BY <3>2 DEF P!After
    <3>4. i \in Blocks /\ i + 1 \in Nat
      BY DEF Blocks
    <3> QED
      BY <2>1, <3>3, <3>4
  <2>4. CASE e \in Deltas
    <3>1. e.type = "content_block_delta"
      <4>1. PICK i \in Nat, k \in P!Kinds, d \in Texts \cup Fragments : e = P!BlockDelta(i, k, d)
        BY <2>4 DEF Deltas
      <4> QED
        BY <4>1 DEF P!BlockDelta
    <3>2. P!After(client, e) = client
      BY <3>1 DEF P!After
    <3> QED
      BY <2>1, <3>2
  <2>5. CASE e \in Stops
    <3>1. e.type = "content_block_stop"
      <4>1. PICK i \in Nat : e = P!BlockStop(i)
        BY <2>5 DEF Stops
      <4> QED
        BY <4>1 DEF P!BlockStop
    <3>2. P!After(client, e) = [client EXCEPT !.block = P!NoBlock, !.kind = "none"]
      BY <3>1 DEF P!After
    <3> QED
      BY <2>1, <3>2 DEF Blocks
  <2>6. CASE e \in Closings
    <3>1. e.type = "message_delta"
      <4>1. PICK r \in {"end_turn", "max_tokens", "tool_use"}, n \in Counts \cup {0} :
              e = P!MessageDelta(r, n)
        BY <2>6 DEF Closings
      <4> QED
        BY <4>1 DEF P!MessageDelta
    <3>2. P!After(client, e) = [client EXCEPT !.phase = "ending"]
      BY <3>1 DEF P!After
    <3> QED
      BY <2>1, <3>2
  <2> QED
    BY <1>3, <2>2, <2>3, <2>4, <2>5, <2>6 DEF Event
<1>6. TypeOK'
  BY <1>4, <1>5 DEF IInv, TypeOK
<1>7. PhaseNow' = PhaseNow
  BY <1>4 DEF PhaseNow
<1>8. Path(client', out', At(PhaseNow', open', nextIndex'))
  BY <1>2, <1>4, <1>7
<1>9. IInv'
  BY <1>4, <1>6, <1>8 DEF IInv
<1> QED
  BY <1>2, <1>4, <1>9

\* A step that only moves the polling loop.
LEMMA LoopKeeps ==
  ASSUME IInv, UNCHANGED <<state, out, parts, client>>,
         mode' \in {"poll", "ingest", "closed", "dropped"}, mode' = "ingest" => ~finished
  PROVE  IInv'
<1>1. TypeOK'
  BY DEF IInv, TypeOK, state
<1>2. PhaseNow' = PhaseNow
  BY DEF PhaseNow, state
<1> QED
  BY <1>1, <1>2 DEF IInv, state

LEMMA NextIInv == ASSUME IInv, [Next]_vars PROVE IInv'
<1>1. CASE Ingest
  BY <1>1, IngestKeeps
<1>2. CASE Pull
  BY <1>2, PullStep
<1>3. CASE Close
  BY <1>3, LoopKeeps DEF Close
<1>4. CASE Read
  BY <1>4, LoopKeeps DEF Read
<1>5. CASE EndIngest
  <2>1. ~finished
    BY <1>5 DEF EndIngest, IInv
  <2>2. CASE Finalize
    BY <1>5, <2>1, <2>2, FinalizeKeeps DEF EndIngest
  <2>3. CASE UNCHANGED <<state, out>>
    BY <1>5, <2>3, LoopKeeps DEF EndIngest
  <2> QED
    BY <1>5, <2>2, <2>3 DEF EndIngest
<1>6. CASE UpstreamEnds
  BY <1>6, FinalizeKeeps DEF UpstreamEnds
<1>7. CASE Drop
  BY <1>7, LoopKeeps DEF Drop
<1>8. CASE UNCHANGED vars
  <2>1. UNCHANGED <<state, out, parts, client>> /\ mode' = mode
    BY <1>8 DEF vars
  <2>2. mode \in {"poll", "ingest", "closed", "dropped"} /\ (mode = "ingest" => ~finished)
    BY DEF IInv, TypeOK
  <2> QED
    BY <2>1, <2>2, LoopKeeps
<1> QED
  BY <1>1, <1>2, <1>3, <1>4, <1>5, <1>6, <1>7, <1>8 DEF Next, Ended

-----------------------------------------------------------------------------
\* The queue always leads the client, by legal events only, to the phase, the
\* open block and the next index that the translator's own state names.
THEOREM Invariance == Spec => []IInv
<1>1. Init => IInv
  BY InitIInv
<1>2. IInv /\ [Next]_vars => IInv'
  BY NextIInv
<1> QED
  BY <1>1, <1>2, PTL DEF Spec

\* Every variable keeps its type.
THEOREM TypeCorrect == Spec => []TypeOK
<1>1. IInv => TypeOK
  BY DEF IInv
<1> QED
  BY <1>1, Invariance, PTL

-----------------------------------------------------------------------------
\* A stream that is closed is a whole message: the client has pulled all there was,
\* message_stop included.  translate returns None in no other state.
ClosedIsWhole == mode = "closed" => out = <<>> /\ finished /\ client.phase = "over"

\* The stream is only ever closed behind message_stop, for any parts and reads.
THEOREM MessageIsWhole == Spec => []ClosedIsWhole
<1> DEFINE Shut == mode = "closed" => out = <<>> /\ finished
<1>1. Init => Shut
  BY DEF Init
<1>2. Shut /\ [Next]_vars => Shut'
  BY DEF Next, Ingest, Blank, Content, NewTool, MoreTool, FinishReason, Usage, DoneLine, Arrive,
         Pull, Close, Read, EndIngest, UpstreamEnds, Drop, Ended, vars, state
<1>3. IInv /\ Shut => ClosedIsWhole
  <2> SUFFICES ASSUME IInv, Shut, mode = "closed" PROVE client.phase = "over"
    BY DEF ClosedIsWhole
  <2>1. Path(client, <<>>, At("over", open, nextIndex))
    BY DEF IInv, PhaseNow
  <2>2. client = At("over", open, nextIndex)
    BY <2>1, PathNone DEF Path
  <2> QED
    BY <2>2 DEF At
<1> QED
  BY <1>1, <1>2, <1>3, Invariance, PTL DEF Spec

\* The steps the adapter has left if the upstream sends no more: the queued events,
\* four that end the message, and the way out of the polling loop.
Work ==
  Len(out) + (IF finished THEN 0 ELSE 5)
           + (CASE mode = "ingest" -> 2 [] mode = "poll" -> 1 [] OTHER -> 0)

\* A stream that goes on and on is one whose upstream does: every step reads on or
\* brings the stream nearer to its end.
OnlyUpstreamGoesOn == [][mode' = "ingest" \/ (Work \in Nat /\ Work' \in Nat /\ Work' < Work)]_vars

LEMMA AtMostOne ==
  ASSUME NEW x, NEW s, s = <<>> \/ s = <<x>>
  PROVE  s \in Seq({x}) /\ Len(s) <= 1
<1>1. CASE s = <<>>
  BY <1>1
<1>2. CASE s = <<x>>
  <2>1. Len(<<x>>) = 1 /\ <<x>> \in Seq({x})
    OBVIOUS
  <2> QED
    BY <1>2, <2>1
<1> QED
  BY <1>1, <1>2

\* What ends a message is at most four events.
LEMMA FinalizeQueues ==
  ASSUME IInv, Finalize
  PROVE  Len(out') \in Nat /\ Len(out') <= Len(out) + 4 /\ finished'
<1> DEFINE end == <<P!MessageDelta(stopReason, outputTokens), P!MessageStop>>
           start == EmitStart
           close == CloseOpenBlock
<1>1. out \in Seq(Event)
  BY DEF IInv, Path
<1>2. start \in Seq({P!MessageStart}) /\ Len(start) <= 1
  BY AtMostOne DEF EmitStart
<1>3. close \in Seq({P!BlockStop(open.index)}) /\ Len(close) <= 1
  BY AtMostOne DEF CloseOpenBlock
<1>4. end \in Seq({P!MessageDelta(stopReason, outputTokens), P!MessageStop}) /\ Len(end) = 2
  OBVIOUS
<1>5. out' = out \o start \o close \o end /\ finished'
  BY DEF Finalize
<1> HIDE DEF start, close, end
<1> DEFINE Sent == Event \cup {P!MessageStart, P!BlockStop(open.index), P!MessageStop,
                               P!MessageDelta(stopReason, outputTokens)}
<1>6. out \in Seq(Sent) /\ start \in Seq(Sent) /\ close \in Seq(Sent) /\ end \in Seq(Sent)
  BY <1>1, <1>2, <1>3, <1>4
<1> HIDE DEF Sent
<1>7. /\ out \o start \in Seq(Sent) /\ Len(out \o start) = Len(out) + Len(start)
  BY <1>6, ConcatProperties
<1>8. /\ out \o start \o close \in Seq(Sent)
      /\ Len(out \o start \o close) = Len(out \o start) + Len(close)
  BY <1>6, <1>7, ConcatProperties
<1>9. Len(out') = Len(out \o start \o close) + Len(end)
  BY <1>5, <1>6, <1>8, ConcatProperties
<1>10. Len(out) \in Nat /\ Len(start) \in Nat /\ Len(close) \in Nat
  BY <1>6, LenProperties
<1> QED
  BY <1>2, <1>3, <1>4, <1>5, <1>7, <1>8, <1>9, <1>10

\* The adapter goes on only as long as the upstream: without a further read it takes
\* no more steps than it has events queued, and six.
THEOREM StepsRunOut == Spec => OnlyUpstreamGoesOn
<1>1. ASSUME IInv, Next, mode' # "ingest"
      PROVE  (Work \in Nat /\ Work' \in Nat /\ Work' < Work) \/ UNCHANGED vars
  <2>1. out \in Seq(Event) /\ Len(out) \in Nat /\ finished \in BOOLEAN
    BY <1>1, LenProperties DEF IInv, Path, TypeOK
  <2>2. CASE Pull
    <3>1. /\ mode = "poll" /\ mode' = "poll" /\ finished' = finished
          /\ Len(out') \in Nat /\ Len(out') = Len(out) - 1
      BY <2>1, <2>2, HeadTailProperties DEF Pull, state
    <3>2. (mode # "ingest" /\ mode = "poll")' /\ mode # "ingest"
      BY <3>1
    <3> DEFINE l == Len(out)
               m == Len(out)'
    <3>3. l \in Nat /\ m \in Nat /\ m = l - 1
      BY <2>1, <3>1
    <3>4. Work = l + (IF finished THEN 0 ELSE 5) + 1 /\ Work' = m + (IF finished THEN 0 ELSE 5) + 1
      BY <3>1, <3>2 DEF Work
    <3> HIDE DEF l, m
    <3> QED
      BY <2>1, <3>3, <3>4
  <2>3. CASE Close \/ Drop
    <3>1. mode = "poll" /\ mode' \in {"closed", "dropped"} /\ finished' = finished /\ out' = out
      BY <2>3 DEF Close, Drop, state
    <3>2. Work = Len(out) + (IF finished THEN 0 ELSE 5) + 1
      BY <3>1 DEF Work
    <3>3. Work' = Len(out) + (IF finished THEN 0 ELSE 5) + 0
      BY <3>1 DEF Work
    <3> QED
      BY <2>1, <3>2, <3>3
  <2>4. CASE EndIngest /\ ~done
    <3>1. mode = "ingest" /\ mode' = "poll" /\ finished' = finished /\ out' = out
      BY <2>4 DEF EndIngest, state
    <3> QED
      BY <2>1, <3>1 DEF Work
  <2>5. CASE Finalize /\ ~finished /\ mode \in {"poll", "ingest"} /\ mode' = "poll"
    BY <1>1, <2>1, <2>5, FinalizeQueues DEF Work
  <2>6. CASE UpstreamEnds
    <3>1. mode = "poll" /\ mode' = "poll" /\ ~finished /\ Finalize
      BY <2>6 DEF UpstreamEnds
    <3> QED
      BY <2>5, <3>1
  <2>7. CASE EndIngest /\ done
    <3>1. mode = "ingest" /\ mode' = "poll" /\ ~finished /\ Finalize
      BY <1>1, <2>7 DEF EndIngest, IInv
    <3> QED
      BY <2>5, <3>1
  <2>8. ~Ingest /\ ~Read
    BY <1>1 DEF Ingest, Blank, Content, NewTool, MoreTool, FinishReason, Usage, DoneLine, Arrive,
                Read
  <2> QED
    BY <1>1, <2>2, <2>3, <2>4, <2>6, <2>7, <2>8 DEF Next, Ended
<1>2. IInv /\ [Next]_vars
        => [mode' = "ingest" \/ (Work \in Nat /\ Work' \in Nat /\ Work' < Work)]_vars
  BY <1>1
<1> QED
  BY <1>2, Invariance, PTL DEF Spec, OnlyUpstreamGoesOn

-----------------------------------------------------------------------------
\* What Kept keeps.  Induction over a sequence goes by WFMin, as the set of the
\* lengths a claim fails for.

\* A set of numbers that has 0 and, with a number, the next, has them all.
LEMMA SetInduction ==
  ASSUME NEW S, 0 \in S, \A n \in Nat : n \in S => n + 1 \in S
  PROVE  \A n \in Nat : n \in S
<1> SUFFICES ASSUME NEW n \in Nat, n \notin S PROVE FALSE
  OBVIOUS
<1> DEFINE R == OpToRel(<, Nat)
           T == Nat \ S
<1>1. T \subseteq Nat /\ T # {}
  OBVIOUS
<1>2. IsWellFoundedOn(R, Nat)
  BY NatLessThanWellFounded
<1> HIDE DEF R, T
<1>3. PICK m \in T : \A k \in T : ~ (<<k, m>> \in R)
  BY <1>1, <1>2, WFMin
<1>4. m \in Nat /\ m \notin S /\ m # 0
  BY <1>3 DEF T
<1>5. m - 1 \in Nat /\ m - 1 \notin S
  BY <1>4
<1>6. <<m - 1, m>> \in R
  BY <1>4, <1>5 DEF R, OpToRel
<1> QED
  BY <1>3, <1>5, <1>6 DEF T

\* f[i] is what is kept of the first i elements of s, for i up to n.
Runs(f, s, T, n) == f = [i \in 0 .. n |-> IF i = 0 THEN <<>> ELSE Keep(f[i - 1], s[i], T)]

\* The same, one value at a time.
LEMMA RunsIs ==
  ASSUME NEW f, NEW s, NEW T, NEW n \in Nat
  PROVE  Runs(f, s, T, n) <=>
           /\ f = [i \in 0 .. n |-> f[i]]
           /\ f[0] = <<>>
           /\ \A i \in 1 .. n : f[i] = Keep(f[i - 1], s[i], T)
<1> DEFINE Step(i) == IF i = 0 THEN <<>> ELSE Keep(f[i - 1], s[i], T)
<1>1. Step(0) = <<>> /\ \A i \in 1 .. n : Step(i) = Keep(f[i - 1], s[i], T)
  OBVIOUS
<1>2. Runs(f, s, T, n) <=> f = [i \in 0 .. n |-> Step(i)]
  BY DEF Runs
<1> HIDE DEF Step
<1>3. ASSUME f = [i \in 0 .. n |-> Step(i)]
      PROVE  f = [i \in 0 .. n |-> f[i]] /\ \A i \in 0 .. n : f[i] = Step(i)
  BY <1>3, Zenon
<1>4. ASSUME f = [i \in 0 .. n |-> f[i]], \A i \in 0 .. n : f[i] = Step(i)
      PROVE  f = [i \in 0 .. n |-> Step(i)]
  <2>1. [i \in 0 .. n |-> f[i]] = [i \in 0 .. n |-> Step(i)]
    BY <1>4
  <2> QED
    BY <1>4, <2>1, Zenon
<1>5. 0 \in 0 .. n /\ \A i \in 0 .. n : i = 0 \/ i \in 1 .. n
  OBVIOUS
<1>6. 1 .. n \subseteq 0 .. n
  OBVIOUS
<1>7. (\A i \in 0 .. n : f[i] = Step(i)) <=>
        f[0] = <<>> /\ \A i \in 1 .. n : f[i] = Keep(f[i - 1], s[i], T)
  BY <1>1, <1>5, <1>6, Zenon
<1> QED
  BY <1>2, <1>3, <1>4, <1>7, Zenon

\* There is such an f for every length,
LEMMA RunsExists ==
  ASSUME NEW s, NEW T, NEW n \in Nat
  PROVE  \E f : Runs(f, s, T, n)
<1> DEFINE S == {m \in Nat : \E f : Runs(f, s, T, m)}
<1>1. 0 \in S
  <2> DEFINE f == [i \in 0 .. 0 |-> <<>>]
  <2>1. f = [i \in 0 .. 0 |-> f[i]] /\ f[0] = <<>> /\ 1 .. 0 = {}
    OBVIOUS
  <2> HIDE DEF f
  <2> QED
    BY <2>1, RunsIs
<1>2. ASSUME NEW m \in Nat, m \in S PROVE m + 1 \in S
  <2>1. PICK f : Runs(f, s, T, m)
    BY <1>2
  <2> DEFINE x == Keep(f[m], s[m + 1], T)
             New(i) == IF i = m + 1 THEN x ELSE f[i]
             g == [i \in 0 .. m + 1 |-> New(i)]
  <2>2. f[0] = <<>> /\ \A i \in 1 .. m : f[i] = Keep(f[i - 1], s[i], T)
    BY <2>1, RunsIs
  <2>3. New(m + 1) = x /\ \A i \in 0 .. m : New(i) = f[i]
    OBVIOUS
  <2> HIDE DEF New
  <2>4. g = [i \in 0 .. m + 1 |-> g[i]] /\ \A i \in 0 .. m + 1 : g[i] = New(i)
    OBVIOUS
  <2> HIDE DEF g
  <2>5. g[0] = <<>> 
    BY <2>2, <2>3, <2>4
  <2>6. ASSUME NEW i \in 1 .. m + 1 PROVE g[i] = Keep(g[i - 1], s[i], T)
    <3>1. g[i - 1] = f[i - 1]
      BY <2>3, <2>4
    <3>2. CASE i = m + 1
      BY <3>1, <3>2, <2>3, <2>4
    <3>3. CASE i # m + 1
      <4>1. i \in 1 .. m
        BY <3>3
      <4>2. g[i] = f[i]
        BY <4>1, <2>3, <2>4
      <4> QED
        BY <4>1, <4>2, <3>1, <2>2
    <3> QED
      BY <3>2, <3>3
  <2>7. m + 1 \in Nat /\ g = [i \in 0 .. m + 1 |-> g[i]]
    BY <2>4
  <2>8. Runs(g, s, T, m + 1)
    BY <2>5, <2>6, <2>7, RunsIs
  <2> QED
    BY <2>7, <2>8
<1> HIDE DEF S
<1>3. n \in S
  BY <1>1, <1>2, SetInduction
<1> QED
  BY <1>3 DEF S

\* two of them agree as far as the sequences do,
LEMMA RunsAgree ==
  ASSUME NEW s, NEW r, NEW T, NEW m \in Nat, NEW n \in Nat, NEW f, NEW g,
         m <= n, \A i \in 1 .. m : r[i] = s[i],
         Runs(f, s, T, m), Runs(g, r, T, n)
  PROVE  f[m] = g[m]
<1> DEFINE S == {i \in Nat : i <= m => f[i] = g[i]}
<1>1. f[0] = <<>> /\ \A i \in 1 .. m : f[i] = Keep(f[i - 1], s[i], T)
  BY RunsIs
<1>2. g[0] = <<>> /\ \A i \in 1 .. n : g[i] = Keep(g[i - 1], r[i], T)
  BY RunsIs
<1>3. 0 \in S
  BY <1>1, <1>2
<1>4. ASSUME NEW i \in Nat, i \in S PROVE i + 1 \in S
  <2>1. CASE i + 1 <= m
    <3>1. i + 1 \in 1 .. m /\ i + 1 \in 1 .. n /\ (i + 1) - 1 = i
      BY <2>1
    <3>2. f[i + 1] = Keep(f[i], s[i + 1], T) /\ g[i + 1] = Keep(g[i], r[i + 1], T)
      BY <1>1, <1>2, <3>1
    <3>3. f[i] = g[i] /\ r[i + 1] = s[i + 1]
      BY <1>4, <2>1, <3>1
    <3> QED
      BY <3>2, <3>3
  <2> QED
    BY <2>1
<1> HIDE DEF S
<1>5. m \in S
  BY <1>3, <1>4, SetInduction
<1> QED
  BY <1>5 DEF S

\* and Kept is its last value.
LEMMA KeptIs ==
  ASSUME NEW s, NEW T, Len(s) \in Nat
  PROVE  \E f : Runs(f, s, T, Len(s)) /\ Kept(s, T) = f[Len(s)]
<1> DEFINE f == CHOOSE g : Runs(g, s, T, Len(s))
<1>1. Runs(f, s, T, Len(s))
  BY RunsExists
<1>2. Kept(s, T) = f[Len(s)]
  BY DEF Kept, Runs
<1> QED
  BY <1>1, <1>2

\* Nothing is kept of nothing.
LEMMA KeptNone == ASSUME NEW T PROVE Kept(<<>>, T) = <<>>
<1>1. Len(<<>>) = 0
  OBVIOUS
<1>2. PICK f : Runs(f, <<>>, T, 0) /\ Kept(<<>>, T) = f[0]
  BY <1>1, KeptIs
<1> QED
  BY <1>2, RunsIs

\* The one step of the recursion: what an appended element adds.
LEMMA KeptAppend ==
  ASSUME NEW S, NEW T, NEW s \in Seq(S), NEW x \in S
  PROVE  Kept(Append(s, x), T) = Keep(Kept(s, T), x, T)
<1> DEFINE r == Append(s, x)
           n == Len(s)
<1>1. /\ n \in Nat /\ Len(r) = n + 1 /\ r[n + 1] = x
      /\ \A i \in 1 .. n : r[i] = s[i]
  BY AppendProperties, LenProperties
<1>2. PICK f : Runs(f, s, T, n) /\ Kept(s, T) = f[n]
  BY <1>1, KeptIs
<1>3. PICK g : Runs(g, r, T, n + 1) /\ Kept(r, T) = g[n + 1]
  <2> HIDE DEF r
  <2> QED
    BY <1>1, KeptIs
<1> HIDE DEF r, n
<1>4. n <= n + 1
  BY <1>1
<1>5. f[n] = g[n]
  BY <1>1, <1>2, <1>3, <1>4, RunsAgree
<1>6. n + 1 \in 1 .. n + 1 /\ (n + 1) - 1 = n /\ n + 1 \in Nat
  BY <1>1
<1>7. g[n + 1] = Keep(g[(n + 1) - 1], r[n + 1], T)
  BY <1>3, <1>6, RunsIs
<1> QED
  BY <1>1, <1>2, <1>3, <1>5, <1>6, <1>7 DEF r

\* A single element.
LEMMA KeptOne == ASSUME NEW x, NEW T PROVE Kept(<<x>>, T) = Keep(<<>>, x, T)
<1>1. <<x>> = Append(<<>>, x) /\ <<>> \in Seq({x}) /\ x \in {x}
  OBVIOUS
<1> QED
  BY <1>1, KeptAppend, KeptNone

\* A set that has the empty sequence and, with a sequence, each that appends to it.
LEMMA SeqInduction ==
  ASSUME NEW S, NEW H, <<>> \in H, \A s \in Seq(S), x \in S : s \in H => Append(s, x) \in H
  PROVE  Seq(S) \subseteq H
<1> DEFINE N == {n \in Nat : \A s \in Seq(S) : Len(s) = n => s \in H}
<1>1. 0 \in N
  BY EmptySeq
<1>2. ASSUME NEW n \in Nat, n \in N PROVE n + 1 \in N
  <2>1. SUFFICES ASSUME NEW s \in Seq(S), Len(s) = n + 1 PROVE s \in H
    OBVIOUS
  <2>2. PICK r \in Seq(S), x \in S : s = Append(r, x)
    BY <2>1, SequenceEmptyOrAppend
  <2>3. Len(r) = n
    BY <2>1, <2>2, AppendProperties, LenProperties
  <2> QED
    BY <1>2, <2>2, <2>3
<1> HIDE DEF N
<1>3. \A n \in Nat : n \in N
  BY <1>1, <1>2, SetInduction
<1> QED
  BY <1>3, LenProperties DEF N

\* What is kept is in the sequence and in the set.
LEMMA KeptType == ASSUME NEW S, NEW T, NEW s \in Seq(S) PROVE Kept(s, T) \in Seq(S \cap T)
<1> DEFINE H == {r \in Seq(S) : Kept(r, T) \in Seq(S \cap T)}
<1>1. <<>> \in H
  <2>1. <<>> \in Seq(S) /\ <<>> \in Seq(S \cap T)
    OBVIOUS
  <2> QED
    BY <2>1, KeptNone
<1>2. ASSUME NEW r \in Seq(S), NEW x \in S, r \in H PROVE Append(r, x) \in H
  <2>1. Kept(Append(r, x), T) = Keep(Kept(r, T), x, T)
    BY KeptAppend
  <2>2. Append(r, x) \in Seq(S)
    BY AppendProperties
  <2>3. Keep(Kept(r, T), x, T) \in Seq(S \cap T)
    BY <1>2, AppendProperties DEF Keep
  <2> QED
    BY <2>1, <2>2, <2>3
<1> HIDE DEF H
<1>3. Seq(S) \subseteq H
  BY <1>1, <1>2, SeqInduction
<1> QED
  BY <1>3 DEF H

\* Appending to the second of two sequences.
LEMMA AppendToConcat ==
  ASSUME NEW S, NEW s \in Seq(S), NEW r \in Seq(S), NEW x \in S
  PROVE  s \o Append(r, x) = Append(s \o r, x)
<1>1. /\ Append(r, x) = r \o <<x>> /\ s \o r \in Seq(S) /\ <<x>> \in Seq(S)
  BY AppendIsConcat, ConcatProperties
<1>2. Append(s \o r, x) = (s \o r) \o <<x>>
  BY <1>1, AppendIsConcat
<1> QED
  BY <1>1, <1>2, ConcatAssociative

\* Kept distributes over concatenation.
LEMMA KeptConcat ==
  ASSUME NEW S, NEW T, NEW s \in Seq(S), NEW r \in Seq(S)
  PROVE  Kept(s \o r, T) = Kept(s, T) \o Kept(r, T)
<1> DEFINE H == {q \in Seq(S) : Kept(s \o q, T) = Kept(s, T) \o Kept(q, T)}
<1>1. <<>> \in H
  <2>1. Kept(s, T) \in Seq(S \cap T)
    BY KeptType
  <2>2. s \o <<>> = s /\ Kept(s, T) \o <<>> = Kept(s, T)
    BY <2>1, ConcatEmptySeq
  <2>3. <<>> \in Seq(S)
    OBVIOUS
  <2> QED
    BY <2>2, <2>3, KeptNone
<1>2. ASSUME NEW q \in Seq(S), NEW x \in S, q \in H PROVE Append(q, x) \in H
  <2>1. s \o q \in Seq(S) /\ s \o Append(q, x) = Append(s \o q, x)
    BY AppendToConcat, ConcatProperties
  <2>2. /\ Kept(s \o Append(q, x), T) = Keep(Kept(s \o q, T), x, T)
        /\ Kept(Append(q, x), T) = Keep(Kept(q, T), x, T)
    BY <2>1, KeptAppend
  <2>3. Kept(s, T) \in Seq(S) /\ Kept(q, T) \in Seq(S)
    <3>1. Kept(s, T) \in Seq(S \cap T) /\ Kept(q, T) \in Seq(S \cap T)
      BY KeptType
    <3> QED
      BY <3>1
  <2>4. Keep(Kept(s, T) \o Kept(q, T), x, T) = Kept(s, T) \o Keep(Kept(q, T), x, T)
    <3>1. Kept(s, T) \o Append(Kept(q, T), x) = Append(Kept(s, T) \o Kept(q, T), x)
      BY <2>3, AppendToConcat
    <3> QED
      BY <3>1 DEF Keep
  <2>5. Append(q, x) \in Seq(S)
    BY AppendProperties
  <2> QED
    BY <1>2, <2>2, <2>4, <2>5
<1> HIDE DEF H
<1>3. Seq(S) \subseteq H
  BY <1>1, <1>2, SeqInduction
<1> QED
  BY <1>3 DEF H

-----------------------------------------------------------------------------
\* What each step puts out, as a set of events T tells it.

\* One more element; and a tail without any.
LEMMA KeptOneMore ==
  ASSUME NEW S, NEW T, NEW s \in Seq(S), NEW x \in S
  PROVE  s \o <<x>> \in Seq(S) /\ Kept(s \o <<x>>, T) = Keep(Kept(s, T), x, T)
<1>1. s \o <<x>> = Append(s, x) /\ Append(s, x) \in Seq(S)
  BY AppendIsConcat, AppendProperties
<1> QED
  BY <1>1, KeptAppend

\* A tail of which nothing is kept.
LEMMA KeptNoMore ==
  ASSUME NEW S, NEW T, NEW s \in Seq(S), NEW q \in Seq(S), Kept(q, T) = <<>>
  PROVE  s \o q \in Seq(S) /\ Kept(s \o q, T) = Kept(s, T)
<1>1. Kept(s, T) \in Seq(S \cap T) /\ s \o q \in Seq(S)
  BY KeptType, ConcatProperties
<1>2. Kept(s, T) \o <<>> = Kept(s, T)
  BY <1>1, ConcatEmptySeq
<1>3. Kept(s \o q, T) = Kept(s, T) \o Kept(q, T)
  BY KeptConcat
<1> QED
  BY <1>1, <1>2, <1>3

-----------------------------------------------------------------------------
\* A set of events that tells no message start, block stop or closing event apart.
Quiet(T) ==
  /\ P!MessageStart \notin T /\ P!MessageStop \notin T
  /\ \A i : P!BlockStop(i) \notin T
  /\ \A r, n : P!MessageDelta(r, n) \notin T

\* The sets the properties look through are all quiet.
LEMMA QuietSets == Quiet(TextDeltas) /\ Quiet(ToolStarts) /\ \A i : Quiet(DeltasOf(i))
<1> USE DEF P!MessageStart, P!MessageStop, P!BlockStop, P!MessageDelta
<1>1. Quiet(TextDeltas)
  BY DEF Quiet, TextDeltas
<1>2. Quiet(ToolStarts)
  BY DEF Quiet, ToolStarts
<1>3. ASSUME NEW i PROVE Quiet(DeltasOf(i))
  BY DEF Quiet, DeltasOf
<1> QED
  BY <1>1, <1>2, <1>3

\* What is told apart by kind and index.
LEMMA ToldApart ==
  /\ \A i, k, t : P!BlockStart(i, k, t) \notin TextDeltas
  /\ \A i, j, k, t : P!BlockStart(i, k, t) \notin DeltasOf(j)
  /\ \A i, k, d : P!BlockDelta(i, k, d) \notin ToolStarts
  /\ \A i, t : P!BlockStart(i, "text", t) \notin ToolStarts
  /\ \A i \in Nat, t \in Tools : P!BlockStart(i, "tool_use", t) \in ToolStarts
  /\ \A i \in Nat, d \in Texts : P!BlockDelta(i, "text", d) \in TextDeltas
  /\ \A i, d : P!BlockDelta(i, "tool_use", d) \notin TextDeltas
  /\ \A i, j, k, d : P!BlockDelta(i, k, d) \in DeltasOf(j) => i = j
  /\ \A i \in Nat, k \in P!Kinds, d \in Texts \cup Fragments : P!BlockDelta(i, k, d) \in DeltasOf(i)
<1> USE DEF P!BlockStart, P!BlockDelta
<1>1. /\ \A i, k, t : P!BlockStart(i, k, t) \notin TextDeltas
      /\ \A i \in Nat, d \in Texts : P!BlockDelta(i, "text", d) \in TextDeltas
      /\ \A i, d : P!BlockDelta(i, "tool_use", d) \notin TextDeltas
  BY DEF TextDeltas
<1>2. /\ \A i, k, d : P!BlockDelta(i, k, d) \notin ToolStarts
      /\ \A i, t : P!BlockStart(i, "text", t) \notin ToolStarts
      /\ \A i \in Nat, t \in Tools : P!BlockStart(i, "tool_use", t) \in ToolStarts
  BY DEF ToolStarts
<1>3. /\ \A i, j, k, t : P!BlockStart(i, k, t) \notin DeltasOf(j)
      /\ \A i, j, k, d : P!BlockDelta(i, k, d) \in DeltasOf(j) => i = j
      /\ \A i \in Nat, k \in P!Kinds, d \in Texts \cup Fragments :
           P!BlockDelta(i, k, d) \in DeltasOf(i)
  BY DEF DeltasOf
<1> QED
  BY <1>1, <1>2, <1>3

\* A start and the end of a block are not told.
LEMMA QuietPieces ==
  ASSUME TypeOK, NEW T, Quiet(T)
  PROVE  /\ EmitStart \in Seq(Event) /\ Kept(EmitStart, T) = <<>>
         /\ CloseOpenBlock \in Seq(Event) /\ Kept(CloseOpenBlock, T) = <<>>
<1>1. EmitStart \in Seq(Event) /\ Kept(EmitStart, T) = <<>>
  <2>1. P!MessageStart \in Event
    BY EventTypes
  <2>2. Kept(<<P!MessageStart>>, T) = <<>>
    BY KeptOne DEF Keep, Quiet
  <2> QED
    BY <2>1, <2>2, KeptNone DEF EmitStart
<1>2. CloseOpenBlock \in Seq(Event) /\ Kept(CloseOpenBlock, T) = <<>>
  <2>1. CASE open = NoOpen
    BY <2>1, KeptNone DEF CloseOpenBlock
  <2>2. CASE open # NoOpen
    <3>1. P!BlockStop(open.index) \in Event
      BY <2>2, EventTypes DEF TypeOK
    <3>2. Kept(<<P!BlockStop(open.index)>>, T) = <<>>
      BY KeptOne DEF Keep, Quiet
    <3> QED
      BY <2>2, <3>1, <3>2 DEF CloseOpenBlock
  <2> QED
    BY <2>1, <2>2
<1> QED
  BY <1>1, <1>2

\* With queue o, the events put out are known to be v as far as T tells.
Puts(o, T, v) == o \in Seq(Event) /\ sent \o o \in Seq(Event) /\ Kept(sent \o o, T) = v

\* Untold events change nothing that is known;
LEMMA PutsQuiet ==
  ASSUME sent \in Seq(Event), NEW T, NEW o, NEW v, NEW q \in Seq(Event),
         Puts(o, T, v), Kept(q, T) = <<>>
  PROVE  Puts(o \o q, T, v)
<1>1. o \in Seq(Event) /\ o \o q \in Seq(Event) /\ sent \o o \in Seq(Event)
  BY ConcatProperties DEF Puts
<1>2. sent \o (o \o q) = (sent \o o) \o q
  BY <1>1, ConcatAssociative
<1>3. (sent \o o) \o q \in Seq(Event) /\ Kept((sent \o o) \o q, T) = Kept(sent \o o, T)
  <2> DEFINE s == sent \o o
  <2>1. s \in Seq(Event)
    BY <1>1
  <2> HIDE DEF s
  <2>2. s \o q \in Seq(Event) /\ Kept(s \o q, T) = Kept(s, T)
    BY <2>1, KeptNoMore, SMTT(20)
  <2> QED
    BY <2>2 DEF s
<1> QED
  BY <1>1, <1>2, <1>3 DEF Puts

\* one event changes it by itself at most.
LEMMA PutsOne ==
  ASSUME sent \in Seq(Event), NEW T, NEW o, NEW v, NEW e \in Event, Puts(o, T, v)
  PROVE  Puts(o \o <<e>>, T, Keep(v, e, T))
<1>1. o \in Seq(Event) /\ <<e>> \in Seq(Event) /\ sent \o o \in Seq(Event)
  BY DEF Puts
<1>2. sent \o (o \o <<e>>) = (sent \o o) \o <<e>> /\ o \o <<e>> \in Seq(Event)
  BY <1>1, ConcatAssociative, ConcatProperties
<1>3. /\ (sent \o o) \o <<e>> \in Seq(Event)
      /\ Kept((sent \o o) \o <<e>>, T) = Keep(Kept(sent \o o, T), e, T)
  BY <1>1, KeptOneMore
<1> QED
  BY <1>2, <1>3 DEF Puts

\* A start and the end of the open block, which change nothing, and a new block.
LEMMA PutsOpen ==
  ASSUME TypeOK, sent \in Seq(Event), out \in Seq(Event), NEW T, Quiet(T)
  PROVE  /\ Puts(out \o EmitStart, T, Kept(Emitted, T))
         /\ Puts(out \o EmitStart \o CloseOpenBlock, T, Kept(Emitted, T))
         /\ \A k \in P!Kinds, t \in Names :
              Puts(out \o EmitStart \o OpenBlock(k, t), T,
                   Keep(Kept(Emitted, T), P!BlockStart(nextIndex, k, t), T))
<1>1. Puts(out, T, Kept(Emitted, T))
  BY ConcatProperties DEF Puts, Emitted
<1>2. Puts(out \o EmitStart, T, Kept(Emitted, T))
  BY <1>1, QuietPieces, PutsQuiet
<1>3. Puts(out \o EmitStart \o CloseOpenBlock, T, Kept(Emitted, T))
  BY <1>2, QuietPieces, PutsQuiet
<1>4. ASSUME NEW k \in P!Kinds, NEW t \in Names
      PROVE  Puts(out \o EmitStart \o OpenBlock(k, t), T,
                  Keep(Kept(Emitted, T), P!BlockStart(nextIndex, k, t), T))
  <2> DEFINE e == P!BlockStart(nextIndex, k, t)
             o == out \o EmitStart
  <2>1. e \in Event
    BY EventTypes DEF TypeOK
  <2>2. Puts((o \o CloseOpenBlock) \o <<e>>, T, Keep(Kept(Emitted, T), e, T))
    <3> HIDE DEF e
    <3> QED
      BY <1>3, <2>1, PutsOne
  <2>3. o \in Seq(Event) /\ CloseOpenBlock \in Seq(Event) /\ <<e>> \in Seq(Event)
    <3> HIDE DEF e
    <3> QED
      BY <1>2, <2>1, QuietPieces DEF Puts
  <2> HIDE DEF o, e
  <2>4. (o \o CloseOpenBlock) \o <<e>> = o \o (CloseOpenBlock \o <<e>>)
    BY <2>3, ConcatAssociative
  <2> QED
    BY <2>2, <2>4 DEF OpenBlock, e, o
<1> QED
  BY <1>2, <1>3, <1>4

-----------------------------------------------------------------------------
\* What each step puts out, as far as T tells.
LEMMA ContentPuts ==
  ASSUME IInv, sent \in Seq(Event), NEW x \in Texts, Content(x), NEW T, Quiet(T),
         \A i, t : P!BlockStart(i, "text", t) \notin T
  PROVE  /\ Emitted' \in Seq(Event) /\ open'.index \in Nat /\ open'.kind = "text"
         /\ Kept(Emitted', T) = Keep(Kept(Emitted, T), P!BlockDelta(open'.index, "text", x), T)
<1> DEFINE e == P!BlockDelta(open'.index, "text", x)
<1>1. TypeOK /\ out \in Seq(Event) /\ nextIndex \in Nat /\ sent' = sent
      /\ open \in [kind: P!Kinds, index: Nat] \cup {NoOpen}
      /\ "text" \in P!Kinds /\ "" \in Names
  BY DEF IInv, Path, TypeOK, Content, Arrive, P!Kinds, Names
<1>2. CASE /\ open.kind = "text"
           /\ out' = out \o EmitStart \o <<P!BlockDelta(open.index, "text", x)>>
           /\ UNCHANGED open
  <2>1. open'.index \in Nat /\ open'.kind = "text"
    <3>1. open # NoOpen /\ open' = open
      BY <1>2 DEF NoOpen
    <3>2. open \in [kind: P!Kinds, index: Nat]
      BY <1>1, <3>1
    <3> QED
      BY <1>2, <3>1, <3>2
  <2>2. e \in Event
    BY <1>1, <2>1, EventTypes
  <2>3. out' = (out \o EmitStart) \o <<e>>
    BY <1>2
  <2>4. Puts(out', T, Keep(Kept(Emitted, T), e, T))
    <3> HIDE DEF e
    <3> QED
      BY <1>1, <2>2, <2>3, PutsOpen, PutsOne
  <2> QED
    BY <1>1, <2>1, <2>4 DEF Puts, Emitted
<1>3. CASE /\ out' = out \o EmitStart \o OpenBlock("text", "")
                         \o <<P!BlockDelta(nextIndex, "text", x)>>
           /\ open' = [kind |-> "text", index |-> nextIndex]
  <2>1. open'.index = nextIndex /\ open'.kind = "text"
    BY <1>3
  <2>2. e \in Event
    BY <1>1, <2>1, EventTypes
  <2>3. out' = (out \o EmitStart \o OpenBlock("text", "")) \o <<e>>
    BY <1>3, <2>1
  <2>4. Puts(out \o EmitStart \o OpenBlock("text", ""), T, Kept(Emitted, T))
    BY <1>1, PutsOpen DEF Keep
  <2>5. Puts(out', T, Keep(Kept(Emitted, T), e, T))
    <3> HIDE DEF e
    <3> QED
      BY <1>1, <2>2, <2>3, <2>4, PutsOne
  <2> QED
    BY <1>1, <2>1, <2>5 DEF Puts, Emitted
<1> QED
  BY <1>2, <1>3 DEF Content

\* A new tool puts out the start of its block, and its fragment unless that is empty.
LEMMA NewToolPuts ==
  ASSUME IInv, sent \in Seq(Event), NEW t \in Tools, NEW a \in Fragments \cup {""},
         NewTool(t, a), NEW T, Quiet(T)
  PROVE  LET v == Keep(Kept(Emitted, T), P!BlockStart(nextIndex, "tool_use", t), T)
         IN /\ Emitted' \in Seq(Event)
            /\ Kept(Emitted', T) = IF a = "" THEN v
                                   ELSE Keep(v, P!BlockDelta(nextIndex, "tool_use", a), T)
<1> DEFINE v == Keep(Kept(Emitted, T), P!BlockStart(nextIndex, "tool_use", t), T)
           e == P!BlockDelta(nextIndex, "tool_use", a)
           o == out \o EmitStart \o OpenBlock("tool_use", t)
<1>1. TypeOK /\ out \in Seq(Event) /\ nextIndex \in Nat /\ sent' = sent
      /\ "tool_use" \in P!Kinds /\ t \in Names
  BY DEF IInv, Path, TypeOK, NewTool, Arrive, P!Kinds, Names
<1>2. Puts(o, T, v)
  BY <1>1, PutsOpen
<1>3. CASE a = ""
  <2>1. out' = o \o <<>> /\ o \in Seq(Event)
    BY <1>2, <1>3 DEF NewTool, Puts
  <2>2. out' = o
    BY <2>1, ConcatEmptySeq
  <2> QED
    BY <1>1, <1>2, <1>3, <2>2 DEF Puts, Emitted
<1>4. CASE a # ""
  <2>1. out' = o \o <<e>>
    BY <1>4 DEF NewTool
  <2>2. e \in Event
    BY <1>1, <1>4, EventTypes
  <2>3. Puts(out', T, Keep(v, e, T))
    <3> HIDE DEF e, v, o
    <3> QED
      BY <1>1, <1>2, <2>1, <2>2, PutsOne
  <2> QED
    BY <1>1, <1>4, <2>3 DEF Puts, Emitted
<1> QED
  BY <1>3, <1>4

\* A further fragment is put out while the block of its tool is the open one.
LEMMA MoreToolPuts ==
  ASSUME IInv, sent \in Seq(Event), NEW t \in Tools, NEW a \in Fragments \cup {""},
         MoreTool(t, a), NEW T
  PROVE  /\ Emitted' \in Seq(Event)
         /\ Kept(Emitted', T) =
              IF a # "" /\ open = [kind |-> "tool_use", index |-> toolBlocks[t]]
              THEN Keep(Kept(Emitted, T), P!BlockDelta(toolBlocks[t], "tool_use", a), T)
              ELSE Kept(Emitted, T)
<1> DEFINE e == P!BlockDelta(toolBlocks[t], "tool_use", a)
<1>1. TypeOK /\ out \in Seq(Event) /\ sent' = sent /\ toolBlocks[t] \in Nat
      /\ "tool_use" \in P!Kinds
  BY DEF IInv, Path, TypeOK, MoreTool, Arrive, P!Kinds, Blocks
<1>2. Puts(out, T, Kept(Emitted, T))
  BY <1>1, ConcatProperties DEF Puts, Emitted
<1>3. CASE a # "" /\ open = [kind |-> "tool_use", index |-> toolBlocks[t]]
  <2>1. e \in Event
    BY <1>1, <1>3, EventTypes
  <2>2. out' = Append(out, e)
    BY <1>3 DEF MoreTool
  <2>3. out' = out \o <<e>>
    <3> HIDE DEF e
    <3> QED
      BY <1>1, <2>1, <2>2, AppendIsConcat
  <2>4. Puts(out', T, Keep(Kept(Emitted, T), e, T))
    <3> HIDE DEF e
    <3> QED
      BY <1>1, <1>2, <2>1, <2>3, PutsOne
  <2> QED
    BY <1>1, <1>3, <2>4 DEF Puts, Emitted
<1>4. CASE ~(a # "" /\ open = [kind |-> "tool_use", index |-> toolBlocks[t]])
  <2>1. out' = out
    BY <1>4 DEF MoreTool
  <2> QED
    BY <1>1, <1>2, <1>4, <2>1 DEF Puts, Emitted
<1> QED
  BY <1>3, <1>4

\* Every other part, the end of the message and the steps of the polling loop.
Others == Blank \/ (\E r \in Reasons : FinishReason(r)) \/ (\E n \in Counts : Usage(n))
          \/ DoneLine \/ Pull \/ Close \/ Read \/ EndIngest \/ UpstreamEnds \/ Drop \/ UNCHANGED vars

\* None of these steps is told by a quiet set.
LEMMA OthersPut ==
  ASSUME IInv, sent \in Seq(Event), Others, NEW T, Quiet(T)
  PROVE  Emitted' \in Seq(Event) /\ Kept(Emitted', T) = Kept(Emitted, T)
<1>1. TypeOK /\ out \in Seq(Event) /\ Emitted \in Seq(Event)
  BY ConcatProperties DEF IInv, Path, Emitted
<1>2. ASSUME sent' = sent, NEW o, out' = o, Puts(o, T, Kept(Emitted, T))
      PROVE  Emitted' \in Seq(Event) /\ Kept(Emitted', T) = Kept(Emitted, T)
  BY <1>2 DEF Puts, Emitted
<1>3. CASE Blank \/ \E n \in Counts : Usage(n)
  BY <1>1, <1>2, <1>3, PutsOpen DEF Blank, Usage, Arrive
<1>4. CASE \E r \in Reasons : FinishReason(r)
  BY <1>1, <1>2, <1>4, PutsOpen DEF FinishReason, Arrive
<1>5. ASSUME Finalize, sent' = sent
      PROVE  Emitted' \in Seq(Event) /\ Kept(Emitted', T) = Kept(Emitted, T)
  <2> DEFINE o == out \o EmitStart \o CloseOpenBlock
             c == P!MessageDelta(stopReason, outputTokens)
             e == P!MessageStop
  <2>1. c \in Event /\ e \in Event
    BY <1>1, EventTypes DEF TypeOK
  <2>2. Puts(o, T, Kept(Emitted, T))
    BY <1>1, PutsOpen
  <2>3. out' = o \o <<c, e>> /\ c \notin T /\ e \notin T
    BY <1>5 DEF Finalize, Quiet
  <2> HIDE DEF o, c, e
  <2>4. <<c>> \o <<e>> = <<c, e>>
    BY PairIsConcat
  <2>5. o \o <<c, e>> = (o \o <<c>>) \o <<e>>
    <3> DEFINE p == <<c>>
               q == <<e>>
    <3>1. o \in Seq(Event) /\ p \in Seq(Event) /\ q \in Seq(Event)
      BY <2>1, <2>2 DEF Puts
    <3>2. p \o q = <<c, e>>
      BY <2>4
    <3> HIDE DEF p, q
    <3>3. o \o (p \o q) = (o \o p) \o q
      BY <3>1, ConcatAssociative
    <3> QED
      BY <3>2, <3>3 DEF p, q
  <2>6. Puts((o \o <<c>>) \o <<e>>, T, Kept(Emitted, T))
    <3>1. Puts(o \o <<c>>, T, Kept(Emitted, T))
      BY <2>1, <2>2, <2>3, PutsOne DEF Keep
    <3> QED
      BY <2>1, <2>3, <3>1, PutsOne DEF Keep
  <2> QED
    BY <1>2, <1>5, <2>3, <2>5, <2>6
<1>6. CASE Pull
  <2>1. out # <<>> /\ sent' = Append(sent, Head(out)) /\ out' = Tail(out)
    BY <1>6 DEF Pull
  <2>2. Head(out) \in Event /\ Tail(out) \in Seq(Event) /\ out = <<Head(out)>> \o Tail(out)
    BY <1>1, <2>1, HeadTailProperties, ConcatProperties
  <2>3. Append(sent, Head(out)) = sent \o <<Head(out)>>
    BY <2>2, AppendIsConcat
  <2>4. (sent \o <<Head(out)>>) \o Tail(out) = sent \o (<<Head(out)>> \o Tail(out))
    <3> DEFINE h == <<Head(out)>>
    <3>1. h \in Seq(Event)
      BY <2>2
    <3> HIDE DEF h
    <3> QED
      BY <2>2, <3>1, ConcatAssociative DEF h
  <2>5. Emitted' = Emitted
    BY <2>1, <2>2, <2>3, <2>4 DEF Emitted
  <2> QED
    BY <1>1, <2>5
<1>7. CASE DoneLine \/ Close \/ Read \/ Drop \/ UNCHANGED vars
  <2>1. sent' = sent /\ out' = out
    BY <1>7 DEF DoneLine, Arrive, Close, Read, Drop, vars
  <2> QED
    BY <1>1, <2>1 DEF Emitted
<1>8. CASE EndIngest
  <2>1. sent' = sent /\ (Finalize \/ out' = out)
    BY <1>8 DEF EndIngest
  <2> QED
    BY <1>1, <1>5, <2>1 DEF Emitted
<1>9. CASE UpstreamEnds
  BY <1>5, <1>9 DEF UpstreamEnds
<1> QED
  BY <1>3, <1>4, <1>6, <1>7, <1>8, <1>9 DEF Others

-----------------------------------------------------------------------------
\* The text.

\* The parts that are neither text nor tool.
Plain == [part: {"blank", "done"}] \cup Finishes \cup Usages

\* Every step is one of the three, or one of the others.
LEMMA NextCases ==
  ASSUME IInv, [Next]_vars
  PROVE  \/ \E x \in Texts : Content(x)
         \/ \E t \in Tools, a \in Fragments \cup {""} : NewTool(t, a)
         \/ \E t \in Tools, a \in Fragments \cup {""} : MoreTool(t, a)
         \/ Others
  BY DEF Next, Ingest, Ended, Others

\* The other steps take a part that is neither text nor tool, or none.
LEMMA OthersParts ==
  ASSUME Others
  PROVE  parts' = parts \/ \E p \in Plain : parts' = Append(parts, p)
<1>1. CASE Blank
  <2>1. [part |-> "blank"] \in Plain
    BY DEF Plain
  <2> QED
    BY <1>1, <2>1 DEF Blank, Arrive
<1>2. ASSUME NEW r \in Reasons, FinishReason(r)
      PROVE  \E p \in Plain : parts' = Append(parts, p)
  <2>1. [part |-> "finish", data |-> r] \in Finishes
    BY DEF Finishes
  <2> QED
    BY <1>2, <2>1 DEF Plain, FinishReason, Arrive
<1>3. ASSUME NEW n \in Counts, Usage(n)
      PROVE  \E p \in Plain : parts' = Append(parts, p)
  <2>1. [part |-> "usage", data |-> n] \in Usages
    BY DEF Usages
  <2> QED
    BY <1>3, <2>1 DEF Plain, Usage, Arrive
<1>4. CASE DoneLine
  <2>1. [part |-> "done"] \in Plain
    BY DEF Plain
  <2> QED
    BY <1>4, <2>1 DEF DoneLine, Arrive
<1>5. CASE Pull \/ Close \/ Read \/ EndIngest \/ UpstreamEnds \/ Drop \/ UNCHANGED vars
  BY <1>5 DEF Pull, Close, Read, EndIngest, UpstreamEnds, Drop, vars
<1> QED
  BY <1>1, <1>2, <1>3, <1>4, <1>5 DEF Others

\* Such a part is neither.
LEMMA PlainParts ==
  /\ Plain \subseteq Part
  /\ \A p \in Plain : p \notin TextParts /\ p.part \notin {"text", "tool"}
  /\ \A t : \A p \in Plain : p \notin FragmentsOf(t)
<1>1. Plain \subseteq Part
  BY DEF Plain, Part, Finishes, Usages
<1>2. \A p \in Plain : p.part \in {"blank", "done", "finish", "usage"}
  BY DEF Plain, Finishes, Usages
<1>3. \A p \in TextParts : p.part = "text"
  BY DEF TextParts
<1>4. \A t : \A p \in FragmentsOf(t) : p.part = "tool"
  BY DEF FragmentsOf
<1> QED
  BY <1>1, <1>2, <1>3, <1>4

\* The data of one element more.
LEMMA DataKeep ==
  ASSUME NEW S, NEW T, NEW v \in Seq(S), NEW x \in S
  PROVE  x \in T => Data(Keep(v, x, T)) = Append(Data(v), x.data)
<1> DEFINE D == {y.data : y \in S}
<1>1. Data(v) \in Seq(D) /\ Len(Data(v)) = Len(v) /\ \A i \in 1 .. Len(v) : Data(v)[i] = v[i].data
  BY DEF Data
<1>2. SUFFICES ASSUME x \in T PROVE Data(Keep(v, x, T)) = Append(Data(v), x.data)
  OBVIOUS
<1>3. Data(Append(v, x)) = Append(Data(v), x.data)
  <2> DEFINE w == Append(v, x)
             u == Append(Data(v), x.data)
  <2>1. /\ w \in Seq(S) /\ Len(w) = Len(v) + 1 /\ w[Len(v) + 1] = x
        /\ \A i \in 1 .. Len(v) : w[i] = v[i]
    BY AppendProperties
  <2>2. /\ u \in Seq(D) /\ Len(u) = Len(v) + 1 /\ u[Len(v) + 1] = x.data
        /\ \A i \in 1 .. Len(v) : u[i] = v[i].data
    BY <1>1, AppendProperties
  <2> HIDE DEF w, u
  <2>3. /\ Data(w) \in Seq(D) /\ Len(Data(w)) = Len(v) + 1
        /\ \A i \in 1 .. Len(v) + 1 : Data(w)[i] = w[i].data
    BY <2>1 DEF Data
  <2>4. \A i \in 1 .. Len(v) + 1 : Data(w)[i] = u[i]
    <3>1. ASSUME NEW i \in 1 .. Len(v) + 1 PROVE i = Len(v) + 1 \/ i \in 1 .. Len(v)
      OBVIOUS
    <3>2. Data(w)[Len(v) + 1] = u[Len(v) + 1]
      BY <2>1, <2>2, <2>3
    <3>3. \A i \in 1 .. Len(v) : Data(w)[i] = u[i]
      BY <2>1, <2>2, <2>3
    <3> QED
      BY <3>1, <3>2, <3>3
  <2>5. Data(w) = u
    BY <2>2, <2>3, <2>4, SeqEqual
  <2> QED
    BY <2>5 DEF w, u
<1> QED
  BY <1>2, <1>3 DEF Keep

\* The data of what is kept, one more at a time.
LEMMA KeptData ==
  ASSUME NEW S, NEW T, NEW s \in Seq(S), NEW x \in S
  PROVE  /\ x \in T => Data(Keep(Kept(s, T), x, T)) = Append(Data(Kept(s, T)), x.data)
         /\ x \notin T => Data(Keep(Kept(s, T), x, T)) = Data(Kept(s, T))
<1>1. Kept(s, T) \in Seq(S)
  <2>1. Kept(s, T) \in Seq(S \cap T)
    BY KeptType
  <2> QED
    BY <2>1
<1>2. x \in T => Data(Keep(Kept(s, T), x, T)) = Append(Data(Kept(s, T)), x.data)
  BY <1>1, DataKeep
<1>3. x \notin T => Data(Keep(Kept(s, T), x, T)) = Data(Kept(s, T))
  BY DEF Keep
<1> QED
  BY <1>2, <1>3

\* What an arriving part adds to the data of its kind.
LEMMA PartData ==
  ASSUME NEW T, parts \in Seq(Part), NEW p \in Part, parts' = Append(parts, p)
  PROVE  /\ parts' \in Seq(Part)
         /\ Kept(parts', T) = Keep(Kept(parts, T), p, T)
         /\ p \in T => Data(Kept(parts', T)) = Append(Data(Kept(parts, T)), p.data)
         /\ p \notin T => Data(Kept(parts', T)) = Data(Kept(parts, T))
<1>1. Kept(parts', T) = Keep(Kept(parts, T), p, T) /\ parts' \in Seq(Part)
  BY KeptAppend, AppendProperties
<1> QED
  BY <1>1, KeptData

\* The events pulled are events.
LEMMA SentStep == ASSUME IInv, sent \in Seq(Event), [Next]_vars PROVE sent' \in Seq(Event)
<1>1. out \in Seq(Event)
  BY DEF IInv, Path
<1>2. CASE sent' = sent
  BY <1>2
<1>3. CASE Pull
  BY <1>1, <1>3, HeadTailProperties, AppendProperties DEF Pull
<1> QED
  BY <1>2, <1>3, NextCases
     DEF Content, NewTool, MoreTool, Others, Blank, FinishReason, Usage, DoneLine, Arrive,
         Close, Read, EndIngest, UpstreamEnds, Drop, vars

\* Whatever the upstream sends and wherever it breaks off, the client only
\* receives events that are legal where they come, each when it is due and once:
\* translate implements the Messages streaming protocol.
THEOREM Implements == Spec => SpeaksAnthropic
<1>1. Init => P!Init /\ sent \in Seq(Event)
  BY DEF Init, P!Init
<1>2. IInv /\ sent \in Seq(Event) /\ [Next]_vars => [P!Next]_<<client, sent>>
  <2> SUFFICES ASSUME IInv, sent \in Seq(Event), [Next]_vars
               PROVE  P!Next \/ UNCHANGED <<client, sent>>
    OBVIOUS
  <2>1. CASE Pull
    <3> DEFINE e == Head(out)
    <3>1. P!Legal(client, e) /\ client' = P!After(client, e)
      BY <2>1, PullStep
    <3>2. sent' = Append(sent, e) /\ e \in Event
      <4>1. out # <<>> /\ out \in Seq(Event) /\ sent' = Append(sent, e)
        BY <2>1 DEF IInv, Path, Pull
      <4> QED
        BY <4>1, HeadTailProperties
    <3> HIDE DEF e
    <3>3. /\ Len(sent) \in Nat /\ Len(sent') = Len(sent) + 1 /\ sent'[Len(sent')] = e
      BY <3>2, AppendProperties, LenProperties
    <3> QED
      BY <3>1, <3>2, <3>3 DEF P!Next
  <2>2. CASE Ingest
    BY <2>2 DEF Ingest, Arrive, Blank, Content, NewTool, MoreTool, FinishReason, Usage, DoneLine
  <2>3. CASE Close \/ Read \/ EndIngest \/ UpstreamEnds \/ Drop \/ UNCHANGED vars
    BY <2>3 DEF Close, Read, EndIngest, UpstreamEnds, Drop, vars
  <2> QED
    BY <2>1, <2>2, <2>3 DEF Next, Ended
<1>3. IInv /\ sent \in Seq(Event) /\ [Next]_vars => (sent \in Seq(Event))'
  BY SentStep
<1> QED
  BY <1>1, <1>2, <1>3, Invariance, PTL DEF Spec, SpeaksAnthropic, P!Spec

-----------------------------------------------------------------------------
\* The text inductively: what was put out of it is what came in.
TextInv == sent \in Seq(Event) /\ TextInOrder

\* Text goes out, whole, in the step it comes in.
LEMMA TextStep == IInv /\ TextInv /\ [Next]_vars => TextInv'
<1> SUFFICES ASSUME IInv, TextInv, [Next]_vars PROVE TextInv'
  OBVIOUS
<1>1. /\ TypeOK /\ parts \in Seq(Part) /\ sent \in Seq(Event) /\ out \in Seq(Event)
      /\ Emitted \in Seq(Event) /\ nextIndex \in Nat
  BY ConcatProperties DEF IInv, Path, TypeOK, TextInv, Emitted
<1>3. Quiet(TextDeltas)
  BY QuietSets
<1>4. sent' \in Seq(Event)
  BY <1>1, SentStep
<1>5. ASSUME NEW x \in Texts, Content(x) PROVE TextInOrder'
  <2> DEFINE e == P!BlockDelta(open'.index, "text", x)
             p == [part |-> "text", data |-> x]
  <2>1. /\ open'.index \in Nat
        /\ Kept(Emitted', TextDeltas) = Keep(Kept(Emitted, TextDeltas), e, TextDeltas)
    BY <1>1, <1>3, <1>5, ContentPuts, ToldApart
  <2>2. e \in TextDeltas /\ e.data = x /\ e \in Event
    <3>1. "text" \in P!Kinds
      BY DEF P!Kinds
    <3>2. e \in TextDeltas /\ e \in Event
      BY <2>1, <3>1, ToldApart, EventTypes
    <3> QED
      BY <3>2 DEF P!BlockDelta
  <2>3. p \in TextParts /\ p \in Part /\ p.data = x /\ parts' = Append(parts, p)
    BY <1>5 DEF TextParts, Part, Content, Arrive
  <2> HIDE DEF e, p
  <2>4. Data(Kept(Emitted', TextDeltas)) = Append(Data(Kept(Emitted, TextDeltas)), x)
    <3>1. Data(Keep(Kept(Emitted, TextDeltas), e, TextDeltas))
            = Append(Data(Kept(Emitted, TextDeltas)), x)
      BY <1>1, <2>2, KeptData
    <3> QED
      BY <2>1, <3>1
  <2>5. Data(Kept(parts', TextParts)) = Append(Data(Kept(parts, TextParts)), x)
    BY <1>1, <2>3, PartData
  <2> QED
    BY <2>4, <2>5 DEF TextInv, TextInOrder
<1>6. ASSUME NEW t \in Tools, NEW a \in Fragments \cup {""}, NewTool(t, a) \/ MoreTool(t, a)
      PROVE  TextInOrder'
  <2> DEFINE p == [part |-> "tool", tool |-> t, data |-> a]
  <2>1. Kept(Emitted', TextDeltas) = Kept(Emitted, TextDeltas)
    <3>1. CASE NewTool(t, a)
      BY <1>1, <1>3, <3>1, NewToolPuts, ToldApart DEF Keep
    <3>2. CASE MoreTool(t, a)
      BY <1>1, <3>2, MoreToolPuts, ToldApart DEF Keep
    <3> QED
      BY <1>6, <3>1, <3>2
  <2>2. p \notin TextParts /\ p \in Part /\ parts' = Append(parts, p)
    BY <1>6 DEF TextParts, Part, NewTool, MoreTool, Arrive
  <2> HIDE DEF p
  <2>3. Data(Kept(parts', TextParts)) = Data(Kept(parts, TextParts))
    BY <1>1, <2>2, PartData
  <2> QED
    BY <2>1, <2>3 DEF TextInv, TextInOrder
<1>7. CASE Others
  <2>1. Kept(Emitted', TextDeltas) = Kept(Emitted, TextDeltas)
    BY <1>1, <1>3, <1>7, OthersPut
  <2>2. Data(Kept(parts', TextParts)) = Data(Kept(parts, TextParts))
    <3>1. CASE parts' = parts
      BY <3>1
    <3>2. ASSUME NEW p \in Plain, parts' = Append(parts, p)
          PROVE  Data(Kept(parts', TextParts)) = Data(Kept(parts, TextParts))
      BY <1>1, <3>2, PlainParts, PartData
    <3> QED
      BY <1>7, <3>1, <3>2, OthersParts
  <2> QED
    BY <1>4, <2>1, <2>2 DEF TextInv, TextInOrder
<1> QED
  BY <1>4, <1>5, <1>6, <1>7, NextCases DEF TextInv

\* The text arrives whole and in order.
THEOREM TextArrives == Spec => []TextInOrder
<1>1. Init => TextInv
  <2> SUFFICES ASSUME Init PROVE TextInv
    OBVIOUS
  <2>1. sent = <<>> /\ out = <<>> /\ parts = <<>> /\ <<>> \in Seq(Event)
    BY DEF Init, P!Init
  <2>2. Emitted = <<>>
    BY <2>1 DEF Emitted
  <2> QED
    BY <2>1, <2>2, KeptNone DEF TextInv, TextInOrder
<1>2. TextInv => TextInOrder
  BY DEF TextInv
<1> QED
  BY <1>1, <1>2, TextStep, Invariance, PTL DEF Spec

-----------------------------------------------------------------------------
\* The closing event.

\* All events but the closing message_delta.
Ordinary == {P!MessageStart} \cup Starts \cup Deltas \cup Stops \cup {P!MessageStop}

\* None of these is a closing event.
LEMMA OrdinaryTypes ==
  /\ P!MessageStart \in Ordinary /\ P!MessageStop \in Ordinary
  /\ \A i \in Nat : P!BlockStop(i) \in Ordinary
  /\ \A i \in Nat, k \in P!Kinds, t \in Names : P!BlockStart(i, k, t) \in Ordinary
  /\ \A i \in Nat, k \in P!Kinds, d \in Texts \cup Fragments : P!BlockDelta(i, k, d) \in Ordinary
  /\ \A e \in Ordinary : e.type # "message_delta"
<1>1. ASSUME NEW i \in Nat, NEW k \in P!Kinds, NEW t \in Names
      PROVE  P!BlockStart(i, k, t) \in Starts
  BY DEF Starts
<1>2. ASSUME NEW i \in Nat, NEW k \in P!Kinds, NEW d \in Texts \cup Fragments
      PROVE  P!BlockDelta(i, k, d) \in Deltas
  BY DEF Deltas
<1>3. ASSUME NEW i \in Nat PROVE P!BlockStop(i) \in Stops
  BY DEF Stops
<1>4. (\A e \in Starts : e.type # "message_delta") /\ (\A e \in Stops : e.type # "message_delta")
  BY DEF Starts, Stops, P!BlockStart, P!BlockStop
<1>5. \A e \in Deltas : e.type # "message_delta"
  BY DEF Deltas, P!BlockDelta
<1>6. P!MessageStart.type # "message_delta" /\ P!MessageStop.type # "message_delta"
  BY DEF P!MessageStart, P!MessageStop
<1> QED
  BY <1>1, <1>2, <1>3, <1>4, <1>5, <1>6 DEF Ordinary

\* A message_delta is put out at the end only, and says what is known then.
Allowed == IF finished THEN Ordinary \cup {P!MessageDelta(stopReason, outputTokens)} ELSE Ordinary

ClosingInv ==
  /\ stopReason = LastReason /\ outputTokens = LastCount
  /\ sent \in Seq(Allowed) /\ out \in Seq(Allowed)

\* Then a closing event that was put out says what is known.
LEMMA ClosingInvImplies == ClosingInv => ClosingIsTrue
<1> SUFFICES ASSUME ClosingInv, NEW i \in DOMAIN Emitted, Emitted[i].type = "message_delta"
             PROVE  Emitted[i].reason = LastReason /\ Emitted[i].tokens = LastCount
  BY DEF ClosingIsTrue
<1>1. Emitted \in Seq(Allowed)
  BY ConcatProperties DEF ClosingInv, Emitted
<1>2. Emitted[i] \in Allowed
  BY <1>1
<1>3. Emitted[i] = P!MessageDelta(stopReason, outputTokens)
  BY <1>2, OrdinaryTypes DEF Allowed
<1> QED
  BY <1>3 DEF ClosingInv, P!MessageDelta

\* What a part that arrives makes of the last finish_reason and usage.
LEMMA LastKept ==
  ASSUME parts \in Seq(Part), NEW p \in Part, parts' = Append(parts, p)
  PROVE  /\ p \in Finishes => LastReason' = MapStopReason(p.data)
         /\ p \notin Finishes => LastReason' = LastReason
         /\ p \in Usages => LastCount' = p.data
         /\ p \notin Usages => LastCount' = LastCount
<1>1. ASSUME NEW T
      PROVE  /\ p \in T => Kept(parts', T) # <<>> /\ Last(Kept(parts', T)) = p
             /\ p \notin T => Kept(parts', T) = Kept(parts, T)
  <2>1. Kept(parts', T) = Keep(Kept(parts, T), p, T)
    BY PartData
  <2>2. Kept(parts, T) \in Seq(Part)
    <3>1. Kept(parts, T) \in Seq(Part \cap T)
      BY KeptType
    <3> QED
      BY <3>1
  <2>3. Append(Kept(parts, T), p) # <<>> /\ Last(Append(Kept(parts, T), p)) = p
    BY <2>2, AppendProperties, LenProperties DEF Last
  <2> QED
    BY <2>1, <2>3 DEF Keep
<1>2. p \in Finishes => LastReason' = MapStopReason(p.data)
  BY <1>1 DEF LastReason
<1>3. p \notin Finishes => LastReason' = LastReason
  BY <1>1 DEF LastReason
<1>4. p \in Usages => LastCount' = p.data
  BY <1>1 DEF LastCount
<1>5. p \notin Usages => LastCount' = LastCount
  BY <1>1 DEF LastCount
<1> QED
  BY <1>2, <1>3, <1>4, <1>5

\* The pieces that the parts put out are ordinary.
LEMMA OrdinaryPieces ==
  ASSUME TypeOK
  PROVE  /\ EmitStart \in Seq(Ordinary) /\ CloseOpenBlock \in Seq(Ordinary)
         /\ \A k \in P!Kinds, t \in Names : OpenBlock(k, t) \in Seq(Ordinary)
         /\ \A i \in Nat, k \in P!Kinds, d \in Texts \cup Fragments :
              <<P!BlockDelta(i, k, d)>> \in Seq(Ordinary)
<1>1. EmitStart \in Seq(Ordinary)
  BY OrdinaryTypes DEF EmitStart
<1>2. CloseOpenBlock \in Seq(Ordinary)
  <2>1. open # NoOpen => P!BlockStop(open.index) \in Ordinary
    BY OrdinaryTypes DEF TypeOK
  <2> QED
    BY <2>1 DEF CloseOpenBlock
<1>3. ASSUME NEW k \in P!Kinds, NEW t \in Names PROVE OpenBlock(k, t) \in Seq(Ordinary)
  <2>1. P!BlockStart(nextIndex, k, t) \in Ordinary
    BY OrdinaryTypes DEF TypeOK
  <2> QED
    BY <1>2, <2>1, ConcatProperties DEF OpenBlock
<1>4. ASSUME NEW i \in Nat, NEW k \in P!Kinds, NEW d \in Texts \cup Fragments
      PROVE  <<P!BlockDelta(i, k, d)>> \in Seq(Ordinary)
  BY OrdinaryTypes
<1> QED
  BY <1>1, <1>2, <1>3, <1>4

\* The closing event goes out once, at the end, after which no part arrives.
LEMMA ClosingStep == IInv /\ ClosingInv /\ [Next]_vars => ClosingInv'
<1> SUFFICES ASSUME IInv, ClosingInv, [Next]_vars PROVE ClosingInv'
  OBVIOUS
<1>1. /\ TypeOK /\ parts \in Seq(Part) /\ nextIndex \in Nat
      /\ open \in [kind: P!Kinds, index: Nat] \cup {NoOpen}
      /\ "text" \in P!Kinds /\ "tool_use" \in P!Kinds
      /\ stopReason = LastReason /\ outputTokens = LastCount
      /\ sent \in Seq(Allowed) /\ out \in Seq(Allowed)
  BY DEF IInv, TypeOK, ClosingInv, P!Kinds
<1>2. ASSUME NEW p, Arrive(p), out' \in Seq(Ordinary)
      PROVE  sent' \in Seq(Allowed') /\ out' \in Seq(Allowed')
  BY <1>1, <1>2 DEF Arrive, IInv, Allowed
<1>3. ASSUME mode = "ingest" PROVE ~finished /\ out \in Seq(Ordinary)
  BY <1>1, <1>3 DEF IInv, Allowed
<1>4. ASSUME NEW x \in Texts, Content(x) PROVE ClosingInv'
  <2> DEFINE p == [part |-> "text", data |-> x]
  <2>1. Arrive(p) /\ UNCHANGED <<stopReason, outputTokens>> /\ mode = "ingest"
    BY <1>4 DEF Content, Arrive
  <2>2. p \in Part /\ p \notin Finishes /\ p \notin Usages /\ parts' = Append(parts, p)
    BY <2>1 DEF Part, Finishes, Usages, Arrive
  <2>3. out' \in Seq(Ordinary)
    <3>1. out \o EmitStart \in Seq(Ordinary)
      BY <1>1, <1>3, <2>1, OrdinaryPieces, ConcatProperties
    <3>2. CASE /\ open.kind = "text"
               /\ out' = out \o EmitStart \o <<P!BlockDelta(open.index, "text", x)>>
      <4>1. open.index \in Nat
        BY <1>1, <3>2 DEF NoOpen
      <4>2. <<P!BlockDelta(open.index, "text", x)>> \in Seq(Ordinary)
        BY <1>1, <4>1, OrdinaryPieces
      <4> QED
        BY <3>1, <3>2, <4>2, ConcatProperties
    <3>3. CASE out' = out \o EmitStart \o OpenBlock("text", "")
                          \o <<P!BlockDelta(nextIndex, "text", x)>>
      <4>1. /\ <<P!BlockDelta(nextIndex, "text", x)>> \in Seq(Ordinary)
            /\ OpenBlock("text", "") \in Seq(Ordinary)
        BY <1>1, OrdinaryPieces DEF Names
      <4>2. out \o EmitStart \o OpenBlock("text", "") \in Seq(Ordinary)
        BY <3>1, <4>1, ConcatProperties
      <4> QED
        BY <3>3, <4>1, <4>2, ConcatProperties
    <3> QED
      BY <1>4, <3>2, <3>3 DEF Content
  <2> HIDE DEF p
  <2>4. LastReason' = LastReason /\ LastCount' = LastCount
    BY <1>1, <2>2, LastKept
  <2> QED
    BY <1>1, <1>2, <2>1, <2>3, <2>4 DEF ClosingInv
<1>5. ASSUME NEW t \in Tools, NEW a \in Fragments \cup {""}, NewTool(t, a) \/ MoreTool(t, a)
      PROVE  ClosingInv'
  <2> DEFINE p == [part |-> "tool", tool |-> t, data |-> a]
  <2>1. Arrive(p) /\ UNCHANGED <<stopReason, outputTokens>> /\ mode = "ingest"
    BY <1>5 DEF NewTool, MoreTool, Arrive
  <2>2. p \in Part /\ p \notin Finishes /\ p \notin Usages /\ parts' = Append(parts, p)
    BY <2>1 DEF Part, Finishes, Usages, Arrive
  <2>3. out' \in Seq(Ordinary)
    <3>1. CASE NewTool(t, a)
      <4> DEFINE d == IF a = "" THEN <<>> ELSE <<P!BlockDelta(nextIndex, "tool_use", a)>>
      <4>1. out \o EmitStart \in Seq(Ordinary)
        BY <1>1, <1>3, <2>1, OrdinaryPieces, ConcatProperties
      <4>2. d \in Seq(Ordinary)
        <5>1. a # "" => <<P!BlockDelta(nextIndex, "tool_use", a)>> \in Seq(Ordinary)
          BY <1>1, OrdinaryPieces
        <5>2. CASE a = ""
          <6>1. d = <<>>
            BY <5>2
          <6>2. <<>> \in Seq(Ordinary)
            BY EmptySeq
          <6> QED
            BY <6>1, <6>2, Zenon
        <5>3. CASE a # ""
          BY <5>1, <5>3
        <5> QED
          BY <5>2, <5>3
      <4>5. OpenBlock("tool_use", t) \in Seq(Ordinary)
        BY <1>1, OrdinaryPieces DEF Names
      <4>3. out' = out \o EmitStart \o OpenBlock("tool_use", t) \o d
        BY <3>1 DEF NewTool
      <4> HIDE DEF d
      <4>4. out \o EmitStart \o OpenBlock("tool_use", t) \in Seq(Ordinary)
        BY <4>1, <4>5, ConcatProperties
      <4> QED
        BY <4>2, <4>3, <4>4, ConcatProperties
    <3>2. CASE MoreTool(t, a)
      <4> DEFINE e == P!BlockDelta(toolBlocks[t], "tool_use", a)
      <4>1. toolBlocks[t] \in Nat
        BY <1>1, <3>2 DEF MoreTool, TypeOK, Blocks
      <4>2. a # "" => e \in Ordinary
        BY <1>1, <4>1, OrdinaryTypes
      <4>3. out' = out \/ (a # "" /\ out' = Append(out, e))
        BY <3>2 DEF MoreTool
      <4> HIDE DEF e
      <4>4. out \in Seq(Ordinary)
        BY <1>3, <2>1
      <4>5. CASE out' = out
        BY <4>4, <4>5
      <4>6. CASE a # "" /\ out' = Append(out, e)
        BY <4>2, <4>4, <4>6, AppendProperties
      <4> QED
        BY <4>3, <4>5, <4>6
    <3> QED
      BY <1>5, <3>1, <3>2
  <2> HIDE DEF p
  <2>4. LastReason' = LastReason /\ LastCount' = LastCount
    BY <1>1, <2>2, LastKept
  <2> QED
    BY <1>1, <1>2, <2>1, <2>3, <2>4 DEF ClosingInv
<1>6. ASSUME NEW r \in Reasons, FinishReason(r) PROVE ClosingInv'
  <2> DEFINE p == [part |-> "finish", data |-> r]
  <2>1. /\ Arrive(p) /\ mode = "ingest" /\ outputTokens' = outputTokens
        /\ stopReason' = MapStopReason(r) /\ out' = out \o EmitStart \o CloseOpenBlock
    BY <1>6 DEF FinishReason, Arrive
  <2>2. p \in Part /\ p \in Finishes /\ p \notin Usages /\ parts' = Append(parts, p) /\ p.data = r
    BY <2>1 DEF Part, Finishes, Usages, Arrive
  <2>3. out' \in Seq(Ordinary)
    BY <1>1, <1>3, <2>1, OrdinaryPieces, ConcatProperties
  <2> HIDE DEF p
  <2>4. LastReason' = MapStopReason(r) /\ LastCount' = LastCount
    BY <1>1, <2>2, LastKept
  <2> QED
    BY <1>1, <1>2, <2>1, <2>3, <2>4 DEF ClosingInv
<1>7. ASSUME NEW n \in Counts, Usage(n) PROVE ClosingInv'
  <2> DEFINE p == [part |-> "usage", data |-> n]
  <2>1. /\ Arrive(p) /\ mode = "ingest" /\ outputTokens' = n
        /\ stopReason' = stopReason /\ out' = out \o EmitStart
    BY <1>7 DEF Usage, Arrive
  <2>2. p \in Part /\ p \notin Finishes /\ p \in Usages /\ parts' = Append(parts, p) /\ p.data = n
    BY <2>1 DEF Part, Finishes, Usages, Arrive
  <2>3. out' \in Seq(Ordinary)
    BY <1>1, <1>3, <2>1, OrdinaryPieces, ConcatProperties
  <2> HIDE DEF p
  <2>4. LastReason' = LastReason /\ LastCount' = n
    BY <1>1, <2>2, LastKept
  <2> QED
    BY <1>1, <1>2, <2>1, <2>3, <2>4 DEF ClosingInv
<1>8. ASSUME NEW p \in {[part |-> "blank"], [part |-> "done"]}, Arrive(p),
             UNCHANGED <<stopReason, outputTokens>>, out' = out \/ out' = out \o EmitStart
      PROVE  ClosingInv'
  <2>1. p \in Part /\ p \notin Finishes /\ p \notin Usages
    <3>1. p.part \in {"blank", "done"} /\ p \in [part: {"blank", "done"}]
      BY <1>8
    <3>2. p \in Part
      BY <3>1 DEF Part
    <3>3. (\A f \in Finishes : f.part = "finish") /\ (\A u \in Usages : u.part = "usage")
      BY DEF Finishes, Usages
    <3> QED
      BY <3>1, <3>2, <3>3
  <2>4. parts' = Append(parts, p) /\ mode = "ingest"
    BY <1>8 DEF Arrive
  <2>2. out' \in Seq(Ordinary)
    BY <1>1, <1>3, <1>8, <2>4, OrdinaryPieces, ConcatProperties
  <2>3. LastReason' = LastReason /\ LastCount' = LastCount
    BY <1>1, <2>1, <2>4, LastKept
  <2> QED
    BY <1>1, <1>2, <1>8, <2>2, <2>3 DEF ClosingInv
<1>9. ASSUME UNCHANGED <<stopReason, outputTokens, parts>>,
             sent' \in Seq(Allowed'), out' \in Seq(Allowed')
      PROVE  ClosingInv'
  BY <1>1, <1>9 DEF ClosingInv, LastReason, LastCount
<1>10. ASSUME UNCHANGED <<finished, stopReason, outputTokens>> PROVE Allowed' = Allowed
  BY <1>10 DEF Allowed
<1>11. CASE Pull
  <2>1. UNCHANGED <<finished, stopReason, outputTokens, parts>>
    BY <1>11 DEF Pull, state
  <2>2. sent' \in Seq(Allowed) /\ out' \in Seq(Allowed)
    BY <1>1, <1>11, HeadTailProperties, AppendProperties DEF Pull
  <2> QED
    BY <1>9, <1>10, <2>1, <2>2
<1>12. ASSUME Finalize, ~finished, UNCHANGED <<parts, sent>> PROVE ClosingInv'
  <2> DEFINE c == P!MessageDelta(stopReason, outputTokens)
             A == Ordinary \cup {c}
  <2>1. /\ UNCHANGED <<stopReason, outputTokens>> /\ finished'
        /\ out' = out \o EmitStart \o CloseOpenBlock \o <<c, P!MessageStop>>
    BY <1>12 DEF Finalize
  <2>2. Allowed' = A /\ Allowed = Ordinary
    BY <1>12, <2>1 DEF Allowed
  <2>3. out \o EmitStart \o CloseOpenBlock \in Seq(Ordinary) /\ sent \in Seq(Ordinary)
    BY <1>1, <2>2, OrdinaryPieces, ConcatProperties
  <2>4. <<c, P!MessageStop>> \in Seq(A) /\ Ordinary \subseteq A
    BY OrdinaryTypes
  <2> HIDE DEF c, A
  <2>5. out' \in Seq(A) /\ sent' \in Seq(A)
    BY <1>12, <2>1, <2>3, <2>4, ConcatProperties
  <2> QED
    BY <1>9, <1>12, <2>1, <2>2, <2>5
<1>13. CASE Close \/ Read \/ Drop \/ UNCHANGED vars \/ (EndIngest /\ UNCHANGED <<state, out>>)
  <2>1. UNCHANGED <<finished, stopReason, outputTokens, parts, sent, out>>
    BY <1>13 DEF Close, Read, Drop, vars, EndIngest, state
  <2> QED
    BY <1>1, <1>9, <1>10, <2>1
<1>14. CASE (EndIngest /\ Finalize) \/ UpstreamEnds
  BY <1>3, <1>12, <1>14 DEF EndIngest, UpstreamEnds
<1>15. CASE Blank \/ DoneLine
  BY <1>8, <1>15 DEF Blank, DoneLine
<1> QED
  BY <1>4, <1>5, <1>6, <1>7, <1>11, <1>13, <1>14, <1>15, NextCases DEF Others, EndIngest

\* The closing message_delta reports the last finish_reason and usage.
THEOREM ClosingTrue == Spec => []ClosingIsTrue
<1>1. Init => ClosingInv
  <2> SUFFICES ASSUME Init PROVE ClosingInv
    OBVIOUS
  <2>1. /\ parts = <<>> /\ out = <<>> /\ sent = <<>>
        /\ stopReason = "end_turn" /\ outputTokens = 0
    BY DEF Init, P!Init
  <2>2. LastReason = "end_turn" /\ LastCount = 0
    BY <2>1, KeptNone DEF LastReason, LastCount
  <2> QED
    BY <2>1, <2>2 DEF ClosingInv
<1> QED
  BY <1>1, ClosingInvImplies, ClosingStep, Invariance, PTL DEF Spec

-----------------------------------------------------------------------------
\* The tool calls.

\* Tool t was called, and something came in after a call of it that closes its block.
Called(t) == \E i \in DOMAIN parts : Calls(i, t)
Interrupted(t) == \E i, j \in DOMAIN parts : i < j /\ Calls(i, t) /\ Breaks(j, t)

BlockOf(t) == [kind |-> "tool_use", index |-> toolBlocks[t]]

\* Blocks are numbered below nextIndex, and belong to one tool or to a text.
Numbered ==
  /\ open # NoOpen => open.index < nextIndex
  /\ \A t \in Tools : toolBlocks[t] # P!NoBlock =>
       toolBlocks[t] < nextIndex /\ (open.kind = "text" => open.index # toolBlocks[t])
  /\ \A t, u \in Tools : toolBlocks[t] = toolBlocks[u] /\ toolBlocks[t] # P!NoBlock => t = u

\* Nothing was put into a block to come, and no fragment came for a tool without one.
Fresh ==
  /\ \A i \in Nat : i >= nextIndex => Kept(Emitted, DeltasOf(i)) = <<>>
  /\ \A t \in Tools : toolBlocks[t] = P!NoBlock => ~Called(t) /\ Kept(parts, FragmentsOf(t)) = <<>>

\* A tool with a block was called; its block was announced, in the order of the first calls.
StartsOut == Kept(Emitted, ToolStarts)

Announced ==
  /\ \A t \in Tools : toolBlocks[t] # P!NoBlock =>
       Called(t) /\ \E k \in DOMAIN StartsOut : StartsOut[k].tool = t
  /\ \A k \in DOMAIN StartsOut : toolBlocks[StartsOut[k].tool] # P!NoBlock
  /\ \A j, k \in DOMAIN StartsOut : j < k =>
       \E i \in DOMAIN parts :
         /\ Calls(i, StartsOut[j].tool)
         /\ \A h \in DOMAIN parts : Calls(h, StartsOut[k].tool) => i < h

\* The arguments of a tool are all sent while its block is open, and once it is
\* not, something came in that closed it.
Carried(t) ==
  /\ IsPrefix(SentArguments(t), ArgumentsOf(t))
  /\ Uninterrupted(t) => SentArguments(t) = ArgumentsOf(t)
  /\ open = BlockOf(t) => SentArguments(t) = ArgumentsOf(t)
  /\ open # BlockOf(t) => finished \/ Interrupted(t)

ToolInv ==
  /\ Numbered /\ Fresh
  /\ Announced
  /\ \A t \in Tools : toolBlocks[t] # P!NoBlock => Carried(t)

\* What one part more does to them.
LEMMA PartsGrow ==
  ASSUME parts \in Seq(Part), NEW p \in Part, parts' = Append(parts, p), NEW t
  PROVE  /\ Called(t) => Called(t)'
         /\ Called(t)' => Called(t) \/ (p.part = "tool" /\ p.tool = t)
         /\ p.part = "tool" /\ p.tool = t => Called(t)'
         /\ Uninterrupted(t)' => Uninterrupted(t)
         /\ Interrupted(t) => Interrupted(t)'
         /\ Called(t) /\ (p.part \in {"text", "finish"} \/ (p.part = "tool" /\ p.tool # t))
              => Interrupted(t)'
         /\ Interrupted(t) /\ p.part = "tool" /\ p.tool = t => ~Uninterrupted(t)'
<1> DEFINE l == Len(parts)
<1>0. PICK n \in Nat : n = l
  BY LenProperties
<1>1. /\ n \in Nat /\ DOMAIN parts = 1 .. n /\ DOMAIN parts' = 1 .. n + 1
      /\ parts'[n + 1] = p /\ \A i \in 1 .. n : parts'[i] = parts[i]
  BY <1>0, AppendProperties, LenProperties
<1>2. \A i \in 1 .. n : (Calls(i, t)' <=> Calls(i, t)) /\ (Breaks(i, t)' <=> Breaks(i, t))
  BY <1>1 DEF Calls, Breaks
<1>3. /\ Calls(n + 1, t)' <=> p.part = "tool" /\ p.tool = t
      /\ Breaks(n + 1, t)' <=> p.part \in {"text", "finish"} \/ (p.part = "tool" /\ p.tool # t)
  BY <1>1 DEF Calls, Breaks
<1>4. (1 .. n) \subseteq (1 .. n + 1) /\ n + 1 \in 1 .. n + 1
  BY <1>1
<1>5. \A i \in 1 .. n + 1 : i \in 1 .. n \/ i = n + 1
  BY <1>1
<1>6. \A i \in 1 .. n : i < n + 1
  BY <1>1
<1>7. Called(t) => Called(t)'
  BY <1>1, <1>2, <1>4 DEF Called
<1>8. Called(t)' => Called(t) \/ (p.part = "tool" /\ p.tool = t)
  BY <1>1, <1>2, <1>3, <1>5 DEF Called
<1>9. p.part = "tool" /\ p.tool = t => Called(t)'
  BY <1>1, <1>3, <1>4 DEF Called
<1>10. Uninterrupted(t)' => Uninterrupted(t)
  BY <1>1, <1>2, <1>4 DEF Uninterrupted
<1>11. Interrupted(t) => Interrupted(t)'
  BY <1>1, <1>2, <1>4 DEF Interrupted
<1>12. Called(t) /\ (p.part \in {"text", "finish"} \/ (p.part = "tool" /\ p.tool # t))
         => Interrupted(t)'
  BY <1>1, <1>2, <1>3, <1>4, <1>6 DEF Called, Interrupted
<1>13. Interrupted(t) /\ p.part = "tool" /\ p.tool = t => ~Uninterrupted(t)'
  BY <1>1, <1>2, <1>3, <1>4, <1>6 DEF Uninterrupted, Interrupted
<1> QED
  BY <1>7, <1>8, <1>9, <1>10, <1>11, <1>12, <1>13

\* A sequence is a prefix of itself,
LEMMA PrefixSelf == ASSUME NEW S, NEW s \in Seq(S) PROVE IsPrefix(s, s)
  BY LenProperties DEF IsPrefix

\* and a prefix stays one when the longer sequence grows.
LEMMA PrefixAppend ==
  ASSUME NEW S, NEW s \in Seq(S), NEW r \in Seq(S), NEW x \in S, IsPrefix(s, r)
  PROVE  IsPrefix(s, Append(r, x))
<1> DEFINE w == Append(r, x)
           a == SubSeq(s, 1, Len(s))
           b == SubSeq(w, 1, Len(s))
           c == SubSeq(r, 1, Len(s))
<1>1. /\ w \in Seq(S) /\ Len(w) = Len(r) + 1 /\ \A i \in 1 .. Len(r) : w[i] = r[i]
      /\ Len(s) \in Nat /\ Len(r) \in Nat
  BY AppendProperties, LenProperties
<1>2. Len(s) <= Len(r) /\ a = c
  BY DEF IsPrefix
<1>3. b = c
  BY <1>1, <1>2
<1> QED
  BY <1>1, <1>2, <1>3 DEF IsPrefix

\* What a step does to the state outside the parts and events.
LEMMA OthersState ==
  ASSUME IInv, Others
  PROVE  /\ toolBlocks' = toolBlocks /\ nextIndex' = nextIndex
         /\ finished => finished'
         /\ \/ open' = open
            \/ open' = NoOpen /\ (finished' \/ \E p \in Finishes : parts' = Append(parts, p))
<1>1. ASSUME NEW r \in Reasons, FinishReason(r)
      PROVE  open' = NoOpen /\ \E p \in Finishes : parts' = Append(parts, p)
  <2>1. [part |-> "finish", data |-> r] \in Finishes
    BY DEF Finishes
  <2> QED
    BY <1>1, <2>1 DEF FinishReason, Arrive
<1>2. CASE \E r \in Reasons : FinishReason(r)
  BY <1>1, <1>2 DEF FinishReason, Arrive
<1>3. CASE EndIngest \/ UpstreamEnds
  BY <1>3 DEF EndIngest, UpstreamEnds, Finalize, state
<1>4. CASE Blank \/ (\E n \in Counts : Usage(n)) \/ DoneLine
  <2>1. UNCHANGED <<open, nextIndex, toolBlocks, finished>>
    BY <1>4 DEF Blank, Usage, DoneLine, Arrive
  <2> QED
    BY <2>1
<1>5. CASE Pull \/ Close \/ Read \/ Drop \/ UNCHANGED vars
  BY <1>5 DEF Pull, Close, Read, Drop, vars, state
<1> QED
  BY <1>2, <1>3, <1>4, <1>5 DEF Others

\* A block is numbered with nextIndex, which then moves on.
LEMMA NumberedStep == ASSUME IInv, Numbered, [Next]_vars PROVE Numbered'
<1>1. /\ nextIndex \in Nat /\ toolBlocks \in [Tools -> Blocks]
      /\ open \in [kind: P!Kinds, index: Nat] \cup {NoOpen}
  BY DEF IInv, TypeOK
<1>6. /\ \A i \in Nat : i < i + 1 /\ i # -1 /\ ~(i < i)
      /\ \A i \in Nat, j \in Nat \cup {-1} : j < i => j < i + 1
  OBVIOUS
<1> USE DEF P!NoBlock, Blocks
<1>2. ASSUME NEW x \in Texts, Content(x) PROVE Numbered'
  <2>1. toolBlocks' = toolBlocks
    BY <1>2 DEF Content
  <2>2. CASE open' = open /\ nextIndex' = nextIndex
    BY <2>1, <2>2 DEF Numbered
  <2>3. CASE open' = [kind |-> "text", index |-> nextIndex] /\ nextIndex' = nextIndex + 1
    BY <1>1, <2>1, <2>3 DEF Numbered
  <2> QED
    BY <1>2, <2>2, <2>3 DEF Content
<1>3. ASSUME NEW t \in Tools, NEW a \in Fragments \cup {""}, NewTool(t, a) PROVE Numbered'
  <2>1. /\ open' = [kind |-> "tool_use", index |-> nextIndex] /\ nextIndex' = nextIndex + 1
        /\ toolBlocks' = [toolBlocks EXCEPT ![t] = nextIndex]
    BY <1>3 DEF NewTool
  <2>2. toolBlocks'[t] = nextIndex /\ \A u \in Tools \ {t} : toolBlocks'[u] = toolBlocks[u]
    BY <1>1, <2>1
  <2>3. open' # NoOpen => open'.index < nextIndex'
    <3>1. open'.index = nextIndex
      BY <2>1
    <3> QED
      BY <1>1, <1>6, <2>1, <3>1, Zenon
  <2>4. ASSUME NEW u \in Tools, toolBlocks'[u] # P!NoBlock
        PROVE  toolBlocks'[u] < nextIndex' /\ (open'.kind = "text" => open'.index # toolBlocks'[u])
    <3>1. toolBlocks'[u] = nextIndex \/ (toolBlocks'[u] = toolBlocks[u] /\ toolBlocks[u] < nextIndex)
      BY <2>2, <2>4 DEF Numbered
    <3>2. open'.kind # "text"
      BY <2>1
    <3>3. toolBlocks[u] \in Blocks
      BY <1>1
    <3>4. toolBlocks'[u] < nextIndex + 1
      <4>1. nextIndex \in Nat /\ toolBlocks[u] \in Nat \cup {-1}
        BY <1>1, <3>3
      <4> QED
        BY <1>6, <3>1, <4>1, Zenon
    <3> QED
      BY <2>1, <3>2, <3>4
  <2>5. ASSUME NEW u \in Tools, NEW v \in Tools,
               toolBlocks'[u] = toolBlocks'[v], toolBlocks'[u] # P!NoBlock
        PROVE  u = v
    <3>1. \A w \in Tools \ {t} : toolBlocks[w] # nextIndex
      <4>1. \A w \in Tools : toolBlocks[w] # -1 => toolBlocks[w] < nextIndex
        BY DEF Numbered
      <4>2. nextIndex # -1 /\ ~(nextIndex < nextIndex)
        BY <1>1, <1>6, Zenon
      <4> QED
        BY <4>1, <4>2
    <3> QED
      BY <2>2, <2>5, <3>1 DEF Numbered
  <2> QED
    BY <2>3, <2>4, <2>5 DEF Numbered
<1>4. ASSUME NEW t \in Tools, NEW a \in Fragments \cup {""}, MoreTool(t, a) PROVE Numbered'
  BY <1>4 DEF MoreTool, Numbered
<1>5. CASE Others
  <2>1. toolBlocks' = toolBlocks /\ nextIndex' = nextIndex /\ (open' = open \/ open' = NoOpen)
    BY <1>5, OthersState
  <2> QED
    BY <2>1 DEF Numbered, NoOpen
<1> QED
  BY <1>2, <1>3, <1>4, <1>5, NextCases

\* A block the step puts nothing into.
LEMMA Untouched ==
  ASSUME IInv, sent \in Seq(Event), NEW i \in Nat,
         \/ \E x \in Texts : Content(x) /\ open'.index # i
         \/ \E t \in Tools, a \in Fragments \cup {""} :
              \/ NewTool(t, a) /\ nextIndex # i
              \/ MoreTool(t, a) /\ toolBlocks[t] # i
         \/ Others
  PROVE  Kept(Emitted', DeltasOf(i)) = Kept(Emitted, DeltasOf(i))
<1> DEFINE T == DeltasOf(i)
<1>1. Quiet(T) /\ (\A j, k, t : P!BlockStart(j, k, t) \notin T)
      /\ \A j, k, d : P!BlockDelta(j, k, d) \in T => i = j
  BY QuietSets, ToldApart
<1> HIDE DEF T
<1>2. ASSUME NEW x \in Texts, Content(x), open'.index # i PROVE Kept(Emitted', T) = Kept(Emitted, T)
  <2>1. Kept(Emitted', T) = Keep(Kept(Emitted, T), P!BlockDelta(open'.index, "text", x), T)
    BY <1>1, <1>2, ContentPuts
  <2>2. P!BlockDelta(open'.index, "text", x) \notin T
    BY <1>1, <1>2
  <2> QED
    BY <2>1, <2>2 DEF Keep
<1>3. ASSUME NEW t \in Tools, NEW a \in Fragments \cup {""}, NewTool(t, a), nextIndex # i
      PROVE  Kept(Emitted', T) = Kept(Emitted, T)
  <2>1. P!BlockDelta(nextIndex, "tool_use", a) \notin T /\ P!BlockStart(nextIndex, "tool_use", t) \notin T
    BY <1>1, <1>3
  <2> QED
    BY <1>1, <1>3, <2>1, NewToolPuts DEF Keep
<1>4. ASSUME NEW t \in Tools, NEW a \in Fragments \cup {""}, MoreTool(t, a), toolBlocks[t] # i
      PROVE  Kept(Emitted', T) = Kept(Emitted, T)
  <2>1. P!BlockDelta(toolBlocks[t], "tool_use", a) \notin T
    BY <1>1, <1>4
  <2> QED
    BY <1>4, <2>1, MoreToolPuts DEF Keep
<1>5. ASSUME Others PROVE Kept(Emitted', T) = Kept(Emitted, T)
  BY <1>1, <1>5, OthersPut
<1> QED
  BY <1>2, <1>3, <1>4, <1>5 DEF T

\* No block has the number that stands for none.
LEMMA NoBlockIsNoNumber == \A i \in Nat : i # P!NoBlock
  BY DEF P!NoBlock

\* A sequence over an intersection.
LEMMA SeqWithin == ASSUME NEW S, NEW T, NEW s \in Seq(S \cap T) PROVE s \in Seq(T)
  OBVIOUS

\* Which parts are fragments of which tool.
LEMMA ToolParts ==
  /\ \A x \in Texts : [part |-> "text", data |-> x] \in Part
  /\ \A t \in Tools, a \in Fragments \cup {""} : [part |-> "tool", tool |-> t, data |-> a] \in Part
  /\ \A u : \A x \in Texts : [part |-> "text", data |-> x] \notin FragmentsOf(u)
  /\ \A u : \A t \in Tools, a \in Fragments \cup {""} :
       u # t \/ a = "" => [part |-> "tool", tool |-> t, data |-> a] \notin FragmentsOf(u)
  /\ \A t \in Tools, a \in Fragments :
       [part |-> "tool", tool |-> t, data |-> a] \in FragmentsOf(t)
<1>1. \A x \in Texts : [part |-> "text", data |-> x] \in Part
  BY DEF Part
<1>2. \A t \in Tools, a \in Fragments \cup {""} : [part |-> "tool", tool |-> t, data |-> a] \in Part
  BY DEF Part
<1>3. \A u : \A x \in Texts : [part |-> "text", data |-> x] \notin FragmentsOf(u)
  BY DEF FragmentsOf
<1>4. ASSUME NEW t \in Tools, NEW a \in Fragments \cup {""}, NEW u, u # t \/ a = ""
      PROVE  [part |-> "tool", tool |-> t, data |-> a] \notin FragmentsOf(u)
  <2>1. a = "" => a \notin Fragments
    BY StreamAssumption
  <2> QED
    BY <1>4, <2>1 DEF FragmentsOf
<1>5. \A t \in Tools, a \in Fragments :
        [part |-> "tool", tool |-> t, data |-> a] \in FragmentsOf(t)
  BY DEF FragmentsOf
<1> QED
  BY <1>1, <1>2, <1>3, <1>4, <1>5

\* What an action that takes part p makes of the parts, told of one tool.
Took(p) == p \in Part /\ parts \in Seq(Part) /\ parts' = Append(parts, p)

\* Each action that takes a part, and the part it takes.
LEMMA Taken ==
  ASSUME IInv
  PROVE  /\ \A x \in Texts : Content(x) => Took([part |-> "text", data |-> x])
         /\ \A t \in Tools, a \in Fragments \cup {""} :
              NewTool(t, a) \/ MoreTool(t, a) => Took([part |-> "tool", tool |-> t, data |-> a])
         /\ Others => parts' = parts \/ \E p \in Plain : Took(p)
<1>1. parts \in Seq(Part)
  BY DEF IInv, TypeOK
<1>2. \A x \in Texts : Content(x) => Took([part |-> "text", data |-> x])
  BY <1>1, ToolParts DEF Took, Content, Arrive
<1>3. \A t \in Tools, a \in Fragments \cup {""} :
        NewTool(t, a) \/ MoreTool(t, a) => Took([part |-> "tool", tool |-> t, data |-> a])
  BY <1>1, ToolParts DEF Took, NewTool, MoreTool, Arrive
<1>4. Others => parts' = parts \/ \E p \in Plain : Took(p)
  BY <1>1, OthersParts, PlainParts DEF Took
<1> QED
  BY <1>2, <1>3, <1>4

\* Only blocks that were numbered are put into, and only called tools have fragments.
LEMMA FreshStep == ASSUME IInv, sent \in Seq(Event), Numbered, Fresh, [Next]_vars PROVE Fresh'
<1>1. /\ nextIndex \in Nat /\ toolBlocks \in [Tools -> Blocks]
      /\ open \in [kind: P!Kinds, index: Nat] \cup {NoOpen}
  BY DEF IInv, TypeOK
<1>2. \A i, j \in Nat : (i < j => ~(i >= j)) /\ (i + 1 \in Nat) /\ (j >= i + 1 => j >= i /\ i # j)
  OBVIOUS
<1>3. ASSUME NEW i \in Nat, i >= nextIndex' PROVE Kept(Emitted', DeltasOf(i)) = <<>>
  <2>1. ASSUME NEW x \in Texts, Content(x) PROVE Kept(Emitted', DeltasOf(i)) = <<>>
    <3>1. i >= nextIndex /\ open'.index # i
      <4>1. CASE open.kind = "text" /\ open' = open /\ nextIndex' = nextIndex
        <5>1. open # NoOpen /\ open.index \in Nat
          BY <1>1, <4>1 DEF NoOpen
        <5>2. open.index < nextIndex
          BY <5>1 DEF Numbered
        <5> QED
          BY <1>1, <1>2, <1>3, <4>1, <5>1, <5>2
      <4>2. CASE open' = [kind |-> "text", index |-> nextIndex] /\ nextIndex' = nextIndex + 1
        <5>1. i >= nextIndex + 1 /\ open'.index = nextIndex
          BY <1>3, <4>2
        <5> QED
          BY <1>1, <1>2, <5>1, Zenon
      <4> QED
        BY <2>1, <4>1, <4>2 DEF Content
    <3>2. Kept(Emitted', DeltasOf(i)) = Kept(Emitted, DeltasOf(i))
      BY <2>1, <3>1, Untouched
    <3> QED
      BY <3>1, <3>2 DEF Fresh
  <2>2. ASSUME NEW t \in Tools, NEW a \in Fragments \cup {""}, NewTool(t, a)
        PROVE  Kept(Emitted', DeltasOf(i)) = <<>>
    <3>1. i >= nextIndex + 1
      BY <1>3, <2>2 DEF NewTool
    <3>2. i >= nextIndex /\ nextIndex # i
      BY <1>1, <1>2, <3>1, Zenon
    <3>3. Kept(Emitted', DeltasOf(i)) = Kept(Emitted, DeltasOf(i))
      BY <2>2, <3>2, Untouched
    <3> QED
      BY <3>2, <3>3 DEF Fresh
  <2>3. ASSUME NEW t \in Tools, NEW a \in Fragments \cup {""}, MoreTool(t, a)
        PROVE  Kept(Emitted', DeltasOf(i)) = <<>>
    <3>1. i >= nextIndex /\ toolBlocks[t] # P!NoBlock
      BY <1>3, <2>3 DEF MoreTool
    <3>2. toolBlocks[t] \in Nat /\ toolBlocks[t] < nextIndex
      BY <1>1, <3>1 DEF Numbered, Blocks
    <3>3. toolBlocks[t] # i
      BY <1>1, <1>2, <3>1, <3>2
    <3>4. Kept(Emitted', DeltasOf(i)) = Kept(Emitted, DeltasOf(i))
      BY <2>3, <3>3, Untouched
    <3> QED
      BY <3>1, <3>4 DEF Fresh
  <2>4. CASE Others
    <3>1. nextIndex' = nextIndex
      BY <2>4, OthersState
    <3>2. Kept(Emitted', DeltasOf(i)) = Kept(Emitted, DeltasOf(i))
      BY <2>4, Untouched
    <3> QED
      BY <1>3, <3>1, <3>2 DEF Fresh
  <2> QED
    BY <2>1, <2>2, <2>3, <2>4, NextCases
<1>4. ASSUME NEW u \in Tools, toolBlocks'[u] = P!NoBlock
      PROVE  ~Called(u)' /\ Kept(parts', FragmentsOf(u)) = <<>>
  <2>1. ASSUME NEW p, Took(p), toolBlocks[u] = P!NoBlock, p \notin FragmentsOf(u),
               ~(p.part = "tool" /\ p.tool = u)
        PROVE  ~Called(u)' /\ Kept(parts', FragmentsOf(u)) = <<>>
    <3>1. ~Called(u) /\ Kept(parts, FragmentsOf(u)) = <<>>
      BY <2>1 DEF Fresh
    <3>2. ~Called(u)'
      BY <2>1, <3>1, PartsGrow DEF Took
    <3>3. Kept(parts', FragmentsOf(u)) = <<>>
      BY <2>1, <3>1, PartData DEF Took, Keep
    <3> QED
      BY <3>2, <3>3
  <2>2. ASSUME NEW x \in Texts, Content(x)
        PROVE  ~Called(u)' /\ Kept(parts', FragmentsOf(u)) = <<>>
    <3> DEFINE p == [part |-> "text", data |-> x]
    <3>1. Took(p) /\ p \notin FragmentsOf(u) /\ p.part # "tool"
      BY <2>2, Taken, ToolParts
    <3>2. toolBlocks[u] = P!NoBlock
      BY <1>4, <2>2 DEF Content
    <3> HIDE DEF p
    <3> QED
      BY <2>1, <3>1, <3>2
  <2>3. ASSUME NEW t \in Tools, NEW a \in Fragments \cup {""}, NewTool(t, a) \/ MoreTool(t, a)
        PROVE  ~Called(u)' /\ Kept(parts', FragmentsOf(u)) = <<>>
    <3> DEFINE p == [part |-> "tool", tool |-> t, data |-> a]
    <3>1. t # u /\ toolBlocks[u] = P!NoBlock
      <4>1. CASE NewTool(t, a)
        <5>1. toolBlocks' = [toolBlocks EXCEPT ![t] = nextIndex]
          BY <4>1 DEF NewTool
        <5>2. nextIndex # P!NoBlock
          BY <1>1, NoBlockIsNoNumber, Zenon
        <5>3. toolBlocks'[t] = nextIndex
          BY <1>1, <5>1
        <5>4. u # t
          BY <1>4, <5>2, <5>3
        <5>5. toolBlocks'[u] = toolBlocks[u]
          BY <1>1, <5>1, <5>4
        <5> QED
          BY <1>4, <5>4, <5>5
      <4>2. CASE MoreTool(t, a)
        BY <1>4, <4>2 DEF MoreTool
      <4> QED
        BY <2>3, <4>1, <4>2
    <3>2. Took(p) /\ p \notin FragmentsOf(u) /\ p.tool = t
      BY <2>3, <3>1, Taken, ToolParts
    <3> HIDE DEF p
    <3> QED
      BY <2>1, <3>1, <3>2
  <2>4. CASE Others
    <3>1. toolBlocks[u] = P!NoBlock
      BY <1>4, <2>4, OthersState
    <3>2. CASE parts' = parts
      BY <3>1, <3>2 DEF Fresh, Called, Calls
    <3>3. ASSUME NEW p \in Plain, Took(p)
          PROVE  ~Called(u)' /\ Kept(parts', FragmentsOf(u)) = <<>>
      <4>1. p.part # "tool" /\ p \notin FragmentsOf(u)
        BY PlainParts
      <4> QED
        BY <2>1, <3>1, <3>3, <4>1
    <3> QED
      BY <2>4, <3>2, <3>3, Taken
  <2> QED
    BY <2>2, <2>3, <2>4, NextCases
<1> QED
  BY <1>3, <1>4 DEF Fresh

\* Only the first call of a tool announces a block.
LEMMA StartsStep ==
  ASSUME IInv, sent \in Seq(Event)
  PROVE  /\ \A t \in Tools, a \in Fragments \cup {""} : NewTool(t, a) =>
              StartsOut' = Append(StartsOut, P!BlockStart(nextIndex, "tool_use", t))
         /\ (\E x \in Texts : Content(x))
              \/ (\E t \in Tools, a \in Fragments \cup {""} : MoreTool(t, a)) \/ Others
              => StartsOut' = StartsOut
<1>1. Quiet(ToolStarts) /\ (\A i, t : P!BlockStart(i, "text", t) \notin ToolStarts)
      /\ (\A i, k, d : P!BlockDelta(i, k, d) \notin ToolStarts)
      /\ \A i \in Nat, t \in Tools : P!BlockStart(i, "tool_use", t) \in ToolStarts
  BY QuietSets, ToldApart
<1>2. ASSUME NEW t \in Tools, NEW a \in Fragments \cup {""}, NewTool(t, a)
      PROVE  StartsOut' = Append(StartsOut, P!BlockStart(nextIndex, "tool_use", t))
  <2>1. P!BlockStart(nextIndex, "tool_use", t) \in ToolStarts
    BY <1>1 DEF IInv, TypeOK
  <2>2. P!BlockDelta(nextIndex, "tool_use", a) \notin ToolStarts
    BY <1>1
  <2> QED
    BY <1>1, <1>2, <2>1, <2>2, NewToolPuts DEF Keep, StartsOut
<1>3. ASSUME NEW x \in Texts, Content(x) PROVE StartsOut' = StartsOut
  BY <1>1, <1>3, ContentPuts DEF Keep, StartsOut
<1>4. ASSUME NEW t \in Tools, NEW a \in Fragments \cup {""}, MoreTool(t, a)
      PROVE  StartsOut' = StartsOut
  BY <1>1, <1>4, MoreToolPuts DEF Keep, StartsOut
<1>5. ASSUME Others PROVE StartsOut' = StartsOut
  BY <1>1, <1>5, OthersPut DEF StartsOut
<1> QED
  BY <1>2, <1>3, <1>4, <1>5

\* Another part takes nothing back: what came before it still did.
LEMMA StillBefore ==
  ASSUME parts' = parts \/ \E p \in Part : Took(p), NEW t, NEW u,
         \E i \in DOMAIN parts : Calls(i, t) /\ \A h \in DOMAIN parts : Calls(h, u) => i < h
  PROVE  \E i \in DOMAIN parts' : Calls(i, t)' /\ \A h \in DOMAIN parts' : Calls(h, u)' => i < h
<1>1. CASE parts' = parts
  BY <1>1 DEF Calls
<1>2. ASSUME NEW p \in Part, Took(p)
      PROVE  \E i \in DOMAIN parts' : Calls(i, t)' /\ \A h \in DOMAIN parts' : Calls(h, u)' => i < h
  <2>1. PICK n \in Nat : n = Len(parts)
    BY <1>2, LenProperties DEF Took
  <2>2. /\ DOMAIN parts = 1 .. n /\ DOMAIN parts' = 1 .. n + 1
        /\ \A i \in 1 .. n : parts'[i] = parts[i]
    BY <1>2, <2>1, AppendProperties, LenProperties DEF Took
  <2>3. \A i \in 1 .. n : i \in 1 .. n + 1 /\ i < n + 1
    BY <2>1
  <2>4. \A h \in 1 .. n + 1 : h \in 1 .. n \/ h = n + 1
    BY <2>1
  <2>5. \A i \in 1 .. n : (Calls(i, t)' <=> Calls(i, t)) /\ (Calls(i, u)' <=> Calls(i, u))
    BY <2>2 DEF Calls
  <2>6. PICK i \in 1 .. n : Calls(i, t) /\ \A h \in 1 .. n : Calls(h, u) => i < h
    BY <2>2
  <2>7. \A h \in 1 .. n + 1 : Calls(h, u)' => i < h
    BY <2>3, <2>4, <2>5, <2>6
  <2> QED
    BY <2>2, <2>3, <2>5, <2>6, <2>7
<1> QED
  BY <1>1, <1>2

\* And what comes now comes after what was there.
LEMMA NowAfter ==
  ASSUME NEW p, Took(p), NEW t, NEW u, Called(t), ~Called(u)
  PROVE  \E i \in DOMAIN parts' : Calls(i, t)' /\ \A h \in DOMAIN parts' : Calls(h, u)' => i < h
<1>1. PICK n \in Nat : n = Len(parts)
  BY LenProperties DEF Took
<1>2. /\ DOMAIN parts = 1 .. n /\ DOMAIN parts' = 1 .. n + 1
      /\ \A i \in 1 .. n : parts'[i] = parts[i]
  BY <1>1, AppendProperties, LenProperties DEF Took
<1>3. \A i \in 1 .. n : i \in 1 .. n + 1 /\ i < n + 1
  BY <1>1
<1>4. \A h \in 1 .. n + 1 : h \in 1 .. n \/ h = n + 1
  BY <1>1
<1>5. \A i \in 1 .. n : (Calls(i, t)' <=> Calls(i, t)) /\ (Calls(i, u)' <=> Calls(i, u))
  BY <1>2 DEF Calls
<1>6. PICK i \in 1 .. n : Calls(i, t)
  BY <1>2 DEF Called
<1>7. \A h \in 1 .. n : ~Calls(h, u)
  BY <1>2 DEF Called
<1>8. \A h \in 1 .. n + 1 : Calls(h, u)' => i < h
  BY <1>3, <1>4, <1>5, <1>7
<1> QED
  BY <1>2, <1>3, <1>5, <1>6, <1>8

\* A tool is announced with its first call, so after all that were called before.
LEMMA AnnouncedStep ==
  ASSUME IInv, sent \in Seq(Event), Fresh, Announced, [Next]_vars
  PROVE  Announced'
<1>1. toolBlocks \in [Tools -> Blocks] /\ nextIndex \in Nat
  BY DEF IInv, TypeOK
<1>2. parts' = parts \/ \E p \in Part : Took(p)
  BY NextCases, Taken, PlainParts DEF Took
<1>3. \A t \in Tools : Called(t) => Called(t)'
  <2>1. CASE parts' = parts
    BY <2>1 DEF Called, Calls
  <2>2. ASSUME NEW p \in Part, Took(p) PROVE \A t \in Tools : Called(t) => Called(t)'
    BY <2>2, PartsGrow DEF Took
  <2> QED
    BY <1>2, <2>1, <2>2
<1>4. ASSUME StartsOut' = StartsOut, toolBlocks' = toolBlocks PROVE Announced'
  <2>1. \A t \in Tools : toolBlocks'[t] # P!NoBlock =>
          Called(t)' /\ \E k \in DOMAIN StartsOut' : StartsOut'[k].tool = t
    BY <1>3, <1>4 DEF Announced
  <2>2. \A k \in DOMAIN StartsOut' : toolBlocks'[StartsOut'[k].tool] # P!NoBlock
    BY <1>4 DEF Announced
  <2>3. ASSUME NEW j \in DOMAIN StartsOut', NEW k \in DOMAIN StartsOut', j < k
        PROVE  (\E i \in DOMAIN parts :
                  /\ Calls(i, StartsOut[j].tool)
                  /\ \A h \in DOMAIN parts : Calls(h, StartsOut[k].tool) => i < h)'
    <3>1. PICK t, u : t = StartsOut[j].tool /\ u = StartsOut[k].tool
      OBVIOUS
    <3>2. \E i \in DOMAIN parts : Calls(i, t) /\ \A h \in DOMAIN parts : Calls(h, u) => i < h
      BY <1>4, <2>3, <3>1 DEF Announced
    <3>3. \E i \in DOMAIN parts' : Calls(i, t)' /\ \A h \in DOMAIN parts' : Calls(h, u)' => i < h
      BY <1>2, <3>2, StillBefore
    <3> QED
      BY <1>4, <3>1, <3>3 DEF Calls
  <2> QED
    BY <2>1, <2>2, <2>3 DEF Announced
<1>5. ASSUME NEW t \in Tools, NEW p, Took(p), ~Called(t), Called(t)',
             NEW e \in ToolStarts, e.tool = t, StartsOut' = Append(StartsOut, e),
             toolBlocks[t] = P!NoBlock, toolBlocks' = [toolBlocks EXCEPT ![t] = nextIndex]
      PROVE  Announced'
  <2>3. toolBlocks'[t] # P!NoBlock /\ \A u \in Tools \ {t} : toolBlocks'[u] = toolBlocks[u]
    <3>1. toolBlocks'[t] = nextIndex /\ \A u \in Tools \ {t} : toolBlocks'[u] = toolBlocks[u]
      BY <1>1, <1>5
    <3> QED
      BY <1>1, <3>1, NoBlockIsNoNumber, Zenon
  <2>4. StartsOut \in Seq(ToolStarts)
    <3>1. Emitted \in Seq(Event)
      BY ConcatProperties DEF IInv, Path, Emitted
    <3> QED
      BY <3>1, KeptType, SeqWithin DEF StartsOut
  <2>5. PICK m \in Nat : m = Len(StartsOut)
    BY <2>4, LenProperties
  <2>7. /\ DOMAIN StartsOut = 1 .. m /\ DOMAIN StartsOut' = 1 .. m + 1
        /\ StartsOut'[m + 1].tool = t
        /\ \A k \in 1 .. m : StartsOut'[k] = StartsOut[k]
    <3>1. /\ StartsOut' \in Seq(ToolStarts) /\ Len(StartsOut') = m + 1 /\ StartsOut'[m + 1] = e
          /\ \A k \in 1 .. m : StartsOut'[k] = StartsOut[k]
      BY <1>5, <2>4, <2>5, AppendProperties
    <3> QED
      BY <1>5, <2>4, <2>5, <3>1, LenProperties
  <2>8. \A k \in 1 .. m : StartsOut[k].tool \in Tools /\ StartsOut[k].tool # t
    <3>1. \A k \in 1 .. m : StartsOut[k] \in ToolStarts
      BY <2>4, <2>7
    <3>2. \A k \in 1 .. m : toolBlocks[StartsOut[k].tool] # P!NoBlock
      BY <2>7 DEF Announced
    <3> QED
      BY <1>5, <3>1, <3>2 DEF ToolStarts
  <2>9. \A k \in 1 .. m + 1 : k \in 1 .. m \/ k = m + 1
    BY <2>5
  <2>10. m + 1 \in 1 .. m + 1 /\ (\A k \in 1 .. m : k \in 1 .. m + 1 /\ ~(m + 1 < k))
         /\ ~(m + 1 < m + 1)
    BY <2>5
  <2>12. ASSUME NEW u \in Tools, toolBlocks'[u] # P!NoBlock
         PROVE  Called(u)' /\ \E k \in DOMAIN StartsOut' : StartsOut'[k].tool = u
    <3>1. CASE u = t
      BY <1>5, <2>7, <2>10, <3>1
    <3>2. CASE u # t
      <4>1. toolBlocks[u] # P!NoBlock
        BY <2>3, <2>12, <3>2
      <4>2. Called(u) /\ \E k \in DOMAIN StartsOut : StartsOut[k].tool = u
        BY <4>1 DEF Announced
      <4> QED
        BY <1>3, <2>7, <2>10, <4>2
    <3> QED
      BY <3>1, <3>2
  <2>13. \A k \in DOMAIN StartsOut' : toolBlocks'[StartsOut'[k].tool] # P!NoBlock
    <3>1. \A k \in 1 .. m : toolBlocks'[StartsOut'[k].tool] # P!NoBlock
      <4>1. \A k \in 1 .. m : toolBlocks[StartsOut[k].tool] # P!NoBlock
        BY <2>7 DEF Announced
      <4> QED
        BY <2>3, <2>7, <2>8, <4>1
    <3> QED
      BY <2>3, <2>7, <2>9, <3>1
  <2>14. ASSUME NEW j \in DOMAIN StartsOut', NEW k \in DOMAIN StartsOut', j < k
         PROVE  (\E i \in DOMAIN parts :
                   /\ Calls(i, StartsOut[j].tool)
                   /\ \A h \in DOMAIN parts : Calls(h, StartsOut[k].tool) => i < h)'
    <3>1. PICK u, v : u = StartsOut'[j].tool /\ v = StartsOut'[k].tool
      OBVIOUS
    <3>2. j \in 1 .. m
      BY <2>7, <2>9, <2>10, <2>14
    <3>3. u = StartsOut[j].tool /\ u \in Tools /\ u # t
      BY <2>7, <2>8, <3>1, <3>2
    <3>4. \E i \in DOMAIN parts' : Calls(i, u)' /\ \A h \in DOMAIN parts' : Calls(h, v)' => i < h
      <4>1. CASE k \in 1 .. m
        <5>1. v = StartsOut[k].tool
          BY <2>7, <3>1, <4>1
        <5>2. \E i \in DOMAIN parts : Calls(i, u) /\ \A h \in DOMAIN parts : Calls(h, v) => i < h
          BY <2>7, <2>14, <3>2, <3>3, <4>1, <5>1 DEF Announced
        <5> QED
          BY <1>2, <5>2, StillBefore
      <4>2. CASE k = m + 1
        <5>1. v = t
          BY <2>7, <3>1, <4>2
        <5>2. Called(u)
          BY <2>7, <3>2, <3>3 DEF Announced
        <5> QED
          BY <1>5, <5>1, <5>2, NowAfter
      <4> QED
        BY <2>7, <2>9, <4>1, <4>2
    <3> QED
      BY <3>1, <3>4 DEF Calls
  <2> QED
    BY <2>12, <2>13, <2>14 DEF Announced
<1>6. CASE \/ \E x \in Texts : Content(x)
           \/ \E t \in Tools, a \in Fragments \cup {""} : MoreTool(t, a)
           \/ Others
  <2>1. StartsOut' = StartsOut
    BY <1>6, StartsStep
  <2>2. toolBlocks' = toolBlocks
    BY <1>6, OthersState DEF Content, MoreTool
  <2> QED
    BY <1>4, <2>1, <2>2
<1>7. ASSUME NEW t \in Tools, NEW a \in Fragments \cup {""}, NewTool(t, a) PROVE Announced'
  <2> DEFINE p == [part |-> "tool", tool |-> t, data |-> a]
             e == P!BlockStart(nextIndex, "tool_use", t)
  <2>1. Took(p) /\ p.part = "tool" /\ p.tool = t
    BY <1>7, Taken
  <2>2. e \in ToolStarts /\ e.tool = t /\ StartsOut' = Append(StartsOut, e)
    BY <1>1, <1>7, StartsStep, ToldApart DEF P!BlockStart
  <2>3. toolBlocks[t] = P!NoBlock /\ toolBlocks' = [toolBlocks EXCEPT ![t] = nextIndex]
    BY <1>7 DEF NewTool
  <2> HIDE DEF p, e
  <2>4. ~Called(t) /\ Called(t)'
    BY <2>1, <2>3, PartsGrow DEF Fresh, Took
  <2> QED
    BY <1>5, <2>1, <2>2, <2>3, <2>4
<1> QED
  BY <1>6, <1>7, NextCases

\* The data of a single element.
LEMMA DataOne == ASSUME NEW x PROVE Data(Append(<<>>, x)) = Append(Data(<<>>), x.data)
<1>1. PICK v : v = <<>>
  OBVIOUS
<1>2. v \in Seq({x}) /\ x \in {x} /\ Keep(v, x, {x}) = Append(v, x)
  BY <1>1, EmptySeq DEF Keep
<1>3. ASSUME NEW S, v \in Seq(S), x \in S PROVE Data(Keep(v, x, S)) = Append(Data(v), x.data)
  BY <1>3, DataKeep
<1> QED
  BY <1>1, <1>2, <1>3

\* What arrived for a tool, and what its block carries, are sequences of data.
LEMMA ArgumentTypes ==
  ASSUME NEW r \in Seq(Part), NEW q \in Seq(Event), NEW i, NEW t
  PROVE  /\ Data(Kept(r, FragmentsOf(t))) \in Seq(Texts \cup Fragments)
         /\ Data(Kept(q, DeltasOf(i))) \in Seq(Texts \cup Fragments)
<1>1. ASSUME NEW T, NEW v \in Seq(T), \A y \in T : y.data \in Texts \cup Fragments
      PROVE  Data(v) \in Seq(Texts \cup Fragments)
  BY <1>1 DEF Data
<1>2. (\A y \in DeltasOf(i) : y.data \in Texts \cup Fragments)
      /\ \A y \in FragmentsOf(t) : y.data \in Texts \cup Fragments
  BY DEF DeltasOf, FragmentsOf
<1>3. Kept(q, DeltasOf(i)) \in Seq(DeltasOf(i)) /\ Kept(r, FragmentsOf(t)) \in Seq(FragmentsOf(t))
  BY KeptType, SeqWithin
<1> QED
  BY <1>1, <1>2, <1>3

\* A step that concerns other blocks.
LEMMA CarriedElsewhere ==
  ASSUME NEW t, Carried(t), toolBlocks'[t] = toolBlocks[t],
         Kept(Emitted', DeltasOf(toolBlocks[t])) = Kept(Emitted, DeltasOf(toolBlocks[t])),
         Kept(parts', FragmentsOf(t)) = Kept(parts, FragmentsOf(t)),
         Uninterrupted(t)' => Uninterrupted(t), Interrupted(t) => Interrupted(t)',
         finished => finished',
         open' = open \/ (open' # BlockOf(t) /\ (finished' \/ Interrupted(t)'))
  PROVE  Carried(t)'
<1>1. SentArguments(t)' = SentArguments(t) /\ ArgumentsOf(t)' = ArgumentsOf(t)
      /\ BlockOf(t)' = BlockOf(t)
  <2>1. SentArguments(t)' = Data(Kept(Emitted', DeltasOf(toolBlocks'[t])))
    BY DEF SentArguments, Data, DeltasOf
  <2> QED
    BY <2>1 DEF SentArguments, ArgumentsOf, BlockOf, Data, FragmentsOf
<1> QED
  BY <1>1 DEF Carried

\* A fragment is sent while its block is open; if the block is not, a part that
\* closed it came between, and the fragment ends the claim to be uninterrupted.
LEMMA CarriedStep ==
  ASSUME IInv, sent \in Seq(Event), Numbered, Fresh, Announced, [Next]_vars, NEW t \in Tools,
         toolBlocks[t] # P!NoBlock => Carried(t), toolBlocks'[t] # P!NoBlock
  PROVE  Carried(t)'
<1>1. /\ nextIndex \in Nat /\ toolBlocks \in [Tools -> Blocks]
      /\ open \in [kind: P!Kinds, index: Nat] \cup {NoOpen}
      /\ parts \in Seq(Part) /\ Emitted \in Seq(Event)
      /\ \A i \in Nat : i >= i
  BY ConcatProperties DEF IInv, Path, TypeOK, Emitted
<1>2. ASSUME toolBlocks[t] # P!NoBlock
      PROVE  toolBlocks[t] \in Nat /\ toolBlocks[t] < nextIndex /\ toolBlocks[t] # nextIndex
             /\ Called(t) /\ Carried(t)
  <2>1. toolBlocks[t] \in Nat /\ toolBlocks[t] < nextIndex
    BY <1>1, <1>2 DEF Numbered, Blocks
  <2>2. \A i, j \in Nat : i < j => i # j
    OBVIOUS
  <2> QED
    BY <1>1, <1>2, <2>1, <2>2 DEF Announced
<1>3. ASSUME NEW p, Took(p), toolBlocks[t] # P!NoBlock, p \notin FragmentsOf(t),
             toolBlocks'[t] = toolBlocks[t],
             Kept(Emitted', DeltasOf(toolBlocks[t])) = Kept(Emitted, DeltasOf(toolBlocks[t])),
             finished => finished',
             open' = open
               \/ (open' # BlockOf(t) /\ (p.part \in {"text", "finish"}
                                            \/ (p.part = "tool" /\ p.tool # t)))
      PROVE  Carried(t)'
  <2>1. Called(t) /\ Carried(t)
    BY <1>2, <1>3
  <2>2. /\ Uninterrupted(t)' => Uninterrupted(t)
        /\ Interrupted(t) => Interrupted(t)'
        /\ p.part \in {"text", "finish"} \/ (p.part = "tool" /\ p.tool # t) => Interrupted(t)'
    BY <1>3, <2>1, PartsGrow DEF Took
  <2>3. Kept(parts', FragmentsOf(t)) = Kept(parts, FragmentsOf(t))
    BY <1>3, PartData DEF Took, Keep
  <2> QED
    BY <1>3, <2>1, <2>2, <2>3, CarriedElsewhere
<1>4. ASSUME NEW x \in Texts, Content(x) PROVE Carried(t)'
  <2> DEFINE p == [part |-> "text", data |-> x]
  <2>1. toolBlocks' = toolBlocks /\ finished' = finished
    BY <1>4 DEF Content, Arrive
  <2>2. toolBlocks[t] # P!NoBlock
    BY <2>1
  <2>3. open'.index # toolBlocks[t] /\ open'.kind = "text"
    <3>1. CASE open.kind = "text" /\ open' = open
      BY <2>2, <3>1 DEF Numbered
    <3>2. CASE open' = [kind |-> "text", index |-> nextIndex]
      <4>1. nextIndex # toolBlocks[t]
        BY <1>2, <2>2
      <4> QED
        BY <3>2, <4>1
    <3> QED
      BY <1>4, <3>1, <3>2 DEF Content
  <2>4. open' # BlockOf(t)
    BY <2>3 DEF BlockOf
  <2>5. Kept(Emitted', DeltasOf(toolBlocks[t])) = Kept(Emitted, DeltasOf(toolBlocks[t]))
    BY <1>2, <1>4, <2>2, <2>3, Untouched
  <2>6. Took(p) /\ p \notin FragmentsOf(t) /\ p.part = "text"
    BY <1>4, Taken, ToolParts
  <2> HIDE DEF p
  <2> QED
    BY <1>3, <2>1, <2>2, <2>4, <2>5, <2>6
<1>5. ASSUME NEW u \in Tools, NEW a \in Fragments \cup {""}, NewTool(u, a), u # t
      PROVE  Carried(t)'
  <2> DEFINE p == [part |-> "tool", tool |-> u, data |-> a]
  <2>1. toolBlocks' = [toolBlocks EXCEPT ![u] = nextIndex] /\ finished' = finished
        /\ open' = [kind |-> "tool_use", index |-> nextIndex]
    BY <1>5 DEF NewTool, Arrive
  <2>2. toolBlocks'[t] = toolBlocks[t]
    BY <1>1, <1>5, <2>1
  <2>3. open' # BlockOf(t)
    BY <1>2, <2>1, <2>2 DEF BlockOf
  <2>4. Kept(Emitted', DeltasOf(toolBlocks[t])) = Kept(Emitted, DeltasOf(toolBlocks[t]))
    BY <1>2, <1>5, <2>2, Untouched
  <2>5. Took(p) /\ p \notin FragmentsOf(t) /\ p.part = "tool" /\ p.tool = u
    BY <1>5, Taken, ToolParts
  <2> HIDE DEF p
  <2> QED
    BY <1>3, <1>5, <2>1, <2>2, <2>3, <2>4, <2>5
<1>6. ASSUME NEW u \in Tools, NEW a \in Fragments \cup {""}, MoreTool(u, a), u # t \/ a = ""
      PROVE  Carried(t)'
  <2> DEFINE p == [part |-> "tool", tool |-> u, data |-> a]
  <2>1. toolBlocks' = toolBlocks /\ finished' = finished /\ open' = open
        /\ toolBlocks[u] # P!NoBlock
    BY <1>6 DEF MoreTool, Arrive
  <2>2. Kept(Emitted', DeltasOf(toolBlocks[t])) = Kept(Emitted, DeltasOf(toolBlocks[t]))
    <3>1. CASE u # t
      <4>1. toolBlocks[u] # toolBlocks[t]
        BY <2>1, <3>1 DEF Numbered
      <4> QED
        BY <1>2, <1>6, <2>1, <4>1, Untouched
    <3>2. CASE a = ""
      BY <1>6, <3>2, MoreToolPuts
    <3> QED
      BY <1>6, <3>1, <3>2
  <2>3. Took(p) /\ p \notin FragmentsOf(t)
    BY <1>6, Taken, ToolParts
  <2> HIDE DEF p
  <2> QED
    BY <1>3, <2>1, <2>2, <2>3
<1>7. ASSUME NEW a \in Fragments \cup {""}, NewTool(t, a) PROVE Carried(t)'
  <2> DEFINE p == [part |-> "tool", tool |-> t, data |-> a]
             b == P!BlockStart(nextIndex, "tool_use", t)
             e == P!BlockDelta(nextIndex, "tool_use", a)
             T == DeltasOf(nextIndex)
  <2>1. /\ toolBlocks'[t] = nextIndex /\ open' = [kind |-> "tool_use", index |-> nextIndex]
        /\ toolBlocks[t] = P!NoBlock
    BY <1>1, <1>7 DEF NewTool
  <2>2. Took(p) /\ Kept(parts, FragmentsOf(t)) = <<>>
    BY <1>7, <2>1, Taken DEF Fresh
  <2>3. Kept(Emitted, T) = <<>>
    <3>1. nextIndex >= nextIndex
      BY <1>1, Zenon
    <3> QED
      BY <1>1, <3>1 DEF Fresh
  <2>4. Quiet(T) /\ b \notin T
    BY QuietSets, ToldApart
  <2>5. SentArguments(t)' = Data(Kept(Emitted', T)) /\ ArgumentsOf(t)' = Data(Kept(parts', FragmentsOf(t)))
    BY <2>1 DEF SentArguments, ArgumentsOf, Data, DeltasOf, FragmentsOf
  <2>6. SentArguments(t)' = ArgumentsOf(t)'
    <3>1. CASE a = ""
      <4>1. Kept(Emitted', T) = <<>>
        <5> HIDE DEF b, T
        <5>1. Kept(Emitted', T) = Keep(Kept(Emitted, T), b, T)
          BY <1>7, <2>4, <3>1, NewToolPuts DEF b
        <5> QED
          BY <2>3, <2>4, <5>1 DEF Keep
      <4>2. Kept(parts', FragmentsOf(t)) = <<>>
        <5>1. p \notin FragmentsOf(t)
          BY <3>1, ToolParts
        <5> HIDE DEF p
        <5> QED
          BY <2>2, <5>1, PartData DEF Took, Keep
      <4> QED
        BY <2>5, <4>1, <4>2
    <3>2. CASE a # ""
      <4>1. e \in T /\ p \in FragmentsOf(t) /\ e.data = a /\ p.data = a
        BY <1>1, <3>2, ToolParts, ToldApart DEF P!BlockDelta, P!Kinds
      <4>2. Kept(Emitted', T) = Append(<<>>, e)
        <5> HIDE DEF b, e, T
        <5>1. Kept(Emitted', T) = Keep(Keep(Kept(Emitted, T), b, T), e, T)
          BY <1>7, <2>4, <3>2, NewToolPuts DEF b, e
        <5> QED
          BY <2>3, <2>4, <4>1, <5>1 DEF Keep
      <4>3. Kept(parts', FragmentsOf(t)) = Append(<<>>, p)
        <5> HIDE DEF p, e
        <5> QED
          <6>1. Kept(parts', FragmentsOf(t)) = Keep(Kept(parts, FragmentsOf(t)), p, FragmentsOf(t))
            BY <2>2, PartData DEF Took
          <6> QED
            BY <2>2, <4>1, <6>1 DEF Keep
      <4> HIDE DEF p, e
      <4>4. Data(Append(<<>>, e)) = Append(Data(<<>>), a) /\ Data(Append(<<>>, p)) = Append(Data(<<>>), a)
        BY <4>1, DataOne
      <4> QED
        BY <2>5, <4>2, <4>3, <4>4
    <3> QED
      BY <3>1, <3>2
  <2>7. IsPrefix(SentArguments(t), ArgumentsOf(t))'
    <3>1. parts' \in Seq(Part)
      BY <2>2, AppendProperties DEF Took
    <3>2. ArgumentsOf(t)' \in Seq(Texts \cup Fragments)
      BY <2>5, <3>1, ArgumentTypes
    <3> QED
      BY <2>6, <3>2, PrefixSelf
  <2>8. open' = BlockOf(t)'
    BY <2>1 DEF BlockOf
  <2> QED
    BY <2>6, <2>7, <2>8 DEF Carried
<1>8. ASSUME NEW a \in Fragments, MoreTool(t, a) PROVE Carried(t)'
  <2> DEFINE p == [part |-> "tool", tool |-> t, data |-> a]
             i == toolBlocks[t]
             e == P!BlockDelta(i, "tool_use", a)
             T == DeltasOf(i)
             F == FragmentsOf(t)
  <2>1. toolBlocks' = toolBlocks /\ finished' = finished /\ open' = open
        /\ toolBlocks[t] # P!NoBlock /\ a # "" /\ a \in Fragments \cup {""} /\ ~finished
    BY <1>8, StreamAssumption DEF MoreTool, Arrive, IInv
  <2>2. i \in Nat /\ Carried(t)
    BY <1>2, <2>1
  <2>3. Took(p) /\ p \in F /\ p.data = a /\ p.part = "tool" /\ p.tool = t /\ p \in Part
    BY <1>8, <2>1, Taken, ToolParts
  <2>4. e \in T /\ e.data = a /\ e \in Event
    BY <2>2, ToldApart, EventTypes DEF P!BlockDelta, P!Kinds
  <2>5. SentArguments(t)' = Data(Kept(Emitted', T)) /\ ArgumentsOf(t)' = Data(Kept(parts', F))
        /\ BlockOf(t)' = BlockOf(t)
    BY <2>1 DEF SentArguments, ArgumentsOf, Data, DeltasOf, FragmentsOf, BlockOf
  <2>6. SentArguments(t) = Data(Kept(Emitted, T)) /\ ArgumentsOf(t) = Data(Kept(parts, F))
    BY DEF SentArguments, ArgumentsOf
  <2>7. ArgumentsOf(t)' = Append(ArgumentsOf(t), a) /\ parts' \in Seq(Part)
    <3> HIDE DEF p, F
    <3> QED
      BY <2>3, <2>5, <2>6, PartData DEF Took
  <2>8. CASE open = BlockOf(t)
    <3>1. Kept(Emitted', T) = Keep(Kept(Emitted, T), e, T)
      <4> HIDE DEF T
      <4> QED
        BY <1>8, <2>1, <2>8, MoreToolPuts DEF BlockOf
    <3>2. Data(Keep(Kept(Emitted, T), e, T)) = Append(Data(Kept(Emitted, T)), e.data)
      <4> HIDE DEF e, T
      <4> QED
        BY <1>1, <2>4, KeptData
    <3>3. SentArguments(t) = ArgumentsOf(t)
      BY <2>2, <2>8 DEF Carried
    <3>4. SentArguments(t)' = ArgumentsOf(t)'
      BY <2>4, <2>5, <2>6, <2>7, <3>1, <3>2, <3>3
    <3>5. ArgumentsOf(t)' \in Seq(Texts \cup Fragments)
      BY <2>5, <2>7, ArgumentTypes
    <3>6. IsPrefix(SentArguments(t), ArgumentsOf(t))'
      BY <3>4, <3>5, PrefixSelf
    <3> QED
      BY <2>1, <2>5, <2>8, <3>4, <3>6 DEF Carried
  <2>9. CASE open # BlockOf(t)
    <3>1. SentArguments(t)' = SentArguments(t)
      <4>1. Kept(Emitted', T) = Kept(Emitted, T)
        <5> HIDE DEF T
        <5> QED
          BY <1>8, <2>1, <2>9, MoreToolPuts DEF BlockOf
      <4> QED
        BY <2>5, <2>6, <4>1
    <3>2. Interrupted(t) /\ IsPrefix(SentArguments(t), ArgumentsOf(t))
      BY <2>1, <2>2, <2>9 DEF Carried
    <3>3. Interrupted(t)' /\ ~Uninterrupted(t)'
      <4> HIDE DEF p
      <4> QED
        BY <2>3, <3>2, PartsGrow DEF Took
    <3>4. /\ SentArguments(t) \in Seq(Texts \cup Fragments)
          /\ ArgumentsOf(t) \in Seq(Texts \cup Fragments)
      BY <1>1, <2>6, ArgumentTypes
    <3>5. IsPrefix(SentArguments(t), ArgumentsOf(t))'
      BY <2>7, <3>1, <3>2, <3>4, PrefixAppend
    <3> QED
      BY <2>1, <2>5, <2>9, <3>3, <3>5 DEF Carried
  <2> QED
    BY <2>8, <2>9
<1>9. CASE Others
  <2>1. /\ toolBlocks' = toolBlocks /\ (finished => finished')
        /\ \/ open' = open
           \/ open' = NoOpen /\ (finished' \/ \E p \in Finishes : parts' = Append(parts, p))
    BY <1>9, OthersState
  <2>2. toolBlocks[t] # P!NoBlock /\ NoOpen # BlockOf(t)
    BY <2>1 DEF BlockOf, NoOpen
  <2>3. Kept(Emitted', DeltasOf(toolBlocks[t])) = Kept(Emitted, DeltasOf(toolBlocks[t]))
    BY <1>2, <1>9, <2>2, Untouched
  <2>4. CASE parts' = parts
    <3>1. open' = open \/ (open' = NoOpen /\ finished')
      <4>1. ASSUME NEW p \in Finishes, parts' = Append(parts, p) PROVE FALSE
        <5>1. p \in Part
          BY <4>1 DEF Part, Finishes
        <5> QED
          BY <1>1, <2>4, <4>1, <5>1, AppendProperties, LenProperties
      <4> QED
        BY <2>1, <4>1
    <3>2. /\ Uninterrupted(t)' = Uninterrupted(t) /\ Interrupted(t)' = Interrupted(t)
          /\ Kept(parts', FragmentsOf(t)) = Kept(parts, FragmentsOf(t))
      BY <2>4 DEF Uninterrupted, Interrupted, Calls, Breaks
    <3> QED
      BY <1>2, <2>1, <2>2, <2>3, <3>1, <3>2, CarriedElsewhere
  <2>5. ASSUME NEW p \in Plain, Took(p) PROVE Carried(t)'
    <3>1. p \notin FragmentsOf(t)
      BY PlainParts
    <3>2. open' = open \/ (open' # BlockOf(t) /\ (finished' \/ p.part = "finish"))
      <4>1. ASSUME NEW q \in Finishes, parts' = Append(parts, q) PROVE p.part = "finish"
        <5>1. q \in Part /\ q.part = "finish"
          BY <4>1 DEF Part, Finishes
        <5>2. p = q
          <6>1. parts'[Len(parts) + 1] = p
            BY <2>5, AppendProperties DEF Took
          <6>2. parts'[Len(parts) + 1] = q
            BY <1>1, <4>1, <5>1, AppendProperties
          <6> QED
            BY <6>1, <6>2
        <5> QED
          BY <5>1, <5>2
      <4> QED
        BY <2>1, <2>2, <4>1
    <3>3. Called(t) /\ Carried(t)
      BY <1>2, <2>2
    <3>4. /\ Uninterrupted(t)' => Uninterrupted(t)
          /\ Interrupted(t) => Interrupted(t)'
          /\ p.part = "finish" => Interrupted(t)'
      BY <2>5, <3>3, PartsGrow DEF Took
    <3>5. Kept(parts', FragmentsOf(t)) = Kept(parts, FragmentsOf(t))
      BY <2>5, <3>1, PartData DEF Took, Keep
    <3> QED
      BY <2>1, <2>3, <3>2, <3>3, <3>4, <3>5, CarriedElsewhere
  <2> QED
    BY <1>9, <2>4, <2>5, Taken
<1> QED
  <2>1. ASSUME NEW u \in Tools, NEW a \in Fragments \cup {""}, NewTool(u, a) PROVE Carried(t)'
    BY <1>5, <1>7, <2>1
  <2>2. ASSUME NEW u \in Tools, NEW a \in Fragments \cup {""}, MoreTool(u, a) PROVE Carried(t)'
    BY <1>6, <1>8, <2>2
  <2> QED
    BY <1>4, <1>9, <2>1, <2>2, NextCases

\* The four parts of the invariant hold together.
LEMMA ToolStep == IInv /\ TextInv /\ ToolInv /\ [Next]_vars => ToolInv'
<1> SUFFICES ASSUME IInv, TextInv, ToolInv, [Next]_vars PROVE ToolInv'
  OBVIOUS
<1>1. sent \in Seq(Event) /\ Numbered /\ Fresh /\ Announced
      /\ \A t \in Tools : toolBlocks[t] # P!NoBlock => Carried(t)
  BY DEF TextInv, ToolInv
<1>2. Numbered' /\ Fresh' /\ Announced'
  BY <1>1, NumberedStep, FreshStep, AnnouncedStep
<1>3. ASSUME NEW t \in Tools, toolBlocks'[t] # P!NoBlock PROVE Carried(t)'
  BY <1>1, <1>3, CarriedStep
<1> QED
  BY <1>2, <1>3 DEF ToolInv

\* And they say what is to be shown.
LEMMA ToolInvImplies == IInv /\ TextInv /\ ToolInv => ToolCallsArrive
<1> SUFFICES ASSUME IInv, TextInv, ToolInv PROVE ToolCallsArrive
  OBVIOUS
<1>1. ToolArgumentsPrefix
  BY DEF ToolInv, Carried, ToolArgumentsPrefix
<1>2. StartsOut \in Seq(ToolStarts)
  <2>1. Emitted \in Seq(Event)
    BY ConcatProperties DEF IInv, Path, TextInv, Emitted
  <2> QED
    BY <2>1, KeptType, SeqWithin DEF StartsOut
<1>3. ASSUME NEW t \in Tools
      PROVE  (\E i \in DOMAIN parts : Calls(i, t)) <=> \E k \in DOMAIN StartsOut : StartsOut[k].tool = t
  <2>1. Called(t) => \E k \in DOMAIN StartsOut : StartsOut[k].tool = t
    BY DEF ToolInv, Fresh, Announced
  <2>2. ASSUME NEW k \in DOMAIN StartsOut, StartsOut[k].tool = t PROVE Called(t)
    BY <2>2 DEF ToolInv, Announced
  <2> QED
    BY <2>1, <2>2 DEF Called
<1>4. ToolBlocksInOrder
  BY <1>3 DEF ToolBlocksInOrder, ToolInv, Announced, StartsOut
<1> QED
  BY <1>1, <1>4 DEF ToolCallsArrive

\* Tool calls reach the client as they came.
THEOREM ToolCallsTrue == Spec => []ToolCallsArrive
<1>1. Init => TextInv /\ ToolInv
  <2> SUFFICES ASSUME Init PROVE TextInv /\ ToolInv
    OBVIOUS
  <2>1. /\ sent = <<>> /\ out = <<>> /\ parts = <<>> /\ <<>> \in Seq(Event) /\ open = NoOpen
        /\ \A t \in Tools : toolBlocks[t] = P!NoBlock
    BY DEF Init, P!Init
  <2>2. Emitted = <<>>
    BY <2>1 DEF Emitted
  <2>3. TextInv
    BY <2>1, <2>2, KeptNone DEF TextInv, TextInOrder
  <2>4. Numbered
    BY <2>1 DEF Numbered, NoOpen
  <2>5. Fresh
    BY <2>1, <2>2, KeptNone DEF Fresh, Called
  <2>6. Announced
    BY <2>1, <2>2, KeptNone DEF Announced, StartsOut
  <2> QED
    BY <2>1, <2>3, <2>4, <2>5, <2>6 DEF ToolInv
<1> QED
  BY <1>1, TextStep, ToolStep, ToolInvImplies, Invariance, PTL DEF Spec
=============================================================================
