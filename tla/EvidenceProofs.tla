--------------------------- MODULE EvidenceProofs ---------------------------
(***************************************************************************)
(* Proofs about Evidence: types, the two caps, that every snippet is an    *)
(* expansion of its citation, and that nothing is hidden, for any files,   *)
(* tokenizer, caps and answers.  A read is bounded by its limit and by the *)
(* file; what is kept of it is bounded by the room that is left; and when  *)
(* nothing is kept, one line is more than there is room for.               *)
(*                                                                         *)
(* Every step of an expansion leaves less to do, so it ends.               *)
(*                                                                         *)
(* And about Conversation, the requests that evidence is put into: that    *)
(* they are legal, lose nothing of the history, have the evidence in its   *)
(* place, and give the upstream its own answers back, for histories of any *)
(* length.  The conversions are concatenations of what is made of single   *)
(* blocks, messages and turns (FlatOf), and what is known of single ones   *)
(* is known of a concatenation by induction on the length (SeqInduction).  *)
(***************************************************************************)
EXTENDS Evidence, Conversation, SequenceTheorems, FiniteSetTheorems,
        WellFoundedInduction, TLAPS

\* The larger of two numbers.
LEMMA MaxOfTwo ==
  ASSUME NEW a \in Int, NEW b \in Int
  PROVE  Max({a, b}) \in {a, b} /\ Max({a, b}) >= a /\ Max({a, b}) >= b
<1>1. \E x \in {a, b} : \A y \in {a, b} : x >= y
  OBVIOUS
<1> QED
  BY <1>1 DEF Max

\* The smaller of two numbers.
LEMMA MinOfTwo ==
  ASSUME NEW a \in Int, NEW b \in Int
  PROVE  Min({a, b}) \in {a, b} /\ Min({a, b}) <= a /\ Min({a, b}) <= b
<1>1. \E x \in {a, b} : \A y \in {a, b} : x <= y
  OBVIOUS
<1> QED
  BY <1>1 DEF Min

\* The smallest of three numbers.
LEMMA MinOfThree ==
  ASSUME NEW a \in Int, NEW b \in Int, NEW c \in Int
  PROVE  /\ Min({a, b, c}) \in {a, b, c}
         /\ Min({a, b, c}) <= a /\ Min({a, b, c}) <= b /\ Min({a, b, c}) <= c
<1>1. \E x \in {a, b, c} : \A y \in {a, b, c} : x <= y
  <2>1. CASE a <= b /\ a <= c
    BY <2>1
  <2>2. CASE b <= a /\ b <= c
    BY <2>2
  <2>3. CASE c <= a /\ c <= b
    BY <2>3
  <2> QED
    BY <2>1, <2>2, <2>3
<1> QED
  BY <1>1 DEF Min

\* A line that cites has a range of lines that count from 1.
LEMMA CleanIsCitation ==
  ASSUME NEW line \in Lines, line.kind = "cite"
  PROVE  Clean(line) \in Citation
<1>1. line.path \in Paths /\ line.from \in Int /\ line.to \in Int
  BY DEF Lines, NoEnd
<1> DEFINE start == Max({line.from, 1})
<1>2. start \in Int /\ start >= 1
  <2>1. line.from \in Int /\ 1 \in Int
    BY <1>1
  <2>2. Max({line.from, 1}) \in {line.from, 1} /\ Max({line.from, 1}) >= 1
    BY <2>1, MaxOfTwo
  <2> QED
    BY <2>1, <2>2
<1> HIDE DEF start
<1>3. Max({line.to, start}) \in Int /\ Max({line.to, start}) >= start
  BY <1>1, <1>2, MaxOfTwo
<1>4. Clean(line) = [path |-> line.path, start |-> start, end |-> Max({line.to, start})]
  BY DEF Clean, start
<1> QED
  BY <1>1, <1>2, <1>3, <1>4 DEF Citation

\* What a read returns is a block of the file, no higher than the limit asked
\* for and than what is left of the file.
LEMMA ReadIsBounded ==
  ASSUME NEW c \in Citation, ~Missing(c), NEW limit \in Int,
         NEW b \in BlocksFrom(c), Read(b, c, limit)
  PROVE  /\ b \in Blocks /\ b.path = c.path /\ b.start = c.start
         /\ Height(b) \in Nat /\ Height(b) <= limit
         /\ Height(b) <= LinesIn[c.path] - c.start + 1
<1> DEFINE most == Min({limit, ReadLines, LinesIn[c.path] - c.start + 1})
<1>1. c.path \in Paths /\ c.start \in Nat /\ c.start >= 1
  BY DEF Citation
<1>2. LinesIn[c.path] \in 0 .. Longest /\ Longest \in Nat /\ ReadLines \in Int
  BY <1>1, EvidenceAssumption
<1>3. LinesIn[c.path] \in Int /\ LinesIn[c.path] - c.start + 1 \in Int
  BY <1>1, <1>2
<1>4. most \in Int /\ most <= limit /\ most <= LinesIn[c.path] - c.start + 1
  BY <1>2, <1>3, MinOfThree
<1>5. b.lines \in 0 .. most /\ (b.lines # most => b.mark = "bytes") /\ (b.lines = most => b.mark = "none")
  BY DEF Read
<1> HIDE DEF most
<1>6. c.start <= LinesIn[c.path]
  BY <1>2, <1>1 DEF Missing
<1>7. c.start \in 1 .. Longest
  BY <1>1, <1>2, <1>6
<1>8. b \in Blocks /\ b.path = c.path /\ b.start = c.start
  BY <1>1, <1>7 DEF BlocksFrom, Blocks, Marks
<1>9. Height(b) \in Nat /\ Height(b) <= most
  BY <1>4, <1>5 DEF Height
<1> QED
  BY <1>3, <1>4, <1>8, <1>9

\* What is kept of a block fits in the room there is, and is as high as it says.
LEMMA FittedFits ==
  ASSUME NEW b \in Blocks, NEW room \in Nat, NEW kept \in 0 .. Longest, kept # 0,
         Height(b) \in Nat, FitToTokens(b, room, kept)
  PROVE  LET f == Fitted(b, room, kept)
         IN /\ f \in Blocks /\ f.path = b.path /\ f.start = b.start
            /\ Height(f) = kept /\ kept <= Height(b)
            /\ Count(f) \in Nat /\ Count(f) <= room
<1>1. CASE Count(b) <= room
  <2>1. Fitted(b, room, kept) = b /\ kept = Height(b)
    BY <1>1 DEF Fitted, FitToTokens
  <2>2. Count(b) \in Nat
    BY EvidenceAssumption
  <2> QED
    BY <1>1, <2>1, <2>2
<1>2. CASE ~(Count(b) <= room)
  <2>1. Fitted(b, room, kept) = Cut(b, kept)
    BY <1>2 DEF Fitted
  <2>2. Count(Cut(b, kept)) <= room /\ kept \in 0 .. Height(b) - 1
    BY <1>2 DEF FitToTokens
  <2>3. Cut(b, kept) \in Blocks /\ Height(Cut(b, kept)) = kept
        /\ Cut(b, kept).path = b.path /\ Cut(b, kept).start = b.start
    BY DEF Cut, Blocks, Marks, Height
  <2>4. Count(Cut(b, kept)) \in Nat
    BY <2>3, EvidenceAssumption
  <2> QED
    BY <2>1, <2>2, <2>3, <2>4
<1> QED
  BY <1>1, <1>2

-----------------------------------------------------------------------------
\* There are no snippets before the citations are settled, and those there are
\* expand earlier citations than the next.
InOrder ==
  /\ phase = "parse" => snippets = <<>> /\ next = 1 /\ usedLines = 0 /\ usedTokens = 0
  /\ \A i \in DOMAIN snippets : snippets[i].of < next

IInv == TypeOK /\ WithinCaps /\ SnippetsTrue /\ InOrder

LEMMA InitInv == Init => IInv
<1> SUFFICES ASSUME Init PROVE IInv
  OBVIOUS
<1>1. caps \in Caps /\ caps.lines \in Nat /\ caps.tokens \in Nat
  BY EvidenceAssumption DEF Init
<1>2. answer \in Answers /\ answer \in Seq(Lines) /\ unread = answer
  BY EvidenceAssumption DEF Init
<1>3. inside \in BOOLEAN
  BY DEF Init, Tagged
<1>4. /\ phase = "parse" /\ citations = <<>> /\ next = 1
      /\ snippets = <<>> /\ usedLines = 0 /\ usedTokens = 0
  BY DEF Init
<1>5. TypeOK
  BY <1>1, <1>2, <1>3, <1>4 DEF TypeOK
<1>6. WithinCaps /\ SnippetsTrue /\ InOrder
  BY <1>1, <1>4 DEF WithinCaps, SnippetsTrue, InOrder
<1> QED
  BY <1>5, <1>6 DEF IInv

LEMMA ParseLineKeeps == IInv /\ ParseLine => IInv'
<1> SUFFICES ASSUME IInv, ParseLine PROVE IInv'
  OBVIOUS
<1> USE DEF IInv
<1> DEFINE line == Head(unread)
<1>1. /\ phase = "parse" /\ unread # <<>> /\ unread \in Seq(Lines)
      /\ snippets = <<>> /\ next = 1 /\ usedLines = 0 /\ usedTokens = 0
      /\ citations \in Seq(Citation) /\ inside \in BOOLEAN
  BY DEF ParseLine, TypeOK, InOrder
<1>2. UNCHANGED <<caps, answer, phase, next, snippets, usedLines, usedTokens>>
  BY DEF ParseLine, used
<1>3. line \in Lines /\ Tail(unread) \in Seq(Lines)
  BY <1>1, HeadTailProperties
<1>4. unread' \in Seq(Lines)
  <2>1. unread' = <<>> \/ unread' = Tail(unread)
    BY DEF ParseLine
  <2>2. <<>> \in Seq(Lines)
    OBVIOUS
  <2> QED
    BY <1>3, <2>1, <2>2, Zenon
<1>5. inside' \in BOOLEAN
  BY DEF ParseLine
<1>6. /\ citations' \in Seq(Citation)
      /\ \A i, j \in DOMAIN citations' : citations'[i] = citations'[j] => i = j
  <2>1. \/ citations' = citations
        \/ /\ line.kind = "cite" /\ \A i \in DOMAIN citations : citations[i] # Clean(line)
           /\ citations' = Append(citations, Clean(line))
    BY DEF ParseLine
  <2>2. \A i, j \in DOMAIN citations : citations[i] = citations[j] => i = j
    BY DEF TypeOK
  <2>3. CASE citations' = citations
    BY <1>1, <2>2, <2>3
  <2>4. CASE /\ line.kind = "cite" /\ \A i \in DOMAIN citations : citations[i] # Clean(line)
             /\ citations' = Append(citations, Clean(line))
    <3> HIDE DEF line
    <3>1. Clean(line) \in Citation
      BY <1>3, <2>4, CleanIsCitation
    <3> QED
      BY <1>1, <2>2, <2>4, <3>1
  <2> QED
    BY <2>1, <2>3, <2>4
<1>7. TypeOK'
  <2>1. next' \in 1 .. Len(citations') + 1
    BY <1>1, <1>2, <1>6
  <2> QED
    BY <1>1, <1>2, <1>4, <1>5, <1>6, <2>1 DEF TypeOK
<1>8. WithinCaps'
  BY <1>2 DEF WithinCaps
<1>9. SnippetsTrue' /\ InOrder'
  BY <1>1, <1>2 DEF SnippetsTrue, InOrder
<1> QED
  BY <1>7, <1>8, <1>9

LEMMA ExpandKeeps == IInv /\ Expand => IInv'
<1> SUFFICES ASSUME IInv, Expand PROVE IInv'
  OBVIOUS
<1> USE DEF IInv
<1> DEFINE c == citations[next]
           limit == Min({caps.lines - usedLines, c.end - c.start + 1})
           room == caps.tokens - usedTokens
<1>1. /\ phase = "expand" /\ next <= Len(citations) /\ usedLines < caps.lines
      /\ usedTokens < caps.tokens /\ ~Missing(c)
      /\ UNCHANGED <<caps, answer, unread, inside, citations>>
  BY DEF Expand, Expanding, parsed
<1>2. /\ caps \in Caps /\ caps.lines \in Nat /\ caps.tokens \in Nat
      /\ usedLines \in Nat /\ usedTokens \in Nat
  BY EvidenceAssumption DEF TypeOK
<1>3. citations \in Seq(Citation) /\ next \in DOMAIN citations /\ next \in Nat /\ next >= 1
  BY <1>1 DEF TypeOK
<1>4. c \in Citation
  BY <1>3
<1>5. /\ c.path \in Paths /\ c.start \in Nat /\ c.start >= 1 /\ c.end \in Nat
      /\ c.path \in Readable
  BY <1>1, <1>4 DEF Citation, Missing
<1>6. LinesIn[c.path] \in Nat
  BY <1>5, EvidenceAssumption
<1>7. limit \in Int /\ limit <= caps.lines - usedLines /\ limit <= c.end - c.start + 1
  <2>1. caps.lines - usedLines \in Int /\ c.end - c.start + 1 \in Int
    BY <1>2, <1>5
  <2> DEFINE a == caps.lines - usedLines
             e == c.end - c.start + 1
  <2> HIDE DEF c
  <2>2. Min({a, e}) \in {a, e} /\ Min({a, e}) <= a /\ Min({a, e}) <= e
    <3> HIDE DEF a, e
    <3>1. a \in Int /\ e \in Int
      BY <2>1 DEF a, e
    <3> QED
      BY <3>1, MinOfTwo
  <2>3. limit = Min({a, e})
    BY DEF c
  <2> QED
    BY <2>1, <2>2, <2>3
<1>8. room \in Nat
  BY <1>1, <1>2
<1>9. PICK b \in BlocksFrom(c), kept \in 0 .. Longest :
        /\ Read(b, c, limit) /\ FitToTokens(b, room, kept)
        /\ IF kept = 0
           THEN phase' = "done" /\ UNCHANGED <<next, used>>
           ELSE /\ snippets' = Append(snippets, Snippet(c, kept, Fitted(b, room, kept)))
                /\ usedLines' = usedLines + kept
                /\ usedTokens' = usedTokens + Count(Fitted(b, room, kept))
                /\ next' = next + 1
                /\ UNCHANGED phase
  BY DEF Expand
<1> HIDE DEF c, limit, room
<1>10. CASE kept = 0
  <2>1. phase' = "done" /\ UNCHANGED <<next, snippets, usedLines, usedTokens>>
    BY <1>9, <1>10 DEF used
  <2>2. TypeOK'
    BY <1>1, <2>1 DEF TypeOK
  <2>3. WithinCaps' /\ SnippetsTrue' /\ InOrder'
    BY <1>1, <2>1 DEF WithinCaps, SnippetsTrue, InOrder
  <2> QED
    BY <2>2, <2>3
<1>11. CASE kept # 0
  <2> DEFINE f == Fitted(b, room, kept)
             s == Snippet(c, kept, f)
  <2>1. /\ snippets' = Append(snippets, s) /\ usedLines' = usedLines + kept
        /\ usedTokens' = usedTokens + Count(f) /\ next' = next + 1 /\ UNCHANGED phase
    BY <1>9, <1>11
  <2>2. /\ b \in Blocks /\ b.path = c.path /\ b.start = c.start
        /\ Height(b) \in Nat /\ Height(b) <= limit
        /\ Height(b) <= LinesIn[c.path] - c.start + 1
    BY <1>1, <1>4, <1>7, <1>9, ReadIsBounded
  <2>3. /\ f \in Blocks /\ f.path = c.path /\ f.start = c.start
        /\ Height(f) = kept /\ kept <= Height(b) /\ Count(f) \in Nat /\ Count(f) <= room
    BY <1>8, <1>9, <1>11, <2>2, FittedFits
  <2> HIDE DEF f
  <2>4. kept \in Nat /\ kept >= 1
    BY <1>9, <1>11, EvidenceAssumption
  <2>5. s = [of |-> next, path |-> c.path, start |-> c.start, end |-> c.start + kept - 1, code |-> f]
    BY DEF Snippet
  <2>6. s \in SnippetType
    BY <1>3, <1>5, <2>3, <2>4, <2>5 DEF SnippetType
  <2> HIDE DEF s
  <2>7. /\ snippets \in Seq(SnippetType) /\ snippets' \in Seq(SnippetType)
        /\ DOMAIN snippets' = DOMAIN snippets \cup {Len(snippets) + 1}
        /\ \A i \in DOMAIN snippets : snippets'[i] = snippets[i] /\ i < Len(snippets) + 1
        /\ snippets'[Len(snippets) + 1] = s
    BY <2>1, <2>6 DEF TypeOK
  <2>8. TypeOK'
    <3>1. next' \in 1 .. Len(citations) + 1
      BY <1>1, <1>3, <2>1
    <3>2. usedLines' \in Nat /\ usedTokens' \in Nat
      BY <1>2, <2>1, <2>3, <2>4
    <3> QED
      BY <1>1, <2>1, <2>7, <3>1, <3>2 DEF TypeOK
  <2>9. WithinCaps'
    <3>1. usedLines + kept <= caps.lines
      BY <1>2, <1>7, <2>2, <2>3, <2>4
    <3>2. usedTokens + Count(f) <= caps.tokens
      BY <1>2, <2>3 DEF room
    <3> QED
      BY <1>1, <2>1, <3>1, <3>2 DEF WithinCaps
  <2>10. /\ s.of = next /\ s.path = c.path /\ s.path \in Readable /\ s.start = c.start
         /\ s.end \in c.start .. c.end /\ s.end <= LinesIn[c.path]
         /\ s.code.path = s.path /\ s.code.start = s.start
         /\ s.end = s.start + Height(s.code) - 1
    <3>1. kept <= c.end - c.start + 1 /\ kept <= LinesIn[c.path] - c.start + 1
      BY <1>5, <1>6, <1>7, <2>2, <2>3, <2>4
    <3>2. s.of = next /\ s.path = c.path /\ s.start = c.start /\ s.end = c.start + kept - 1
          /\ s.code = f
      BY <2>5
    <3> QED
      BY <1>5, <1>6, <2>3, <2>4, <3>1, <3>2
  <2>11. \A i \in DOMAIN snippets : snippets[i].of < next /\ snippets[i].of \in Nat
    <3>1. \A i \in DOMAIN snippets : snippets[i].of < next
      BY DEF InOrder
    <3>2. \A i \in DOMAIN snippets : snippets[i] \in SnippetType
      BY <2>7
    <3> QED
      BY <3>1, <3>2 DEF SnippetType
  <2>12. SnippetsTrue'
    <3>1. ASSUME NEW i \in DOMAIN snippets'
          PROVE  LET t == snippets'[i]
                     e == citations[t.of]
                 IN /\ t.of \in DOMAIN citations
                    /\ t.path = e.path /\ t.path \in Readable
                    /\ t.start = e.start /\ t.end \in e.start .. e.end /\ t.end <= LinesIn[e.path]
                    /\ t.code.path = t.path /\ t.code.start = t.start
                    /\ t.end = t.start + Height(t.code) - 1
      <4>1. CASE i \in DOMAIN snippets
        <5>1. snippets'[i] = snippets[i]
          BY <2>7, <4>1
        <5> QED
          BY <4>1, <5>1 DEF SnippetsTrue
      <4>2. CASE i = Len(snippets) + 1
        <5>1. snippets'[i] = s
          BY <2>7, <4>2
        <5> QED
          BY <1>3, <2>10, <5>1 DEF c
      <4> QED
        BY <2>7, <4>1, <4>2
    <3>2. ASSUME NEW i \in DOMAIN snippets', NEW j \in DOMAIN snippets', i < j
          PROVE  snippets'[i].of < snippets'[j].of
      <4>1. i \in DOMAIN snippets
        BY <2>7, <3>2
      <4>2. CASE j \in DOMAIN snippets
        BY <2>7, <3>2, <4>1, <4>2 DEF SnippetsTrue
      <4>3. CASE j = Len(snippets) + 1
        BY <2>7, <2>10, <2>11, <4>1, <4>3
      <4> QED
        BY <2>7, <4>2, <4>3
    <3>3. citations' = citations
      BY <1>1
    <3> QED
      BY <3>1, <3>2, <3>3 DEF SnippetsTrue
  <2>13. InOrder'
    <3>1. ASSUME NEW i \in DOMAIN snippets' PROVE snippets'[i].of < next + 1
      <4>1. CASE i \in DOMAIN snippets
        BY <1>3, <2>7, <2>11, <4>1
      <4>2. CASE i = Len(snippets) + 1
        BY <1>3, <2>7, <2>10, <4>2
      <4> QED
        BY <2>7, <4>1, <4>2
    <3>2. phase' # "parse"
      BY <1>1, <2>1
    <3> QED
      BY <2>1, <3>1, <3>2 DEF InOrder
  <2> QED
    BY <2>8, <2>9, <2>12, <2>13
<1> QED
  BY <1>10, <1>11

LEMMA SkipKeeps == IInv /\ Skip => IInv'
<1> SUFFICES ASSUME IInv, Skip PROVE IInv'
  OBVIOUS
<1> USE DEF IInv
<1>1. /\ phase = "expand" /\ next <= Len(citations) /\ next' = next + 1
      /\ UNCHANGED <<caps, answer, unread, inside, citations, phase>>
      /\ UNCHANGED <<snippets, usedLines, usedTokens>>
  BY DEF Skip, Expanding, parsed, used
<1>2. next \in 1 .. Len(citations) + 1 /\ Len(citations) \in Nat
  BY DEF TypeOK
<1>3. next' \in 1 .. Len(citations) + 1
  BY <1>1, <1>2
<1>4. TypeOK'
  BY <1>1, <1>3 DEF TypeOK
<1>5. WithinCaps' /\ SnippetsTrue'
  BY <1>1 DEF WithinCaps, SnippetsTrue
<1>6. InOrder'
  <2>1. \A i \in DOMAIN snippets : snippets[i].of < next /\ snippets[i].of \in Nat
    <3>1. \A i \in DOMAIN snippets : snippets[i].of < next
      BY DEF InOrder
    <3>2. \A i \in DOMAIN snippets : snippets[i] \in SnippetType
      BY DEF TypeOK
    <3> QED
      BY <3>1, <3>2 DEF SnippetType
  <2>2. \A i \in DOMAIN snippets : snippets[i].of < next + 1
    BY <1>2, <2>1
  <2> QED
    BY <1>1, <2>2 DEF InOrder
<1> QED
  BY <1>4, <1>5, <1>6

LEMMA StepInv == IInv /\ [Next]_vars => IInv'
<1>1. ASSUME IInv, Parsed \/ Finish PROVE IInv'
  <2>1. /\ phase' \in {"expand", "done"}
        /\ UNCHANGED <<caps, answer, unread, inside, citations, next>>
        /\ UNCHANGED <<snippets, usedLines, usedTokens>>
    BY <1>1 DEF Parsed, Finish, parsed, used
  <2>2. TypeOK'
    BY <1>1, <2>1 DEF IInv, TypeOK
  <2>3. WithinCaps' /\ SnippetsTrue' /\ InOrder'
    BY <1>1, <2>1 DEF IInv, WithinCaps, SnippetsTrue, InOrder
  <2> QED
    BY <2>2, <2>3 DEF IInv
<1>2. ASSUME IInv, UNCHANGED vars PROVE IInv'
  <2>1. /\ UNCHANGED <<caps, answer, unread, inside, citations, phase, next>>
        /\ UNCHANGED <<snippets, usedLines, usedTokens>>
    BY <1>2 DEF vars, parsed, used
  <2>2. TypeOK'
    BY <1>2, <2>1 DEF IInv, TypeOK
  <2>3. WithinCaps' /\ SnippetsTrue' /\ InOrder'
    BY <1>2, <2>1 DEF IInv, WithinCaps, SnippetsTrue, InOrder
  <2> QED
    BY <2>2, <2>3 DEF IInv
<1> QED
  BY <1>1, <1>2, ParseLineKeeps, SkipKeeps, ExpandKeeps DEF Next, Over

-----------------------------------------------------------------------------
\* Sums.  The running totals exist for every sequence and are its own, by induction
\* on the lengths a claim fails for.

\* A set of numbers that has 0 and, with a number, the next, has them all.
LEMMA SetInduction ==
  ASSUME NEW S, 0 \in S, \A n \in Nat : n \in S => n + 1 \in S
  PROVE  \A n \in Nat : n \in S
<1> SUFFICES ASSUME NEW n \in Nat, n \notin S PROVE FALSE
  OBVIOUS
<1> DEFINE R == OpToRel(<, Nat)
           T == Nat \ S
<1>1. T \subseteq Nat /\ T # {}
  OBVIOUS
<1>2. IsWellFoundedOn(R, Nat)
  BY NatLessThanWellFounded
<1> HIDE DEF R, T
<1>3. PICK m \in T : \A k \in T : ~ (<<k, m>> \in R)
  BY <1>1, <1>2, WFMin
<1>4. m \in Nat /\ m \notin S /\ m # 0
  BY <1>3 DEF T
<1>5. m - 1 \in Nat /\ m - 1 \notin S
  BY <1>4
<1>6. <<m - 1, m>> \in R
  BY <1>4, <1>5 DEF R, OpToRel
<1> QED
  BY <1>3, <1>5, <1>6 DEF T

\* t[i] is the sum of the first i numbers of f, for i up to n.
Running(t, f, n) == t = [i \in 0 .. n |-> IF i = 0 THEN 0 ELSE t[i - 1] + f[i]]

\* The same, one value at a time.
LEMMA RunningIs ==
  ASSUME NEW t, NEW f, NEW n \in Nat
  PROVE  Running(t, f, n) <=>
           /\ t = [i \in 0 .. n |-> t[i]]
           /\ t[0] = 0
           /\ \A i \in 1 .. n : t[i] = t[i - 1] + f[i]
<1> DEFINE Step(i) == IF i = 0 THEN 0 ELSE t[i - 1] + f[i]
<1>1. Step(0) = 0 /\ \A i \in 1 .. n : Step(i) = t[i - 1] + f[i]
  OBVIOUS
<1>2. Running(t, f, n) <=> t = [i \in 0 .. n |-> Step(i)]
  BY DEF Running
<1> HIDE DEF Step
<1>3. ASSUME t = [i \in 0 .. n |-> Step(i)]
      PROVE  t = [i \in 0 .. n |-> t[i]] /\ \A i \in 0 .. n : t[i] = Step(i)
  BY <1>3, Zenon
<1>4. ASSUME t = [i \in 0 .. n |-> t[i]], \A i \in 0 .. n : t[i] = Step(i)
      PROVE  t = [i \in 0 .. n |-> Step(i)]
  <2>1. [i \in 0 .. n |-> t[i]] = [i \in 0 .. n |-> Step(i)]
    BY <1>4
  <2> QED
    BY <1>4, <2>1, Zenon
<1>5. 0 \in 0 .. n /\ \A i \in 0 .. n : i = 0 \/ i \in 1 .. n
  OBVIOUS
<1>6. 1 .. n \subseteq 0 .. n
  OBVIOUS
<1>7. (\A i \in 0 .. n : t[i] = Step(i)) <=>
        t[0] = 0 /\ \A i \in 1 .. n : t[i] = t[i - 1] + f[i]
  BY <1>1, <1>5, <1>6, Zenon
<1> QED
  BY <1>2, <1>3, <1>4, <1>7, Zenon

\* There are running totals for every length,
LEMMA RunningExists ==
  ASSUME NEW f, NEW n \in Nat
  PROVE  \E t : Running(t, f, n)
<1> DEFINE S == {m \in Nat : \E t : Running(t, f, m)}
<1>1. 0 \in S
  <2> DEFINE t == [i \in 0 .. 0 |-> 0]
  <2>1. t = [i \in 0 .. 0 |-> t[i]] /\ t[0] = 0 /\ 1 .. 0 = {}
    OBVIOUS
  <2> HIDE DEF t
  <2> QED
    BY <2>1, RunningIs
<1>2. ASSUME NEW m \in Nat, m \in S PROVE m + 1 \in S
  <2>1. PICK t : Running(t, f, m)
    BY <1>2
  <2> DEFINE x == t[m] + f[m + 1]
             New(i) == IF i = m + 1 THEN x ELSE t[i]
             u == [i \in 0 .. m + 1 |-> New(i)]
  <2>2. t[0] = 0 /\ \A i \in 1 .. m : t[i] = t[i - 1] + f[i]
    BY <2>1, RunningIs
  <2>3. New(m + 1) = x /\ \A i \in 0 .. m : New(i) = t[i]
    OBVIOUS
  <2> HIDE DEF New
  <2>4. u = [i \in 0 .. m + 1 |-> u[i]] /\ \A i \in 0 .. m + 1 : u[i] = New(i)
    OBVIOUS
  <2> HIDE DEF u
  <2>5. u[0] = 0
    BY <2>2, <2>3, <2>4
  <2>6. ASSUME NEW i \in 1 .. m + 1 PROVE u[i] = u[i - 1] + f[i]
    <3>1. u[i - 1] = t[i - 1]
      BY <2>3, <2>4
    <3>2. CASE i = m + 1
      BY <3>1, <3>2, <2>3, <2>4
    <3>3. CASE i # m + 1
      <4>1. i \in 1 .. m
        BY <3>3
      <4>2. u[i] = t[i]
        BY <4>1, <2>3, <2>4
      <4> QED
        BY <4>1, <4>2, <3>1, <2>2
    <3> QED
      BY <3>2, <3>3
  <2>7. m + 1 \in Nat /\ u = [i \in 0 .. m + 1 |-> u[i]]
    BY <2>4
  <2>8. Running(u, f, m + 1)
    BY <2>5, <2>6, <2>7, RunningIs
  <2> QED
    BY <2>7, <2>8
<1> HIDE DEF S
<1>3. n \in S
  BY <1>1, <1>2, SetInduction
<1> QED
  BY <1>3 DEF S

\* two of them agree as far as the sequences do,
LEMMA RunningAgree ==
  ASSUME NEW f, NEW g, NEW m \in Nat, NEW n \in Nat, NEW t, NEW u,
         m <= n, \A i \in 1 .. m : g[i] = f[i], Running(t, f, m), Running(u, g, n)
  PROVE  t[m] = u[m]
<1> DEFINE S == {i \in Nat : i <= m => t[i] = u[i]}
<1>1. t[0] = 0 /\ \A i \in 1 .. m : t[i] = t[i - 1] + f[i]
  BY RunningIs
<1>2. u[0] = 0 /\ \A i \in 1 .. n : u[i] = u[i - 1] + g[i]
  BY RunningIs
<1>3. 0 \in S
  BY <1>1, <1>2
<1>4. ASSUME NEW i \in Nat, i \in S PROVE i + 1 \in S
  <2>1. CASE i + 1 <= m
    <3>1. i + 1 \in 1 .. m /\ i + 1 \in 1 .. n /\ (i + 1) - 1 = i
      BY <2>1
    <3>2. t[i + 1] = t[i] + f[i + 1] /\ u[i + 1] = u[i] + g[i + 1]
      BY <1>1, <1>2, <3>1
    <3>3. t[i] = u[i] /\ g[i + 1] = f[i + 1]
      BY <1>4, <2>1, <3>1
    <3> QED
      BY <3>2, <3>3
  <2> QED
    BY <2>1
<1> HIDE DEF S
<1>5. m \in S
  BY <1>3, <1>4, SetInduction
<1> QED
  BY <1>5 DEF S

\* and the last of them is the sum.
LEMMA SumIs ==
  ASSUME NEW f, Len(f) \in Nat
  PROVE  \E t : Running(t, f, Len(f)) /\ SumOf(f) = t[Len(f)]
<1> DEFINE t == CHOOSE u : Running(u, f, Len(f))
<1>1. Running(t, f, Len(f))
  BY RunningExists
<1>2. SumOf(f) = t[Len(f)]
  BY DEF SumOf, Totals, Running
<1> QED
  BY <1>1, <1>2

\* Nothing adds up to nothing.
LEMMA SumNone == SumOf(<<>>) = 0
<1>1. Len(<<>>) = 0
  OBVIOUS
<1>2. PICK t : Running(t, <<>>, 0) /\ SumOf(<<>>) = t[0]
  BY <1>1, SumIs
<1> QED
  BY <1>2, RunningIs

\* One more number adds itself.
LEMMA SumGrows ==
  ASSUME NEW f, NEW g, NEW n \in Nat, Len(f) = n, Len(g) = n + 1,
         \A i \in 1 .. n : g[i] = f[i]
  PROVE  SumOf(g) = SumOf(f) + g[n + 1]
<1>1. PICK t : Running(t, f, n) /\ SumOf(f) = t[n]
  BY SumIs
<1>2. PICK u : Running(u, g, n + 1) /\ SumOf(g) = u[n + 1]
  BY SumIs
<1>3. t[n] = u[n]
  <2>1. n <= n + 1 /\ n + 1 \in Nat
    OBVIOUS
  <2> QED
    BY <1>1, <1>2, <2>1, RunningAgree
<1>4. n + 1 \in 1 .. n + 1 /\ (n + 1) - 1 = n /\ n + 1 \in Nat
  OBVIOUS
<1>5. u[n + 1] = u[(n + 1) - 1] + g[n + 1]
  BY <1>2, <1>4, RunningIs
<1> QED
  BY <1>1, <1>2, <1>3, <1>4, <1>5
-----------------------------------------------------------------------------
\* What a read of one piece leaves out, it leaves out for a reason: the limit asked
\* for, the limit of all reads, or the end of the file.
LEMMA ReadIsFull ==
  ASSUME NEW c \in Citation, ~Missing(c), NEW limit \in Int,
         NEW b \in BlocksFrom(c), Read(b, c, limit), b.mark = "none"
  PROVE  b.lines \in {limit, ReadLines, LinesIn[c.path] - c.start + 1}
<1>1. c.path \in Paths /\ c.start \in Nat
  BY DEF Citation
<1>2. LinesIn[c.path] - c.start + 1 \in Int /\ ReadLines \in Int
  BY <1>1, EvidenceAssumption
<1>3. b.lines = Min({limit, ReadLines, LinesIn[c.path] - c.start + 1})
  BY DEF Read
<1> QED
  BY <1>2, <1>3, MinOfThree

\* If nothing of a read is kept, then one line of it is more than there is room for.
LEMMA NothingFits ==
  ASSUME NEW c \in Citation, ~Missing(c), NEW limit \in Int, limit >= 1,
         NEW b \in BlocksFrom(c), Read(b, c, limit), NEW room \in Nat, FitToTokens(b, room, 0)
  PROVE  \E d \in Blocks : d.path = c.path /\ d.start = c.start /\ d.lines <= 1 /\ Count(d) > room
<1>1. /\ b \in Blocks /\ b.path = c.path /\ b.start = c.start /\ Height(b) \in Nat
  BY ReadIsBounded
<1>2. Height(b) # 0
  <2>1. LinesIn[c.path] \in Nat /\ c.start \in Nat /\ c.start <= LinesIn[c.path]
    BY EvidenceAssumption DEF Citation, Missing
  <2>2. LinesIn[c.path] - c.start + 1 >= 1 /\ ReadLines >= 1
    BY <2>1, EvidenceAssumption
  <2>3. b.lines \in Nat /\ b.mark \in {"none", "bytes"}
    BY DEF BlocksFrom
  <2>4. b.mark = "none" => b.lines # 0
    BY <2>2, ReadIsFull
  <2> QED
    BY <2>3, <2>4 DEF Height
<1>3. ~(Count(b) <= room) /\ Count(b) \in Nat
  BY <1>1, <1>2, EvidenceAssumption DEF FitToTokens
<1>4. CASE Height(b) = 1
  <2>1. b.lines <= 1
    BY <1>1, <1>4 DEF Height, Blocks
  <2> QED
    BY <1>1, <1>3, <2>1
<1>5. CASE Height(b) # 1
  <2>1. 1 \in 0 + 1 .. Height(b) - 1
    BY <1>1, <1>2, <1>5
  <2>2. Count(Cut(b, 1)) > room
    BY <1>3, <2>1 DEF FitToTokens
  <2>3. 1 \in 0 .. Longest
    <3>1. b.start \in 1 .. Longest /\ Longest \in Nat
      BY <1>1, EvidenceAssumption DEF Blocks
    <3> QED
      BY <3>1
  <2>4. /\ Cut(b, 1) \in Blocks /\ Cut(b, 1).path = b.path /\ Cut(b, 1).start = b.start
        /\ Cut(b, 1).lines = 1
    <3>1. \A n \in 0 .. Longest :
            /\ Cut(b, n) \in Blocks /\ Cut(b, n).path = b.path /\ Cut(b, n).start = b.start
            /\ Cut(b, n).lines = n
      BY <1>1 DEF Cut, Blocks, Marks
    <3> QED
      BY <2>3, <3>1
  <2> QED
    BY <1>1, <2>2, <2>4
<1> QED
  BY <1>4, <1>5

\* A range that was cleaned does not end before it starts.
LEMMA CleanRange ==
  ASSUME NEW line \in Lines, line.kind = "cite"
  PROVE  Clean(line).start <= Clean(line).end
<1>1. line.from \in Int /\ line.to \in Int
  BY DEF Lines, NoEnd
<1> DEFINE start == Max({line.from, 1})
<1>2. start \in Int
  <2>1. 1 \in Int
    OBVIOUS
  <2> QED
    BY <1>1, <2>1, MaxOfTwo
<1> HIDE DEF start
<1>3. Max({line.to, start}) >= start /\ Max({line.to, start}) \in Int
  BY <1>1, <1>2, MaxOfTwo
<1>4. Clean(line).start = start /\ Clean(line).end = Max({line.to, start})
  BY DEF Clean, start
<1> QED
  BY <1>2, <1>3, <1>4

-----------------------------------------------------------------------------
\* Why the expansion is over, once it is.
Exhausted ==
  \/ next > Len(citations)
  \/ usedLines = caps.lines \/ usedTokens = caps.tokens
  \/ LeftOut(next) /\ Stuck(next)

\* The sums, and no citation before the next one is left out.
HiddenInv ==
  /\ usedLines = SumOf(LinesOf) /\ usedTokens = SumOf(TokensOf)
  /\ \A i \in DOMAIN citations : citations[i].start <= citations[i].end
  /\ NoneCutShort
  /\ \A i \in 1 .. next - 1 : ~LeftOut(i)
  /\ phase = "done" => Exhausted

\* A step that adds no snippet leaves the sums and the snippets as they are.
LEMMA HiddenFrame ==
  ASSUME HiddenInv, UNCHANGED <<caps, citations, snippets, usedLines, usedTokens>>
  PROVE  /\ (usedLines = SumOf(LinesOf) /\ usedTokens = SumOf(TokensOf))'
         /\ (\A i \in DOMAIN citations : citations[i].start <= citations[i].end)'
         /\ NoneCutShort'
         /\ \A i : LeftOut(i)' <=> LeftOut(i)
         /\ \A i : Stuck(i)' <=> Stuck(i)
<1>1. (usedLines = SumOf(LinesOf) /\ usedTokens = SumOf(TokensOf))'
  BY DEF HiddenInv, LinesOf, TokensOf
<1>2. (\A i \in DOMAIN citations : citations[i].start <= citations[i].end)'
  BY DEF HiddenInv
<1>3. NoneCutShort'
  BY DEF HiddenInv, NoneCutShort
<1>4. \A i : LeftOut(i)' <=> LeftOut(i)
  BY DEF LeftOut
<1>5. \A i : Stuck(i)' <=> Stuck(i)
  BY DEF Stuck
<1> QED
  BY <1>1, <1>2, <1>3, <1>4, <1>5

LEMMA InitHidden == Init => HiddenInv
<1> SUFFICES ASSUME Init PROVE HiddenInv
  OBVIOUS
<1>1. /\ phase = "parse" /\ citations = <<>> /\ next = 1
      /\ snippets = <<>> /\ usedLines = 0 /\ usedTokens = 0
  BY DEF Init
<1>2. LinesOf = <<>> /\ TokensOf = <<>>
  BY <1>1 DEF LinesOf, TokensOf
<1>3. usedLines = SumOf(LinesOf) /\ usedTokens = SumOf(TokensOf)
  BY <1>1, <1>2, SumNone
<1> QED
  BY <1>1, <1>3 DEF HiddenInv, NoneCutShort

LEMMA ParseLineHides == IInv /\ HiddenInv /\ ParseLine => HiddenInv'
<1> SUFFICES ASSUME IInv, HiddenInv, ParseLine PROVE HiddenInv'
  OBVIOUS
<1> DEFINE line == Head(unread)
<1>1. /\ phase = "parse" /\ snippets = <<>> /\ next = 1 /\ unread # <<>>
      /\ unread \in Seq(Lines) /\ citations \in Seq(Citation)
      /\ UNCHANGED <<caps, phase, next, snippets, usedLines, usedTokens>>
  BY DEF IInv, TypeOK, InOrder, ParseLine, used
<1>2. line \in Lines
  BY <1>1, HeadTailProperties
<1>3. (usedLines = SumOf(LinesOf) /\ usedTokens = SumOf(TokensOf))'
  BY <1>1 DEF HiddenInv, LinesOf, TokensOf
<1>4. \A i \in DOMAIN citations' : citations'[i].start <= citations'[i].end
  <2>1. \/ citations' = citations
        \/ line.kind = "cite" /\ citations' = Append(citations, Clean(line))
    BY DEF ParseLine
  <2>2. \A i \in DOMAIN citations : citations[i].start <= citations[i].end
    BY DEF HiddenInv
  <2> HIDE DEF line
  <2>3. ASSUME line.kind = "cite", citations' = Append(citations, Clean(line)),
               NEW i \in DOMAIN citations'
        PROVE  citations'[i].start <= citations'[i].end
    <3>1. Clean(line).start <= Clean(line).end /\ Clean(line) \in Citation
      BY <1>2, <2>3, CleanRange, CleanIsCitation
    <3> DEFINE d == Clean(line)
    <3> HIDE DEF d
    <3>2. d.start <= d.end /\ d \in Citation /\ citations' = Append(citations, d)
      BY <2>3, <3>1 DEF d
    <3>3. \/ i \in DOMAIN citations /\ citations'[i] = citations[i]
          \/ citations'[i] = d
      BY <1>1, <2>3, <3>2
    <3> QED
      BY <2>2, <3>2, <3>3
  <2> QED
    BY <2>1, <2>2, <2>3
<1>5. NoneCutShort' /\ phase' # "done"
  BY <1>1 DEF NoneCutShort
<1>6. \A i \in 1 .. next' - 1 : ~LeftOut(i)'
  BY <1>1
<1> QED
  BY <1>3, <1>4, <1>5, <1>6 DEF HiddenInv

\* A citation that cannot be read is not left out.
LEMMA SkipHides == IInv /\ HiddenInv /\ Skip => HiddenInv'
<1> SUFFICES ASSUME IInv, HiddenInv, Skip PROVE HiddenInv'
  OBVIOUS
<1>1. /\ phase = "expand" /\ next' = next + 1 /\ Missing(citations[next])
      /\ UNCHANGED <<caps, citations, phase, snippets, usedLines, usedTokens>>
  BY DEF Skip, Expanding, parsed, used
<1>2. next \in Nat
  BY DEF IInv, TypeOK
<1>3. ASSUME NEW i \in 1 .. next' - 1 PROVE ~LeftOut(i)'
  <2>1. i \in 1 .. next - 1 \/ i = next
    BY <1>1, <1>2
  <2>2. ~LeftOut(i)
    BY <1>1, <2>1 DEF HiddenInv, LeftOut
  <2> QED
    BY <1>1, <2>2, HiddenFrame
<1> QED
  BY <1>1, <1>3, HiddenFrame DEF HiddenInv

\* A snippet adds its lines and its tokens, and is cut short for a reason; what
\* does not become a snippet is stuck.
LEMMA ExpandHides == IInv /\ HiddenInv /\ Expand => HiddenInv'
<1> SUFFICES ASSUME IInv, HiddenInv, Expand PROVE HiddenInv'
  OBVIOUS
<1> DEFINE c == citations[next]
           lines == caps.lines - usedLines
           range == c.end - c.start + 1
           limit == Min({lines, range})
           room == caps.tokens - usedTokens
<1>1. /\ phase = "expand" /\ next <= Len(citations) /\ usedLines < caps.lines
      /\ usedTokens < caps.tokens /\ ~Missing(c) /\ UNCHANGED <<caps, citations>>
  BY DEF Expand, Expanding, parsed
<1>2. /\ caps.lines \in Nat /\ caps.tokens \in Nat /\ usedLines \in Nat /\ usedTokens \in Nat
      /\ citations \in Seq(Citation) /\ next \in Nat /\ next \in DOMAIN citations
      /\ snippets \in Seq(SnippetType)
  <2>1. /\ usedLines \in Nat /\ usedTokens \in Nat /\ citations \in Seq(Citation)
        /\ next \in 1 .. Len(citations) + 1 /\ snippets \in Seq(SnippetType) /\ caps \in Caps
    BY DEF IInv, TypeOK
  <2>2. next \in DOMAIN citations
    BY <1>1, <2>1
  <2> QED
    BY <2>1, <2>2, EvidenceAssumption
<1>3. c \in Citation /\ c.start \in Nat /\ c.end \in Nat /\ c.start <= c.end /\ c.path \in Paths
  <2>1. c \in Citation
    BY <1>2
  <2>2. c.start <= c.end
    BY <1>2 DEF HiddenInv
  <2> HIDE DEF c
  <2> QED
    BY <2>1, <2>2 DEF Citation
<1>4. LinesIn[c.path] \in Nat /\ ReadLines \in Nat
  BY <1>3, EvidenceAssumption
<1>5. lines \in Int /\ range \in Int /\ room \in Nat /\ lines >= 1 /\ range >= 1
  BY <1>1, <1>2, <1>3
<1>6. PICK b \in BlocksFrom(c), kept \in 0 .. Longest :
        /\ Read(b, c, limit) /\ FitToTokens(b, room, kept)
        /\ IF kept = 0
           THEN phase' = "done" /\ UNCHANGED <<next, used>>
           ELSE /\ snippets' = Append(snippets, Snippet(c, kept, Fitted(b, room, kept)))
                /\ usedLines' = usedLines + kept
                /\ usedTokens' = usedTokens + Count(Fitted(b, room, kept))
                /\ next' = next + 1
                /\ UNCHANGED phase
  BY DEF Expand
<1> HIDE DEF lines, range
<1>7. limit \in {lines, range} /\ limit \in Int /\ limit >= 1
  BY <1>5, MinOfTwo
<1> HIDE DEF c, limit, room
<1>8. CASE kept = 0
  <2>1. phase' = "done" /\ UNCHANGED <<next, snippets, usedLines, usedTokens>>
    BY <1>6, <1>8 DEF used
  <2>2. Stuck(next)
    <3>1. \E d \in Blocks : d.path = c.path /\ d.start = c.start /\ d.lines <= 1
                            /\ Count(d) > room
      BY <1>1, <1>3, <1>5, <1>6, <1>7, <1>8, NothingFits
    <3> QED
      BY <3>1 DEF Stuck, c, room
  <2>3. LeftOut(next)
    BY <1>1, <1>2 DEF LeftOut, IInv, InOrder, TypeOK, SnippetType, c
  <2>4. Exhausted'
    BY <1>1, <2>1, <2>2, <2>3, HiddenFrame DEF Exhausted
  <2> QED
    BY <1>1, <2>1, <2>4, HiddenFrame DEF HiddenInv
<1>9. CASE kept # 0
  <2> DEFINE f == Fitted(b, room, kept)
             s == Snippet(c, kept, f)
  <2>1. /\ snippets' = Append(snippets, s) /\ usedLines' = usedLines + kept
        /\ usedTokens' = usedTokens + Count(f) /\ next' = next + 1 /\ UNCHANGED phase
    BY <1>6, <1>9
  <2>2. s = [of |-> next, path |-> c.path, start |-> c.start, end |-> c.start + kept - 1, code |-> f]
    BY DEF Snippet
  <2>3. b \in Blocks /\ Height(b) \in Nat
    BY <1>1, <1>3, <1>6, <1>7, ReadIsBounded
  <2>4. f \in Blocks /\ kept \in Nat /\ kept >= 1 /\ Height(f) = kept
    BY <1>5, <1>6, <1>9, <2>3, EvidenceAssumption, FittedFits
  <2>5. PICK n \in Nat : n = Len(snippets)
    BY <1>2
  <2> HIDE DEF s
  <2>6. /\ DOMAIN snippets = 1 .. n /\ Len(snippets') = n + 1 /\ DOMAIN snippets' = 1 .. n + 1
        /\ \A i \in 1 .. n : snippets'[i] = snippets[i]
        /\ snippets'[n + 1] = s
    BY <1>2, <2>1, <2>5
  <2>7. s.of = next /\ s.path = c.path /\ s.start = c.start /\ s.end = c.start + kept - 1 /\ s.code = f
    BY <2>2
  <2>8. usedLines' = SumOf(LinesOf)'
    <3> DEFINE g == LinesOf
               h == LinesOf'
    <3>1. /\ g = [i \in 1 .. n |-> snippets[i].end - snippets[i].start + 1]
          /\ h = [i \in 1 .. n + 1 |-> snippets'[i].end - snippets'[i].start + 1]
      BY <2>6 DEF LinesOf
    <3>2. h[n + 1] = kept
      BY <1>3, <2>4, <2>6, <2>7, <3>1
    <3>3. Len(g) = n /\ Len(h) = n + 1 /\ \A i \in 1 .. n : h[i] = g[i]
      BY <2>6, <3>1
    <3> HIDE DEF g, h
    <3>4. SumOf(h) = SumOf(g) + h[n + 1]
      BY <3>3, SumGrows
    <3> QED
      BY <2>1, <3>2, <3>4 DEF HiddenInv, g, h
  <2>9. usedTokens' = SumOf(TokensOf)'
    <3> DEFINE g == TokensOf
               h == TokensOf'
    <3>1. /\ g = [i \in 1 .. n |-> Count(snippets[i].code)]
          /\ h = [i \in 1 .. n + 1 |-> Count(snippets'[i].code)]
      BY <2>6 DEF TokensOf
    <3>2. h[n + 1] = Count(f)
      BY <2>6, <2>7, <3>1
    <3>3. Len(g) = n /\ Len(h) = n + 1 /\ \A i \in 1 .. n : h[i] = g[i]
      BY <2>6, <3>1
    <3> HIDE DEF g, h
    <3>4. SumOf(h) = SumOf(g) + h[n + 1]
      BY <3>3, SumGrows
    <3> QED
      BY <2>1, <3>2, <3>4 DEF HiddenInv, g, h
  <2>10. (\A i \in DOMAIN citations : citations[i].start <= citations[i].end)'
    BY <1>1 DEF HiddenInv
  <2>11. \A i \in 1 .. next' - 1 : ~LeftOut(i)'
    <3>1. ASSUME NEW i \in 1 .. next - 1 PROVE ~LeftOut(i)'
      <4>1. ~LeftOut(i)
        BY DEF HiddenInv
      <4> QED
        BY <1>1, <2>6, <4>1 DEF LeftOut, Missing
    <3>2. PICK m \in Nat : m = next
      BY <1>2
    <3>3. ~LeftOut(m)'
      BY <2>6, <2>7, <3>2 DEF LeftOut
    <3> QED
      BY <2>1, <3>1, <3>2, <3>3
  <2>12. NoneCutShort'
    <3>1. ASSUME s.code.mark = "none", s.end < Min({c.end, LinesIn[c.path]})
          PROVE  s.code.lines = ReadLines \/ usedLines' = caps.lines
      <4>1. f = b /\ f.lines = kept
        BY <2>4, <2>7, <3>1 DEF Fitted, Cut, Height, Blocks
      <4>2. Min({c.end, LinesIn[c.path]}) <= c.end /\ Min({c.end, LinesIn[c.path]}) <= LinesIn[c.path]
            /\ Min({c.end, LinesIn[c.path]}) \in Int
        <5> DEFINE a == c.end
                   e == LinesIn[c.path]
        <5>1. a \in Int /\ e \in Int
          BY <1>3, <1>4
        <5> HIDE DEF a, e
        <5>2. Min({a, e}) <= a /\ Min({a, e}) <= e /\ Min({a, e}) \in Int
          BY <5>1, MinOfTwo
        <5> QED
          BY <5>2 DEF a, e
      <4>3. c.start + kept - 1 < c.end /\ c.start + kept - 1 < LinesIn[c.path]
        BY <1>3, <1>4, <2>4, <2>7, <3>1, <4>2
      <4>4. kept \in {lines, range, ReadLines, LinesIn[c.path] - c.start + 1}
        BY <1>1, <1>3, <1>6, <1>7, <2>7, <3>1, <4>1, ReadIsFull
      <4>5. kept # range /\ kept # LinesIn[c.path] - c.start + 1
        BY <1>3, <1>4, <2>4, <4>3 DEF range
      <4>6. kept = lines => usedLines' = caps.lines
        BY <1>2, <2>1 DEF lines
      <4> QED
        BY <2>7, <4>1, <4>4, <4>5, <4>6
    <3>2. ASSUME NEW i \in 1 .. n,
                 snippets[i].code.mark = "none",
                 snippets[i].end < Min({citations[snippets[i].of].end,
                                        LinesIn[citations[snippets[i].of].path]})
          PROVE  snippets[i].code.lines = ReadLines
      <4>1. NoneCutShort /\ i \in DOMAIN snippets
        BY <2>6 DEF HiddenInv
      <4>2. snippets[i].code.lines = ReadLines \/ usedLines = caps.lines
        BY <3>2, <4>1 DEF NoneCutShort
      <4> QED
        BY <1>1, <1>2, <4>2
    <3>3. ASSUME NEW i \in 1 .. n + 1,
                 snippets'[i].code.mark = "none",
                 snippets'[i].end < Min({citations[snippets'[i].of].end,
                                         LinesIn[citations[snippets'[i].of].path]})
          PROVE  snippets'[i].code.lines = ReadLines \/ (i = n + 1 /\ usedLines' = caps.lines)
      <4>1. CASE i \in 1 .. n
        BY <2>6, <3>2, <3>3, <4>1
      <4>2. CASE i = n + 1
        BY <2>6, <2>7, <3>1, <3>3, <4>2 DEF c
      <4> QED
        BY <4>1, <4>2
    <3> QED
      BY <1>1, <2>6, <3>3 DEF NoneCutShort
  <2>13. phase' # "done"
    BY <1>1, <2>1
  <2> QED
    BY <2>8, <2>9, <2>10, <2>11, <2>12, <2>13 DEF HiddenInv
<1> QED
  BY <1>8, <1>9

\* Every step keeps the sums and leaves nothing out.
LEMMA StepHides == IInv /\ HiddenInv /\ [Next]_vars => HiddenInv'
<1> SUFFICES ASSUME IInv, HiddenInv, [Next]_vars PROVE HiddenInv'
  OBVIOUS
<1>1. CASE Parsed \/ UNCHANGED vars
  <2>1. /\ UNCHANGED <<caps, citations, next, snippets, usedLines, usedTokens>>
        /\ phase' = "expand" \/ phase' = phase
    BY <1>1 DEF Parsed, vars, parsed, used
  <2>2. Exhausted' <=> Exhausted
    BY <2>1, HiddenFrame DEF Exhausted
  <2> QED
    BY <2>1, <2>2, HiddenFrame DEF HiddenInv
<1>2. CASE Finish
  <2>1. UNCHANGED <<caps, citations, next, snippets, usedLines, usedTokens>> /\ ~Expanding
        /\ phase = "expand"
    BY <1>2 DEF Finish, parsed, used
  <2>2. /\ next \in Nat /\ Len(citations) \in Nat /\ usedLines \in Nat /\ usedTokens \in Nat
        /\ caps.lines \in Nat /\ caps.tokens \in Nat
    BY EvidenceAssumption DEF IInv, TypeOK
  <2>3. Exhausted
    BY <2>1, <2>2 DEF Exhausted, Expanding, IInv, WithinCaps
  <2>4. Exhausted'
    BY <2>1, <2>3, HiddenFrame DEF Exhausted
  <2> QED
    BY <2>1, <2>4, HiddenFrame DEF HiddenInv
<1> QED
  BY <1>1, <1>2, ParseLineHides, SkipHides, ExpandHides DEF Next, Over

-----------------------------------------------------------------------------
\* What is known of the expansion on its way holds in every reachable state.
THEOREM Invariance == Spec => []IInv
BY InitInv, StepInv, PTL DEF Spec

\* Every variable of build_evidence keeps its type, and no citation is repeated.
THEOREM TypeCorrect == Spec => []TypeOK
<1>1. IInv => TypeOK
  BY DEF IInv
<1> QED
  BY <1>1, Invariance, PTL

\* The evidence never exceeds max_expanded_lines or max_expanded_tokens, for any
\* tokenizer, files and answer.
THEOREM CapsHold == Spec => []WithinCaps
<1>1. IInv => WithinCaps
  BY DEF IInv
<1> QED
  BY <1>1, Invariance, PTL

\* Every snippet is an expansion of its citation, in the order of the citations.
THEOREM SnippetsAreTrue == Spec => []SnippetsTrue
<1>1. IInv => SnippetsTrue
  BY DEF IInv
<1> QED
  BY <1>1, Invariance, PTL

\* The statistics are the sums over the snippets, and in the end nothing that can be
\* read is left out or cut short but for a cap or for want of room.
THEOREM NothingIsHidden == Spec => []NothingHidden
<1>1. IInv /\ HiddenInv => NothingHidden
  <2> SUFFICES ASSUME IInv, HiddenInv, phase = "done" PROVE NoneLeftOut
    BY DEF NothingHidden, HiddenInv
  <2> SUFFICES ASSUME NEW i \in DOMAIN citations, LeftOut(i),
                      usedLines # caps.lines, usedTokens # caps.tokens
               PROVE  \E j \in 1 .. i : LeftOut(j) /\ Stuck(j)
    BY DEF NoneLeftOut
  <2>1. next \in Nat /\ next >= 1 /\ i \in 1 .. Len(citations) /\ Len(citations) \in Nat
    BY DEF IInv, TypeOK
  <2>2. i >= next
    BY <2>1 DEF HiddenInv
  <2>3. LeftOut(next) /\ Stuck(next)
    BY <2>1, <2>2 DEF HiddenInv, Exhausted
  <2> QED
    BY <2>1, <2>2, <2>3
<1> QED
  BY <1>1, InitHidden, StepHides, Invariance, PTL DEF Spec

-----------------------------------------------------------------------------
\* The steps build_evidence has left: a line of the answer is a step and, at most,
\* a citation to expand.
Work ==
  CASE phase = "parse"  -> 2 * Len(unread) + Len(citations) + 2
    [] phase = "expand" -> Len(citations) + 2 - next
    [] OTHER            -> 0

\* Every step of build_evidence leaves less to do, whatever the answer cites and
\* whichever file cannot be read.
EveryStepAdvances == [][Work' < Work]_vars
StepsLeft == Work \in 0 .. 2 * Len(answer) + 2

\* Reading a line of the answer.
LEMMA ParseLineAdvances == ASSUME IInv, ParseLine PROVE Work' < Work
<1>1. phase = "parse" /\ phase' = "parse" /\ unread \in Seq(Lines) /\ unread # <<>>
  BY DEF ParseLine, IInv, TypeOK
<1>2. unread' = <<>> \/ unread' = Tail(unread)
  BY DEF ParseLine
<1>3. Len(unread) \in Nat /\ Len(unread') \in Nat /\ Len(unread') <= Len(unread) - 1
  <2>1. Len(unread) \in Nat \ {0} /\ Len(Tail(unread)) = Len(unread) - 1
    BY <1>1, HeadTailProperties, EmptySeq
  <2>2. Len(<<>>) = 0
    OBVIOUS
  <2> QED
    BY <1>2, <2>1, <2>2
<1>4. citations' = citations \/ \E c : citations' = Append(citations, c)
  BY DEF ParseLine
<1>5. Len(citations) \in Nat /\ Len(citations') \in Nat /\ Len(citations') <= Len(citations) + 1
  <2>1. citations \in Seq(Citation) /\ citations' \in Seq(Citation)
    BY ParseLineKeeps DEF IInv, TypeOK
  <2>2. ASSUME NEW c, citations' = Append(citations, c)
        PROVE  Len(citations') = Len(citations) + 1
    BY <2>1, <2>2
  <2> QED
    BY <1>4, <2>1, <2>2
<1>6. /\ Work = 2 * Len(unread) + Len(citations) + 2
      /\ Work' = 2 * Len(unread') + Len(citations') + 2
  BY <1>1 DEF Work
<1> HIDE DEF Work
<1> QED
  BY <1>3, <1>5, <1>6

\* A citation expanded, skipped or left to the caps.
LEMMA ExpansionAdvances ==
  ASSUME IInv, IInv', Parsed \/ Skip \/ Expand \/ Finish
  PROVE  Work' < Work
<1>1. /\ next \in Nat /\ next >= 1 /\ Len(citations) \in Nat /\ next <= Len(citations) + 1
      /\ next' \in Nat /\ next' <= Len(citations') + 1
  BY DEF IInv, TypeOK
<1>2. CASE Parsed
  <2>1. phase = "parse" /\ unread = <<>> /\ phase' = "expand" /\ UNCHANGED <<citations, next>>
    BY <1>2 DEF Parsed, parsed
  <2>2. Work = Len(citations) + 2
    BY <1>1, <2>1 DEF Work
  <2>3. Work' = Len(citations) + 2 - next
    BY <2>1 DEF Work
  <2> QED
    BY <1>1, <2>2, <2>3
<1>3. ASSUME phase = "expand" PROVE Work = Len(citations) + 2 - next
  BY <1>3 DEF Work
<1>4. CASE phase = "expand" /\ phase' = "done"
  <2>1. Work' = 0
    BY <1>4 DEF Work
  <2> QED
    BY <1>1, <1>3, <1>4, <2>1
<1>5. CASE phase = "expand" /\ phase' = "expand" /\ citations' = citations /\ next' = next + 1
  <2>1. Work' = Len(citations) + 2 - (next + 1)
    BY <1>5 DEF Work
  <2> QED
    BY <1>1, <1>3, <1>5, <2>1
<1> QED
  BY <1>2, <1>4, <1>5 DEF Skip, Expand, Finish, Expanding, parsed

\* Expansion takes at most two steps per line of the answer, and two more.
THEOREM StepsRunOut == Spec => EveryStepAdvances /\ []StepsLeft
<1>1. IInv /\ IInv' /\ [Next]_vars => [Work' < Work]_vars
  BY ParseLineAdvances, ExpansionAdvances DEF Next, Over
<1>2. IInv => Work \in Nat
  BY DEF IInv, TypeOK, Work
<1>3. Init => StepsLeft
  <2> SUFFICES ASSUME Init PROVE StepsLeft
    OBVIOUS
  <2>1. Work = 2 * Len(answer) + 2 /\ Len(answer) \in Nat
    BY EvidenceAssumption DEF Init, Work
  <2> QED
    BY <2>1 DEF StepsLeft
<1>4. IInv' /\ StepsLeft /\ [Work' < Work]_vars /\ [Next]_vars => StepsLeft'
  <2> SUFFICES ASSUME IInv', StepsLeft, [Work' < Work]_vars, [Next]_vars PROVE StepsLeft'
    OBVIOUS
  <2>1. answer' = answer
    BY DEF Next, ParseLine, Parsed, Skip, Expand, Finish, Over, vars
  <2>2. Work' = Work \/ Work' < Work
    <3>1. CASE UNCHANGED vars
      BY <3>1 DEF Work, vars, parsed
    <3> QED
      BY <3>1
  <2>3. (IInv => Work \in Nat)'
    BY <1>2, PTL
  <2>4. Work' \in Nat
    BY <2>3
  <2>5. Len(answer) \in Int /\ Len(answer)' = Len(answer) /\ Work \in 0 .. 2 * Len(answer) + 2
    BY <2>1 DEF StepsLeft
  <2> HIDE DEF Work
  <2> QED
    BY <2>2, <2>4, <2>5 DEF StepsLeft
<1> QED
  BY <1>1, <1>3, <1>4, Invariance, PTL DEF Spec, EveryStepAdvances

-----------------------------------------------------------------------------
\* A set that has the empty sequence and, with a sequence, each that appends to it.
LEMMA SeqInduction ==
  ASSUME NEW S, NEW H, <<>> \in H, \A s \in Seq(S), x \in S : s \in H => Append(s, x) \in H
  PROVE  Seq(S) \subseteq H
<1> DEFINE N == {n \in Nat : \A s \in Seq(S) : Len(s) = n => s \in H}
<1>1. 0 \in N
  BY EmptySeq
<1>2. ASSUME NEW n \in Nat, n \in N PROVE n + 1 \in N
  <2>1. SUFFICES ASSUME NEW s \in Seq(S), Len(s) = n + 1 PROVE s \in H
    OBVIOUS
  <2>2. PICK r \in Seq(S), x \in S : s = Append(r, x)
    BY <2>1, SequenceEmptyOrAppend
  <2>3. Len(r) = n
    BY <2>1, <2>2, AppendProperties, LenProperties
  <2> QED
    BY <1>2, <2>2, <2>3
<1> HIDE DEF N
<1>3. \A n \in Nat : n \in N
  BY <1>1, <1>2, SetInduction
<1> QED
  BY <1>3, LenProperties DEF N

\* Appending to the second of two sequences.
LEMMA AppendToConcat ==
  ASSUME NEW S, NEW s \in Seq(S), NEW t \in Seq(S), NEW x \in S
  PROVE  s \o Append(t, x) = Append(s \o t, x)
<1>1. Append(t, x) = t \o <<x>>
  BY AppendIsConcat
<1>2. s \o t \in Seq(S) /\ <<x>> \in Seq(S)
  BY ConcatProperties
<1>3. Append(s \o t, x) = (s \o t) \o <<x>>
  BY <1>2, AppendIsConcat
<1>4. (s \o t) \o <<x>> = s \o (t \o <<x>>)
  BY <1>2, ConcatAssociative
<1> QED
  BY <1>1, <1>3, <1>4

-----------------------------------------------------------------------------
\* FlattenSeq, unfolded.  j[i] is the concatenation of the first i of ss, for i up
\* to n.
Joins(j, ss, n) == j = [i \in 1 .. n |-> IF i = 1 THEN ss[i] ELSE j[i - 1] \o ss[i]]

\* The same, one value at a time.
LEMMA JoinsIs ==
  ASSUME NEW j, NEW ss, NEW n \in Nat \ {0}
  PROVE  Joins(j, ss, n) <=>
           /\ j = [i \in 1 .. n |-> j[i]]
           /\ j[1] = ss[1]
           /\ \A i \in 2 .. n : j[i] = j[i - 1] \o ss[i]
<1> DEFINE Step(i) == IF i = 1 THEN ss[i] ELSE j[i - 1] \o ss[i]
<1>1. Step(1) = ss[1] /\ \A i \in 2 .. n : Step(i) = j[i - 1] \o ss[i]
  <2>1. Step(1) = ss[1]
    OBVIOUS
  <2>2. ASSUME NEW i \in 2 .. n PROVE Step(i) = j[i - 1] \o ss[i]
    <3>1. i # 1
      OBVIOUS
    <3> QED
      BY <3>1, Zenon
  <2> QED
    BY <2>1, <2>2
<1>2. Joins(j, ss, n) <=> j = [i \in 1 .. n |-> Step(i)]
  BY DEF Joins
<1> HIDE DEF Step
<1>3. ASSUME j = [i \in 1 .. n |-> Step(i)]
      PROVE  j = [i \in 1 .. n |-> j[i]] /\ \A i \in 1 .. n : j[i] = Step(i)
  BY <1>3, Zenon
<1>4. ASSUME j = [i \in 1 .. n |-> j[i]], \A i \in 1 .. n : j[i] = Step(i)
      PROVE  j = [i \in 1 .. n |-> Step(i)]
  <2>1. [i \in 1 .. n |-> j[i]] = [i \in 1 .. n |-> Step(i)]
    BY <1>4
  <2> QED
    BY <1>4, <2>1, Zenon
<1>5. 1 \in 1 .. n /\ \A i \in 1 .. n : i = 1 \/ i \in 2 .. n
  OBVIOUS
<1>6. 2 .. n \subseteq 1 .. n
  OBVIOUS
<1>7. (\A i \in 1 .. n : j[i] = Step(i)) <=>
        j[1] = ss[1] /\ \A i \in 2 .. n : j[i] = j[i - 1] \o ss[i]
  BY <1>1, <1>5, <1>6, Zenon
<1> QED
  BY <1>2, <1>3, <1>4, <1>7, Zenon

Steps(j, ss, n) == j[1] = ss[1] /\ \A i \in 2 .. n : j[i] = j[i - 1] \o ss[i]

\* The values, without the function that they make up.
LEMMA JoinsSteps ==
  ASSUME NEW j, NEW ss, NEW n \in Nat \ {0}, Joins(j, ss, n)
  PROVE  Steps(j, ss, n)
  BY JoinsIs DEF Steps

\* There is such a j for every length but 0,
LEMMA JoinsExists ==
  ASSUME NEW ss, NEW n \in Nat
  PROVE  \E j : Joins(j, ss, n + 1)
<1> DEFINE S == {m \in Nat : \E j : Joins(j, ss, m + 1)}
<1>1. 0 \in S
  <2> DEFINE x == ss[1]
             j == [i \in 1 .. 1 |-> x]
  <2>1. j = [i \in 1 .. 1 |-> j[i]] /\ j[1] = x /\ 2 .. 1 = {} /\ 0 + 1 = 1
    OBVIOUS
  <2> HIDE DEF j
  <2>2. Joins(j, ss, 1)
    <3>1. 1 \in Nat \ {0}
      OBVIOUS
    <3> QED
      BY <2>1, <3>1, JoinsIs
  <2> QED
    BY <2>1, <2>2
<1>2. ASSUME NEW m \in Nat, m \in S PROVE m + 1 \in S
  <2>1. PICK j : Joins(j, ss, m + 1)
    BY <1>2
  <2> DEFINE x == j[m + 1] \o ss[m + 2]
             New(i) == IF i = m + 2 THEN x ELSE j[i]
             k == [i \in 1 .. m + 2 |-> New(i)]
  <2>2. j[1] = ss[1] /\ \A i \in 2 .. m + 1 : j[i] = j[i - 1] \o ss[i]
    <3>1. m + 1 \in Nat \ {0}
      OBVIOUS
    <3> QED
      BY <2>1, <3>1, JoinsIs
  <2>3. New(m + 2) = x /\ \A i \in 1 .. m + 1 : New(i) = j[i]
    OBVIOUS
  <2> HIDE DEF New
  <2>4. k = [i \in 1 .. m + 2 |-> k[i]] /\ \A i \in 1 .. m + 2 : k[i] = New(i)
    OBVIOUS
  <2> HIDE DEF k
  <2>5. k[1] = ss[1]
    BY <2>2, <2>3, <2>4
  <2>6. ASSUME NEW i \in 2 .. m + 2 PROVE k[i] = k[i - 1] \o ss[i]
    <3>1. k[i - 1] = j[i - 1]
      BY <2>3, <2>4
    <3>2. CASE i = m + 2
      <4>1. m + 2 \in 1 .. m + 2 /\ (m + 2) - 1 = m + 1
        OBVIOUS
      <4>2. k[m + 2] = x
        BY <2>3, <2>4, <4>1
      <4> QED
        BY <3>1, <3>2, <4>1, <4>2
    <3>3. CASE i # m + 2
      <4>1. i \in 2 .. m + 1 /\ i \in 1 .. m + 1 /\ i \in 1 .. m + 2
        BY <3>3
      <4>2. k[i] = j[i]
        BY <4>1, <2>3, <2>4
      <4> QED
        BY <4>1, <4>2, <3>1, <2>2
    <3> QED
      BY <3>2, <3>3
  <2>7. m + 1 \in Nat /\ (m + 1) + 1 = m + 2 /\ m + 2 \in Nat \ {0}
    OBVIOUS
  <2>8. Joins(k, ss, m + 2)
    BY <2>4, <2>5, <2>6, <2>7, JoinsIs
  <2> QED
    BY <2>7, <2>8
<1> HIDE DEF S
<1>3. n \in S
  BY <1>1, <1>2, SetInduction
<1> QED
  BY <1>3 DEF S

\* two of them agree as far as the sequences do,
LEMMA JoinsAgree ==
  ASSUME NEW ss, NEW tt, NEW m \in Nat \ {0}, NEW n \in Nat \ {0}, NEW j, NEW k,
         m <= n, \A i \in 1 .. m : tt[i] = ss[i],
         Joins(j, ss, m), Joins(k, tt, n)
  PROVE  j[m] = k[m]
<1> DEFINE S == {i \in Nat : i + 1 <= m => j[i + 1] = k[i + 1]}
<1>1. j[1] = ss[1] /\ \A i \in 2 .. m : j[i] = j[i - 1] \o ss[i]
  <2>1. m \in Nat \ {0} /\ Joins(j, ss, m)
    OBVIOUS
  <2>2. Steps(j, ss, m)
    BY <2>1, JoinsSteps, Zenon
  <2> QED
    BY <2>2 DEF Steps
<1>2. k[1] = tt[1] /\ \A i \in 2 .. n : k[i] = k[i - 1] \o tt[i]
  <2>1. n \in Nat \ {0} /\ Joins(k, tt, n)
    OBVIOUS
  <2>2. Steps(k, tt, n)
    BY <2>1, JoinsSteps, Zenon
  <2> QED
    BY <2>2 DEF Steps
<1>3. 0 \in S
  <2>1. 1 \in 1 .. m /\ 0 + 1 = 1
    OBVIOUS
  <2> QED
    BY <1>1, <1>2, <2>1
<1>4. ASSUME NEW i \in Nat, i \in S PROVE i + 1 \in S
  <2>1. CASE (i + 1) + 1 <= m
    <3> DEFINE h == (i + 1) + 1
    <3>1. h \in 2 .. m /\ h \in 2 .. n /\ h \in 1 .. m /\ h - 1 = i + 1 /\ i + 1 <= m
      BY <2>1
    <3> HIDE DEF h
    <3>2. j[h] = j[i + 1] \o ss[h] /\ k[h] = k[i + 1] \o tt[h]
      BY <1>1, <1>2, <3>1
    <3>3. j[i + 1] = k[i + 1] /\ tt[h] = ss[h]
      BY <1>4, <3>1
    <3>4. j[h] = k[h]
      BY <3>2, <3>3
    <3> QED
      BY <3>4 DEF h
  <2> QED
    BY <2>1
<1> HIDE DEF S
<1>5. m - 1 \in S
  BY <1>3, <1>4, SetInduction
<1>6. (m - 1) + 1 = m
  OBVIOUS
<1> QED
  BY <1>5, <1>6 DEF S

\* and FlattenSeq is its last value.
LEMMA FlattenIs ==
  ASSUME NEW ss, Len(ss) \in Nat \ {0}
  PROVE  \E j : Joins(j, ss, Len(ss)) /\ FlattenSeq(ss) = j[Len(ss)]
<1> DEFINE j == CHOOSE k : Joins(k, ss, Len(ss))
<1>1. Joins(j, ss, Len(ss))
  <2>1. Len(ss) - 1 \in Nat /\ (Len(ss) - 1) + 1 = Len(ss)
    OBVIOUS
  <2> QED
    BY <2>1, JoinsExists
<1>2. FlattenSeq(ss) = j[Len(ss)]
  BY DEF FlattenSeq, Joins
<1> QED
  BY <1>1, <1>2

\* No sequences, nothing.
LEMMA FlattenNone == FlattenSeq(<<>>) = <<>>
  BY DEF FlattenSeq

\* What one more sequence adds.
LEMMA FlattenAppend ==
  ASSUME NEW U, NEW ss \in Seq(Seq(U)), NEW t \in Seq(U)
  PROVE  FlattenSeq(Append(ss, t)) = FlattenSeq(ss) \o t
<1> DEFINE tt == Append(ss, t)
           n == Len(ss)
<1>1. /\ n \in Nat /\ Len(tt) = n + 1 /\ tt[n + 1] = t
      /\ \A i \in 1 .. n : tt[i] = ss[i]
  BY AppendProperties, LenProperties
<1>2. PICK k : Joins(k, tt, n + 1) /\ FlattenSeq(tt) = k[n + 1]
  <2> HIDE DEF tt
  <2>1. Len(tt) \in Nat \ {0}
    BY <1>1
  <2> QED
    BY <1>1, <2>1, FlattenIs
<1> HIDE DEF tt, n
<1>3. /\ k[1] = tt[1]
      /\ \A i \in 2 .. n + 1 : k[i] = k[i - 1] \o tt[i]
  <2>1. n + 1 \in Nat \ {0}
    BY <1>1
  <2> QED
    BY <1>2, <2>1, JoinsIs
<1>4. CASE n = 0
  <2>1. ss = <<>>
    BY <1>4 DEF n
  <2>2. <<>> \o t = t
    BY ConcatEmptySeq
  <2> QED
    BY <1>1, <1>2, <1>3, <1>4, <2>1, <2>2, FlattenNone DEF tt
<1>5. CASE n # 0
  <2>1. n \in Nat \ {0} /\ n + 1 \in Nat \ {0} /\ n <= n + 1
    BY <1>1, <1>5
  <2>2. PICK j : Joins(j, ss, n) /\ FlattenSeq(ss) = j[n]
    BY <2>1, FlattenIs DEF n
  <2>3. j[n] = k[n]
    BY <1>1, <1>2, <2>1, <2>2, JoinsAgree
  <2>4. n + 1 \in 2 .. n + 1 /\ (n + 1) - 1 = n
    BY <2>1
  <2> QED
    BY <1>1, <1>2, <1>3, <2>2, <2>3, <2>4 DEF tt
<1> QED
  BY <1>4, <1>5

-----------------------------------------------------------------------------
\* A sequence element by element, and the concatenation of what the elements are
\* mapped to.
Maps(f, S, T) == f \in [S -> T]
Image(f, s) == [i \in DOMAIN s |-> f[s[i]]]
FlatOf(f, s) == FlattenSeq(Image(f, s))

IsImage(r, f, s, T) ==
  r \in Seq(T) /\ Len(r) = Len(s) /\ \A i \in 1 .. Len(s) : r[i] = f[s[i]]

\* The image of a sequence: its type, its length and its elements,
LEMMA ImageIs ==
  ASSUME NEW S, NEW T, NEW f, NEW s \in Seq(S), Maps(f, S, T)
  PROVE  IsImage(Image(f, s), f, s, T)
<1> DEFINE n == Len(s)
           r == Image(f, s)
<1>1. n \in Nat /\ DOMAIN s = 1 .. n /\ \A i \in 1 .. n : s[i] \in S
  BY LenProperties, ElementOfSeq
<1>2. r = [i \in 1 .. n |-> f[s[i]]]
  BY <1>1 DEF Image
<1> HIDE DEF n, r
<1>3. r \in [1 .. n -> T] /\ \A i \in 1 .. n : r[i] = f[s[i]]
  BY <1>1, <1>2 DEF Maps
<1>4. r \in Seq(T)
  BY <1>1, <1>3, IsASeq
<1>5. Len(r) = n
  BY <1>1, <1>3, <1>4, LenProperties
<1> QED
  BY <1>3, <1>4, <1>5 DEF n, r, IsImage

\* of none,
LEMMA ImageNone == \A f : Image(f, <<>>) = <<>>
  BY DEF Image

\* and of one more.
LEMMA ImageAppend ==
  ASSUME NEW S, NEW T, NEW f, NEW s \in Seq(S), NEW x \in S, Maps(f, S, T)
  PROVE  Image(f, Append(s, x)) = Append(Image(f, s), f[x])
<1> DEFINE n == Len(s)
           a == Append(s, x)
           b == Append(Image(f, s), f[x])
<1>1. n \in Nat /\ a \in Seq(S) /\ Len(a) = n + 1 /\ a[n + 1] = x
      /\ \A i \in 1 .. n : a[i] = s[i]
  BY AppendProperties, LenProperties
<1>2. /\ Image(f, s) \in Seq(T) /\ Len(Image(f, s)) = n
      /\ \A i \in 1 .. n : Image(f, s)[i] = f[s[i]]
  <2>1. IsImage(Image(f, s), f, s, T)
    BY ImageIs
  <2> QED
    BY <2>1 DEF IsImage
<1>3. f[x] \in T
  BY DEF Maps
<1>4. /\ b \in Seq(T) /\ Len(b) = n + 1 /\ b[n + 1] = f[x]
      /\ \A i \in 1 .. n : b[i] = Image(f, s)[i]
  BY <1>2, <1>3, AppendProperties
<1> HIDE DEF a, b, n
<1>5. /\ Image(f, a) \in Seq(T) /\ Len(Image(f, a)) = n + 1
      /\ \A i \in 1 .. n + 1 : Image(f, a)[i] = f[a[i]]
  <2>1. IsImage(Image(f, a), f, a, T)
    BY <1>1, ImageIs
  <2> QED
    BY <1>1, <2>1 DEF IsImage
<1>6. \A i \in 1 .. n + 1 : Image(f, a)[i] = b[i]
  <2>1. TAKE i \in 1 .. n + 1
  <2>2. i \in 1 .. n \/ i = n + 1
    BY <1>1
  <2> QED
    BY <1>1, <1>2, <1>4, <1>5, <2>2
<1>7. Image(f, a) = b
  BY <1>4, <1>5, <1>6, SeqEqual
<1> QED
  BY <1>7 DEF a, b

\* One more element.
LEMMA FlatAppend ==
  ASSUME NEW S, NEW U, NEW f, NEW s \in Seq(S), NEW x \in S, Maps(f, S, Seq(U))
  PROVE  FlatOf(f, Append(s, x)) = FlatOf(f, s) \o f[x]
<1>1. Image(f, Append(s, x)) = Append(Image(f, s), f[x])
  BY ImageAppend
<1>2. f[x] \in Seq(U)
  BY DEF Maps
<1>3. Image(f, s) \in Seq(Seq(U))
  BY ImageIs DEF IsImage
<1> QED
  BY <1>1, <1>2, <1>3, FlattenAppend DEF FlatOf

\* Nothing is made of no elements.
LEMMA FlatNone == \A f : FlatOf(f, <<>>) = <<>>
  BY ImageNone, FlattenNone DEF FlatOf

\* What is made of a sequence has the type of what is made of an element.
LEMMA FlatType ==
  ASSUME NEW S, NEW U, NEW f, Maps(f, S, Seq(U))
  PROVE  \A s \in Seq(S) : FlatOf(f, s) \in Seq(U)
<1> DEFINE H == {s \in Seq(S) : FlatOf(f, s) \in Seq(U)}
<1>1. <<>> \in H
  BY FlatNone, EmptySeq
<1>2. ASSUME NEW s \in Seq(S), NEW x \in S, s \in H PROVE Append(s, x) \in H
  <2>1. FlatOf(f, Append(s, x)) = FlatOf(f, s) \o f[x]
    BY FlatAppend
  <2>2. FlatOf(f, s) \in Seq(U) /\ f[x] \in Seq(U)
    BY <1>2 DEF Maps
  <2> HIDE DEF H
  <2>3. FlatOf(f, s) \o f[x] \in Seq(U)
    BY <2>2, ConcatProperties
  <2>4. Append(s, x) \in Seq(S)
    BY AppendProperties
  <2> QED
    BY <2>1, <2>3, <2>4 DEF H
<1> HIDE DEF H
<1>3. Seq(S) \subseteq H
  BY <1>1, <1>2, SeqInduction
<1> QED
  BY <1>3 DEF H

\* What is made of one element.
LEMMA FlatOne ==
  ASSUME NEW S, NEW U, NEW f, NEW x \in S, Maps(f, S, Seq(U))
  PROVE  FlatOf(f, <<x>>) = f[x]
<1>1. <<x>> = Append(<<>>, x) /\ <<>> \in Seq(S)
  OBVIOUS
<1>2. FlatOf(f, Append(<<>>, x)) = FlatOf(f, <<>>) \o f[x]
  BY <1>1, FlatAppend
<1>3. f[x] \in Seq(U)
  BY DEF Maps
<1>4. <<>> \o f[x] = f[x]
  BY <1>3, ConcatEmptySeq
<1> QED
  BY <1>1, <1>2, <1>4, FlatNone

\* Concatenation is preserved.
LEMMA FlatConcat ==
  ASSUME NEW S, NEW U, NEW f, NEW s \in Seq(S), Maps(f, S, Seq(U))
  PROVE  \A r \in Seq(S) : FlatOf(f, s \o r) = FlatOf(f, s) \o FlatOf(f, r)
<1> DEFINE H == {q \in Seq(S) : FlatOf(f, s \o q) = FlatOf(f, s) \o FlatOf(f, q)}
<1>0. FlatOf(f, s) \in Seq(U)
  BY FlatType
<1>1. <<>> \in H
  <2>1. s \o <<>> = s /\ FlatOf(f, s) \o <<>> = FlatOf(f, s)
    BY <1>0, ConcatEmptySeq
  <2> QED
    BY <2>1, FlatNone, EmptySeq
<1>2. ASSUME NEW q \in Seq(S), NEW x \in S, q \in H PROVE Append(q, x) \in H
  <2>1. s \o Append(q, x) = Append(s \o q, x) /\ s \o q \in Seq(S) /\ Append(q, x) \in Seq(S)
    BY AppendToConcat, ConcatProperties, AppendProperties
  <2>2. FlatOf(f, Append(q, x)) = FlatOf(f, q) \o f[x]
    BY FlatAppend
  <2> DEFINE p == s \o q
  <2>3. FlatOf(f, Append(p, x)) = FlatOf(f, p) \o f[x]
    <3>1. p \in Seq(S)
      BY <2>1
    <3> HIDE DEF p
    <3> QED
      BY <3>1, FlatAppend
  <2>4. (FlatOf(f, s) \o FlatOf(f, q)) \o f[x] = FlatOf(f, s) \o (FlatOf(f, q) \o f[x])
    <3> DEFINE a == FlatOf(f, s)
               b == FlatOf(f, q)
               c == f[x]
    <3>1. a \in Seq(U) /\ b \in Seq(U) /\ c \in Seq(U)
      BY <1>0, FlatType DEF Maps
    <3> HIDE DEF a, b, c
    <3>2. (a \o b) \o c = a \o (b \o c)
      BY <3>1, ConcatAssociative
    <3> QED
      BY <3>2 DEF a, b, c
  <2> QED
    BY <1>2, <2>1, <2>2, <2>3, <2>4
<1> HIDE DEF H
<1>3. Seq(S) \subseteq H
  BY <1>1, <1>2, SeqInduction
<1> QED
  BY <1>3 DEF H

\* One pass does what two do.
LEMMA FlatFusion ==
  ASSUME NEW S, NEW T, NEW U, NEW f, NEW g, NEW h,
         Maps(f, S, Seq(T)), Maps(g, T, Seq(U)), Maps(h, S, Seq(U)),
         \A x \in S : FlatOf(g, f[x]) = h[x]
  PROVE  \A s \in Seq(S) : FlatOf(g, FlatOf(f, s)) = FlatOf(h, s)
<1> DEFINE H == {s \in Seq(S) : FlatOf(g, FlatOf(f, s)) = FlatOf(h, s)}
<1>1. <<>> \in H
  BY FlatNone, EmptySeq
<1>2. ASSUME NEW s \in Seq(S), NEW x \in S, s \in H PROVE Append(s, x) \in H
  <2>1. FlatOf(f, Append(s, x)) = FlatOf(f, s) \o f[x]
    BY FlatAppend
  <2>2. FlatOf(h, Append(s, x)) = FlatOf(h, s) \o h[x]
    BY FlatAppend
  <2> DEFINE a == FlatOf(f, s)
             b == f[x]
  <2>3. a \in Seq(T)
    BY FlatType
  <2>4. b \in Seq(T)
    BY DEF Maps
  <2> HIDE DEF a, b, H
  <2>5. FlatOf(g, a \o b) = FlatOf(g, a) \o FlatOf(g, b)
    BY <2>3, <2>4, FlatConcat
  <2>6. FlatOf(g, b) = h[x] /\ FlatOf(g, a) = FlatOf(h, s)
    BY <1>2 DEF a, b, H
  <2>7. Append(s, x) \in Seq(S)
    BY AppendProperties
  <2> QED
    BY <2>1, <2>2, <2>5, <2>6, <2>7 DEF a, b, H
<1> HIDE DEF H
<1>3. Seq(S) \subseteq H
  BY <1>1, <1>2, SeqInduction
<1> QED
  BY <1>3 DEF H

\* What is mapped to single elements is mapped element by element,
LEMMA FlatSingles ==
  ASSUME NEW S, NEW T, NEW f, NEW g, Maps(g, S, T), \A x \in S : f[x] = <<g[x]>>,
         Maps(f, S, Seq(T))
  PROVE  \A s \in Seq(S) : FlatOf(f, s) = Image(g, s)
<1> DEFINE H == {s \in Seq(S) : FlatOf(f, s) = Image(g, s)}
<1>1. <<>> \in H
  BY FlatNone, ImageNone, EmptySeq
<1>2. ASSUME NEW s \in Seq(S), NEW x \in S, s \in H PROVE Append(s, x) \in H
  <2>1. FlatOf(f, Append(s, x)) = FlatOf(f, s) \o f[x]
    BY FlatAppend
  <2>2. Image(g, Append(s, x)) = Append(Image(g, s), g[x])
    BY ImageAppend
  <2>3. Append(Image(g, s), g[x]) = Image(g, s) \o <<g[x]>>
    <3> DEFINE a == Image(g, s)
               b == g[x]
    <3>1. a \in Seq(T)
      BY ImageIs DEF IsImage
    <3>2. b \in T
      BY DEF Maps
    <3> HIDE DEF a, b
    <3>3. Append(a, b) = a \o <<b>>
      BY <3>1, <3>2, AppendIsConcat
    <3> QED
      BY <3>3 DEF a, b
  <2>4. Append(s, x) \in Seq(S)
    BY AppendProperties
  <2> QED
    BY <1>2, <2>1, <2>2, <2>3, <2>4
<1> HIDE DEF H
<1>3. Seq(S) \subseteq H
  BY <1>1, <1>2, SeqInduction
<1> QED
  BY <1>3 DEF H

\* what is mapped to nothing leaves nothing,
LEMMA FlatNothing ==
  ASSUME NEW S, NEW U, NEW f, Maps(f, S, Seq(U)), \A x \in S : f[x] = <<>>
  PROVE  \A s \in Seq(S) : FlatOf(f, s) = <<>>
<1> DEFINE H == {s \in Seq(S) : FlatOf(f, s) = <<>>}
<1>1. <<>> \in H
  BY FlatNone, EmptySeq
<1>2. ASSUME NEW s \in Seq(S), NEW x \in S, s \in H PROVE Append(s, x) \in H
  <2>1. FlatOf(f, Append(s, x)) = FlatOf(f, s) \o f[x]
    BY FlatAppend
  <2>2. <<>> \o <<>> = <<>>
    BY EmptySeq, ConcatEmptySeq
  <2>3. Append(s, x) \in Seq(S)
    BY AppendProperties
  <2> QED
    BY <1>2, <2>1, <2>2, <2>3
<1> HIDE DEF H
<1>3. Seq(S) \subseteq H
  BY <1>1, <1>2, SeqInduction
<1> QED
  BY <1>3 DEF H

\* and what any element is mapped to is there.
LEMMA FlatHolds ==
  ASSUME NEW S, NEW U, NEW f, Maps(f, S, Seq(U))
  PROVE  \A s \in Seq(S) : \A i \in 1 .. Len(s) : Range(f[s[i]]) \subseteq Range(FlatOf(f, s))
<1> DEFINE Holds(s) == \A i \in 1 .. Len(s) : Range(f[s[i]]) \subseteq Range(FlatOf(f, s))
           H == {s \in Seq(S) : Holds(s)}
<1>1. <<>> \in H
  BY EmptySeq
<1>2. ASSUME NEW s \in Seq(S), NEW x \in S, s \in H PROVE Append(s, x) \in H
  <2> DEFINE r == Append(s, x)
  <2>1. FlatOf(f, r) = FlatOf(f, s) \o f[x]
    BY FlatAppend
  <2>2. Range(FlatOf(f, r)) = Range(FlatOf(f, s)) \cup Range(f[x])
    <3> DEFINE a == FlatOf(f, s)
               b == f[x]
    <3>1. a \in Seq(U) /\ b \in Seq(U)
      BY FlatType DEF Maps
    <3> HIDE DEF a, b
    <3>2. Range(a \o b) = Range(a) \cup Range(b)
      BY <3>1, RangeConcatenation
    <3> QED
      BY <2>1, <3>2 DEF a, b
  <2>3. /\ r \in Seq(S) /\ Len(s) \in Nat /\ Len(r) = Len(s) + 1
        /\ r[Len(s) + 1] = x /\ \A i \in 1 .. Len(s) : r[i] = s[i]
    BY AppendProperties, LenProperties
  <2>4. Holds(s)
    BY <1>2
  <2> HIDE DEF r
  <2>5. ASSUME NEW i \in 1 .. Len(r) PROVE Range(f[r[i]]) \subseteq Range(FlatOf(f, r))
    <3>1. CASE i = Len(s) + 1
      BY <2>2, <2>3, <3>1
    <3>2. CASE i \in 1 .. Len(s)
      BY <2>2, <2>3, <2>4, <3>2
    <3> QED
      BY <2>3, <3>1, <3>2
  <2> QED
    BY <2>3, <2>5 DEF r
<1> HIDE DEF H
<1>3. Seq(S) \subseteq H
  BY <1>1, <1>2, SeqInduction
<1> QED
  BY <1>3 DEF H

-----------------------------------------------------------------------------
\* Only, at most one element.
LEMMA OnlyIs ==
  ASSUME NEW test \in BOOLEAN, NEW x
  PROVE  (test => Only(test, x) = <<x>>) /\ (~test => Only(test, x) = <<>>)
  BY DEF Only

\* Only is a sequence.
LEMMA OnlyType ==
  ASSUME NEW test, NEW T, NEW x, test => x \in T
  PROVE  Only(test, x) \in Seq(T)
  BY DEF Only

\* Words, as a function of the elements.
WordsOf(S) == [b \in S |-> b.words]

\* Words is a concatenation over any set that has the elements,
LEMMA WordsIs ==
  ASSUME NEW S, NEW s \in Seq(S)
  PROVE  Words(s) = FlatOf(WordsOf(S), s)
<1>1. \A i \in DOMAIN s : s[i] \in S
  BY LenProperties, ElementOfSeq
<1>2. \A i \in DOMAIN s : WordsOf(S)[s[i]] = s[i].words
  BY <1>1 DEF WordsOf
<1>3. Image(WordsOf(S), s) = [i \in DOMAIN s |-> s[i].words]
  BY <1>2 DEF Image
<1>4. Words(s) = FlattenSeq([i \in DOMAIN s |-> s[i].words])
  BY DEF Words, FlatMap, MapSeq
<1> QED
  BY <1>3, <1>4 DEF FlatOf

Worded(S) == \A b \in S : b.words \in Seq(Word)

\* of a function to texts,
LEMMA WordsMap ==
  ASSUME NEW S, Worded(S)
  PROVE  Maps(WordsOf(S), S, Seq(Word))
  BY DEF Maps, WordsOf, Worded

\* and so a text,
LEMMA WordsType ==
  ASSUME NEW S, NEW s \in Seq(S), Worded(S)
  PROVE  Words(s) \in Seq(Word)
<1>1. Maps(WordsOf(S), S, Seq(Word))
  BY WordsMap
<1> QED
  BY <1>1, WordsIs, FlatType

\* empty if every element has none.
LEMMA WordsNone ==
  ASSUME NEW S, NEW s \in Seq(S), \A b \in S : b.words = <<>>
  PROVE  Words(s) = <<>>
<1>1. Worded(S)
  BY EmptySeq DEF Worded
<1>2. Maps(WordsOf(S), S, Seq(Word)) /\ \A b \in S : WordsOf(S)[b] = <<>>
  BY <1>1, WordsMap DEF WordsOf
<1>3. FlatOf(WordsOf(S), s) = <<>>
  BY <1>2, FlatNothing
<1> QED
  BY <1>3, WordsIs

\* OfType, as a function of the elements.
Typed(type, S) == {b \in S : b.type = type}
TypedOf(type, S) == [b \in S |-> Only(b.type = type, b)]

\* OfType is a concatenation over any set that has the elements,
LEMMA OfTypeIs ==
  ASSUME NEW S, NEW s \in Seq(S), NEW type
  PROVE  OfType(type, s) = FlatOf(TypedOf(type, S), s)
<1>1. \A i \in DOMAIN s : s[i] \in S
  BY LenProperties, ElementOfSeq
<1>2. \A i \in DOMAIN s : TypedOf(type, S)[s[i]] = Only(s[i].type = type, s[i])
  BY <1>1 DEF TypedOf
<1>3. Image(TypedOf(type, S), s) = [i \in DOMAIN s |-> Only(s[i].type = type, s[i])]
  BY <1>2 DEF Image
<1>4. OfType(type, s) = FlattenSeq([i \in DOMAIN s |-> Only(s[i].type = type, s[i])])
  BY DEF OfType, FlatMap, MapSeq
<1> QED
  BY <1>3, <1>4 DEF FlatOf

\* of a function to at most one element of the type,
LEMMA TypedMap ==
  ASSUME NEW S, NEW type
  PROVE  Maps(TypedOf(type, S), S, Seq(Typed(type, S)))
<1>1. \A b \in S : b.type = type => b \in Typed(type, S)
  BY DEF Typed
<1>2. \A b \in S : Only(b.type = type, b) \in Seq(Typed(type, S))
  BY <1>1, OnlyType
<1> QED
  BY <1>2 DEF Maps, TypedOf

\* so that it has only elements of the type.
LEMMA OfTypeIn ==
  ASSUME NEW S, NEW s \in Seq(S), NEW type
  PROVE  OfType(type, s) \in Seq(Typed(type, S))
  BY OfTypeIs, TypedMap, FlatType

\* OfType of a concatenation,
LEMMA OfTypeConcat ==
  ASSUME NEW S, NEW s \in Seq(S), NEW r \in Seq(S), NEW type
  PROVE  OfType(type, s \o r) = OfType(type, s) \o OfType(type, r)
<1>1. s \o r \in Seq(S)
  BY ConcatProperties
<1>2. FlatOf(TypedOf(type, S), s \o r) = FlatOf(TypedOf(type, S), s) \o FlatOf(TypedOf(type, S), r)
  BY TypedMap, FlatConcat
<1>3. OfType(type, s \o r) = FlatOf(TypedOf(type, S), s \o r)
  BY <1>1, OfTypeIs
<1> QED
  BY <1>2, <1>3, OfTypeIs

\* of elements of other types,
LEMMA OfTypeNone ==
  ASSUME NEW S, NEW s \in Seq(S), NEW type, \A b \in S : b.type # type
  PROVE  OfType(type, s) = <<>>
<1>1. \A b \in S : TypedOf(type, S)[b] = <<>>
  BY OnlyIs DEF TypedOf
<1>2. Maps(TypedOf(type, S), S, Seq(Typed(type, S)))
  BY TypedMap
<1>3. FlatOf(TypedOf(type, S), s) = <<>>
  BY <1>1, <1>2, FlatNothing
<1> QED
  BY <1>3, OfTypeIs

\* of elements of the type,
LEMMA OfTypeAll ==
  ASSUME NEW S, NEW s \in Seq(S), NEW type, \A b \in S : b.type = type
  PROVE  OfType(type, s) = s
<1> DEFINE same == [b \in S |-> b]
<1>1. \A b \in S : TypedOf(type, S)[b] = <<same[b]>>
  BY OnlyIs DEF TypedOf
<1>2. Maps(TypedOf(type, S), S, Seq(Typed(type, S))) /\ Maps(same, S, S)
  BY TypedMap DEF Maps
<1>3. Maps(TypedOf(type, S), S, Seq(S))
  <2>1. Typed(type, S) = S
    BY DEF Typed
  <2> QED
    BY <1>2, <2>1
<1>4. Image(same, s) = s
  <2>1. s = [i \in DOMAIN s |-> s[i]] /\ \A i \in DOMAIN s : s[i] \in S
    BY LenProperties, ElementOfSeq
  <2>2. \A i \in DOMAIN s : same[s[i]] = s[i]
    BY <2>1
  <2>3. Image(same, s) = [i \in DOMAIN s |-> s[i]]
    BY <2>2 DEF Image
  <2> QED
    BY <2>1, <2>3
<1> HIDE DEF same
<1>5. FlatOf(TypedOf(type, S), s) = Image(same, s)
  BY <1>1, <1>2, <1>3, FlatSingles
<1> QED
  BY <1>4, <1>5, OfTypeIs

\* and what it says when it is empty.
LEMMA OfTypeHolds ==
  ASSUME NEW S, NEW s \in Seq(S), NEW type, OfType(type, s) = <<>>
  PROVE  \A i \in 1 .. Len(s) : s[i].type # type
<1> SUFFICES ASSUME NEW i \in 1 .. Len(s), s[i].type = type PROVE FALSE
  OBVIOUS
<1> DEFINE f == TypedOf(type, S)
<1>1. s[i] \in S
  BY ElementOfSeq
<1>2. f[s[i]] = <<s[i]>>
  BY <1>1, OnlyIs DEF TypedOf
<1>3. Maps(f, S, Seq(Typed(type, S))) /\ OfType(type, s) = FlatOf(f, s)
  BY TypedMap, OfTypeIs
<1> HIDE DEF f
<1>4. Range(f[s[i]]) \subseteq Range(FlatOf(f, s))
  BY <1>3, FlatHolds
<1>5. s[i] \in Range(f[s[i]])
  BY <1>2 DEF Range
<1>6. Range(<<>>) = {}
  BY DEF Range
<1> QED
  BY <1>3, <1>4, <1>5, <1>6

-----------------------------------------------------------------------------
\* What is converted: blocks to parts, calls and results, a turn to messages.
MessageType == [role : {"system", "user", "assistant", "tool"}, content : Seq(PartType),
                calls : Seq(CallType), id : Id]
Voiced == {m \in MessageType : m.role # "system"}

\* A text: one part, with its words.
LEMMA TextIs ==
  ASSUME NEW words \in Seq(Word)
  PROVE  /\ Text(words) \in Seq(PartType) /\ Len(Text(words)) = 1
         /\ Text(words)[1] = Part("text", words) /\ Words(Text(words)) = words
<1> DEFINE p == Part("text", words)
<1>1. p \in PartType /\ p.words = words
  BY DEF Part, PartType
<1> HIDE DEF p
<1>2. Text(words) = <<p>> /\ <<p>> \in Seq(PartType)
  BY <1>1 DEF Text, p
<1>3. Maps(WordsOf(PartType), PartType, Seq(Word))
  <2>1. Worded(PartType)
    BY DEF Worded, PartType
  <2> QED
    BY <2>1, WordsMap
<1>4. FlatOf(WordsOf(PartType), <<p>>) = WordsOf(PartType)[p]
  BY <1>1, <1>3, FlatOne
<1>5. Words(<<p>>) = FlatOf(WordsOf(PartType), <<p>>)
  BY <1>2, WordsIs
<1>6. WordsOf(PartType)[p] = words
  BY <1>1 DEF WordsOf
<1> QED
  BY <1>2, <1>4, <1>5, <1>6 DEF p

\* Parts, as a function of the blocks.
Shown(b) == b.type = "text" \/ (b.type = "image" /\ b.words # <<>>)
PartOf(S) == [b \in S |-> Only(Shown(b), Part(b.type, b.words))]

\* Parts is a concatenation over any set that has the blocks,
LEMMA PartsIs ==
  ASSUME NEW S, NEW s \in Seq(S)
  PROVE  Parts(s) = FlatOf(PartOf(S), s)
<1>1. \A i \in DOMAIN s : s[i] \in S
  BY LenProperties, ElementOfSeq
<1>2. \A i \in DOMAIN s : PartOf(S)[s[i]] = Only(Shown(s[i]), Part(s[i].type, s[i].words))
  BY <1>1 DEF PartOf
<1>3. Image(PartOf(S), s) = [i \in DOMAIN s |-> Only(Shown(s[i]), Part(s[i].type, s[i].words))]
  BY <1>2 DEF Image
<1>4. Parts(s) = FlattenSeq([i \in DOMAIN s |-> Only(Shown(s[i]), Part(s[i].type, s[i].words))])
  BY DEF Parts, FlatMap, MapSeq, Shown
<1> QED
  BY <1>3, <1>4 DEF FlatOf

\* of a function to at most one part,
LEMMA PartMap ==
  ASSUME NEW S, S \subseteq BlockType
  PROVE  Maps(PartOf(S), S, Seq(PartType))
<1>1. ASSUME NEW b \in S, Shown(b) PROVE Part(b.type, b.words) \in PartType
  BY <1>1 DEF Shown, Part, PartType, BlockType
<1>2. \A b \in S : Only(Shown(b), Part(b.type, b.words)) \in Seq(PartType)
  BY <1>1, OnlyType
<1> QED
  BY <1>2 DEF Maps, PartOf

\* and so a sequence of parts,
LEMMA PartsType ==
  ASSUME NEW s \in Seq(BlockType)
  PROVE  Parts(s) \in Seq(PartType)
  BY PartsIs, PartMap, FlatType

\* that has the words of every block that is shown.
LEMMA PartsHold ==
  ASSUME NEW s \in Seq(BlockType), NEW i \in 1 .. Len(s), Shown(s[i]),
         ~HasContent(Parts(s))
  PROVE  s[i].words = <<>>
<1> DEFINE f == PartOf(BlockType)
           p == Part(s[i].type, s[i].words)
<1>1. s[i] \in BlockType
  BY ElementOfSeq
<1>2. f[s[i]] = <<p>>
  BY <1>1, OnlyIs DEF PartOf
<1>3. Maps(f, BlockType, Seq(PartType)) /\ Parts(s) = FlatOf(f, s)
  BY PartMap, PartsIs
<1>4. p.words = s[i].words
  BY DEF Part
<1> HIDE DEF f, p
<1>5. Range(f[s[i]]) \subseteq Range(FlatOf(f, s))
  BY <1>3, FlatHolds
<1>6. p \in Range(f[s[i]])
  BY <1>2 DEF Range
<1>7. p \in Range(Parts(s))
  BY <1>3, <1>5, <1>6
<1> QED
  BY <1>4, <1>7 DEF Range, HasContent

\* What parts are joined to is parts, with the same words.
LEMMA ContentIs ==
  ASSUME NEW parts \in Seq(PartType)
  PROVE  PartsToContent(parts) \in Seq(PartType) /\ Words(PartsToContent(parts)) = Words(parts)
<1>1. Words(parts) \in Seq(Word)
  <2>1. Worded(PartType)
    BY DEF Worded, PartType
  <2> QED
    BY <2>1, WordsType
<1>2. CASE OfType("image", parts) # <<>>
  BY <1>2 DEF PartsToContent
<1>3. CASE OfType("image", parts) = <<>>
  <2>1. PartsToContent(parts) = Text(Words(parts))
    BY <1>3 DEF PartsToContent
  <2> QED
    BY <1>1, <2>1, TextIs
<1> QED
  BY <1>2, <1>3

\* A message of anyone but the system.
LEMMA VoicedIs ==
  ASSUME NEW role \in {"user", "assistant", "tool"}, NEW content \in Seq(PartType),
         NEW calls \in Seq(CallType), NEW id \in Id
  PROVE  [role |-> role, content |-> content, calls |-> calls, id |-> id] \in Voiced
<1> DEFINE m == [role |-> role, content |-> content, calls |-> calls, id |-> id]
<1>1. m \in MessageType
  BY DEF MessageType
<1>2. m.role # "system"
  OBVIOUS
<1> QED
  BY <1>1, <1>2 DEF Voiced

\* What a sequence of blocks is mapped to, one by one.
LEMMA ToolCallsAre ==
  ASSUME NEW blocks \in Seq(BlockType)
  PROVE  LET calls == OfType("tool_use", blocks)
         IN /\ calls \in Seq(BlockType) /\ ToolCalls(blocks) \in Seq(CallType)
            /\ Len(ToolCalls(blocks)) = Len(calls)
            /\ \A i \in 1 .. Len(calls) :
                 ToolCalls(blocks)[i] = [id |-> calls[i].id, args |-> calls[i].words]
<1> DEFINE calls == OfType("tool_use", blocks)
           n == Len(calls)
           r == ToolCalls(blocks)
           Call(b) == [id |-> b.id, args |-> b.words]
<1>1. calls \in Seq(BlockType)
  <2>1. calls \in Seq(Typed("tool_use", BlockType)) /\ Typed("tool_use", BlockType) \subseteq BlockType
    BY OfTypeIn DEF Typed
  <2> HIDE DEF calls
  <2> QED
    BY <2>1, SeqMonotonic
<1>2. n \in Nat /\ DOMAIN calls = 1 .. n /\ \A i \in 1 .. n : calls[i] \in BlockType
  BY <1>1, LenProperties, ElementOfSeq
<1>3. r = [i \in 1 .. n |-> Call(calls[i])]
  BY <1>2 DEF ToolCalls, MapSeq
<1>4. \A i \in 1 .. n : Call(calls[i]) \in CallType
  BY <1>2 DEF CallType, BlockType
<1> HIDE DEF calls, n, r
<1>5. r \in [1 .. n -> CallType] /\ \A i \in 1 .. n : r[i] = Call(calls[i])
  BY <1>3, <1>4
<1>6. r \in Seq(CallType)
  BY <1>2, <1>5, SeqDef
<1>7. Len(r) = n
  BY <1>2, <1>5, <1>6, LenProperties
<1> QED
  BY <1>1, <1>5, <1>6, <1>7 DEF calls, n, r

Result(b) == [role |-> "tool", content |-> Text(b.words), calls |-> <<>>, id |-> b.id]

\* The results of a turn, one message for each.
LEMMA ToolResultsAre ==
  ASSUME NEW blocks \in Seq(BlockType)
  PROVE  LET results == OfType("tool_result", blocks)
         IN /\ results \in Seq(BlockType) /\ ToolResults(blocks) \in Seq(Voiced)
            /\ Len(ToolResults(blocks)) = Len(results)
            /\ \A i \in 1 .. Len(results) : ToolResults(blocks)[i] = Result(results[i])
<1> DEFINE results == OfType("tool_result", blocks)
           n == Len(results)
           r == ToolResults(blocks)
<1>1. results \in Seq(BlockType)
  <2>1. results \in Seq(Typed("tool_result", BlockType)) /\ Typed("tool_result", BlockType) \subseteq BlockType
    BY OfTypeIn DEF Typed
  <2> HIDE DEF results
  <2> QED
    BY <2>1, SeqMonotonic
<1>2. n \in Nat /\ DOMAIN results = 1 .. n /\ \A i \in 1 .. n : results[i] \in BlockType
  BY <1>1, LenProperties, ElementOfSeq
<1>3. \A b : [Message("tool", Text(b.words)) EXCEPT !.id = b.id] = Result(b)
  BY DEF Message, Result
<1>4. r = [i \in 1 .. n |-> Result(results[i])]
  <2>1. r = [i \in 1 .. n |-> [Message("tool", Text(results[i].words)) EXCEPT !.id = results[i].id]]
    BY <1>2 DEF ToolResults, MapSeq
  <2> HIDE DEF results, n, r
  <2> QED
    BY <1>3, <2>1
<1>5. ASSUME NEW b \in BlockType PROVE Result(b) \in Voiced
  <2>1. Text(b.words) \in Seq(PartType)
    BY TextIs DEF BlockType
  <2> QED
    <3>1. b.id \in Id /\ <<>> \in Seq(CallType)
      BY EmptySeq DEF BlockType
    <3> QED
      BY <2>1, <3>1, VoicedIs DEF Result
<1>6. \A i \in 1 .. n : Result(results[i]) \in Voiced
  BY <1>2, <1>5
<1> HIDE DEF results, n, r
<1>7. r \in [1 .. n -> Voiced] /\ \A i \in 1 .. n : r[i] = Result(results[i])
  BY <1>4, <1>6
<1>8. r \in Seq(Voiced)
  BY <1>2, <1>7, SeqDef
<1>9. Len(r) = n
  BY <1>2, <1>7, <1>8, LenProperties
<1> QED
  BY <1>1, <1>7, <1>8, <1>9 DEF results, n, r

\* What a turn of blocks says beside its results, if it says anything.
Rest(said) == [role |-> said.role, content |-> PartsToContent(Parts(said.blocks)),
               calls |-> ToolCalls(said.blocks), id |-> NoId]
Speaks(said) == ToolCalls(said.blocks) # <<>> \/ HasContent(Parts(said.blocks))
Talk(said) == IF Speaks(said) THEN <<Rest(said)>> ELSE <<>>

\* A turn of plain text, and a turn of blocks.
LEMMA TurnIs ==
  ASSUME NEW said
  PROVE  /\ said.form = "text" => Turn(said) = <<Message(said.role, Text(Words(said.blocks)))>>
         /\ said.form # "text" => Turn(said) = ToolResults(said.blocks) \o Talk(said)
<1>1. [Message(said.role, PartsToContent(Parts(said.blocks)))
         EXCEPT !.calls = ToolCalls(said.blocks)] = Rest(said)
  BY DEF Message, Rest
<1>2. Rest(said).calls = ToolCalls(said.blocks)
  BY DEF Rest
<1> QED
  BY <1>1, <1>2 DEF Turn, Talk, Speaks

\* A turn becomes messages, none of them the system's.
LEMMA TurnType ==
  ASSUME NEW said \in SaidType
  PROVE  Turn(said) \in Seq(Voiced) /\ Talk(said) \in Seq(Voiced)
<1> DEFINE blocks == said.blocks
<1>1. blocks \in Seq(BlockType) /\ said.role \in {"user", "assistant"}
  BY DEF SaidType
<1>2. Words(blocks) \in Seq(Word)
  <2>1. Worded(BlockType)
    BY DEF Worded, BlockType
  <2> QED
    BY <1>1, <2>1, WordsType
<1>3. Message(said.role, Text(Words(blocks))) \in Voiced
  <2>1. Text(Words(blocks)) \in Seq(PartType)
    BY <1>2, TextIs
  <2> QED
    <3>1. <<>> \in Seq(CallType) /\ NoId \in Id
      BY EmptySeq DEF Id
    <3> QED
      BY <1>1, <2>1, <3>1, VoicedIs DEF Message
<1>4. Rest(said) \in Voiced
  <2>1. Parts(blocks) \in Seq(PartType)
    BY <1>1, PartsType
  <2>2. PartsToContent(Parts(blocks)) \in Seq(PartType)
    BY <2>1, ContentIs
  <2>3. ToolCalls(blocks) \in Seq(CallType)
    BY <1>1, ToolCallsAre
  <2> QED
    <3>1. NoId \in Id
      BY DEF Id
    <3> QED
      BY <1>1, <2>2, <2>3, <3>1, VoicedIs DEF Rest
<1>5. Talk(said) \in Seq(Voiced)
  BY <1>4, EmptySeq DEF Talk
<1>6. ToolResults(blocks) \in Seq(Voiced)
  BY <1>1, ToolResultsAre
<1>7. CASE said.form = "text"
  <2>1. Turn(said) = <<Message(said.role, Text(Words(blocks)))>>
    BY <1>7, TurnIs
  <2> QED
    BY <1>3, <1>5, <2>1
<1>8. CASE said.form # "text"
  <2>1. Turn(said) = ToolResults(blocks) \o Talk(said)
    BY <1>8, TurnIs
  <2>2. ToolResults(blocks) \o Talk(said) \in Seq(Voiced)
    BY <1>5, <1>6, ConcatProperties
  <2> QED
    BY <1>5, <2>1, <2>2
<1> QED
  BY <1>7, <1>8

-----------------------------------------------------------------------------
\* What is said: by the user, and by the upstream as the agent gets it.
Seen == {b \in BlockType : b.type \in {"text", "image"}}
UserBlock == {b \in BlockType : b.type \in {"text", "image", "tool_result"}}
ReplyBlock ==
  {b \in BlockType : b.type \in {"text", "tool_use"}
                     \/ (b.type \in {"thinking", "image_url"} /\ b.words = <<>>)}
UserTurn == [role : {"user"}, form : {"text"}, blocks : Seq(Seen)]
            \cup [role : {"user"}, form : {"blocks"}, blocks : Seq(UserBlock)]
ReplyTurn == [role : {"assistant"}, form : {"blocks"}, blocks : Seq(ReplyBlock)]

\* A sequence of elements of a smaller set.
LEMMA SeqOfElements ==
  ASSUME NEW S, NEW T, NEW s \in Seq(S), \A i \in 1 .. Len(s) : s[i] \in T
  PROVE  s \in Seq(T)
<1> DEFINE n == Len(s)
<1>1. n \in Nat /\ s \in [1 .. n -> S]
  BY LenProperties
<1> HIDE DEF n
<1>2. s \in [1 .. n -> T]
  BY <1>1 DEF n
<1> QED
  BY <1>1, <1>2, SeqDef

\* Turns are what is said.
LEMMA TurnsAreSaid ==
  UserTurn \subseteq SaidType /\ ReplyTurn \subseteq SaidType
<1>1. Seq(Seen) \subseteq Seq(BlockType)
  <2>1. Seen \subseteq BlockType
    BY DEF Seen
  <2> QED
    BY <2>1, SeqMonotonic
<1>2. Seq(UserBlock) \subseteq Seq(BlockType)
  <2>1. UserBlock \subseteq BlockType
    BY DEF UserBlock
  <2> QED
    BY <2>1, SeqMonotonic
<1>3. Seq(ReplyBlock) \subseteq Seq(BlockType)
  <2>1. ReplyBlock \subseteq BlockType
    BY DEF ReplyBlock
  <2> QED
    BY <2>1, SeqMonotonic
<1>4. UserTurn \subseteq SaidType
  BY <1>1, <1>2 DEF UserTurn, SaidType
<1>5. ReplyTurn \subseteq SaidType
  BY <1>3 DEF ReplyTurn, SaidType
<1> QED
  BY <1>4, <1>5

\* What a user says is a turn of the user.
LEMMA SaysAreTurns ==
  ASSUME NEW said \in Says
  PROVE  said \in UserTurn
<1>1. said \in SaidType /\ said.role = "user"
      /\ \A i \in DOMAIN said.blocks : said.blocks[i].type \in {"text", "image"}
  BY ConversationAssumption
<1> DEFINE blocks == said.blocks
<1>2. blocks \in Seq(BlockType) /\ said = [role |-> "user", form |-> said.form, blocks |-> blocks]
      /\ said.form \in {"text", "blocks"}
  BY <1>1 DEF SaidType
<1>3. \A i \in 1 .. Len(blocks) : blocks[i] \in BlockType /\ blocks[i].type \in {"text", "image"}
  <2>1. DOMAIN blocks = 1 .. Len(blocks)
    BY <1>2, LenProperties
  <2> QED
    BY <1>1, <1>2, <2>1, ElementOfSeq
<1> HIDE DEF blocks
<1>4. blocks \in Seq(Seen)
  BY <1>2, <1>3, SeqOfElements DEF Seen
<1>5. blocks \in Seq(UserBlock)
  BY <1>2, <1>3, SeqOfElements DEF UserBlock
<1> QED
  BY <1>2, <1>4, <1>5 DEF UserTurn

\* Blocks of an answer, from its texts and its calls.
KeptOf(S) == [p \in S |-> Only(p.words # <<>>, p)]
AsBlock(p) == IF p.type = "text" THEN Block("text", p.words, NoId)
              ELSE Block("image_url", <<>>, NoId)
AsBlocks(S) == [p \in S |-> AsBlock(p)]
AsCall(c) == Block("tool_use", Input(c.args), c.id)
AsCalls == [c \in CallType |-> AsCall(c)]
CallBlock == {b \in BlockType : b.type = "tool_use"}
TextsIn(r) ==
  IF OfType("image", r.content) = <<>> THEN FlatOf(KeptOf(PartType), r.content) ELSE r.content

\* Keeping an element or not maps it to a sequence.
LEMMA KeptMap ==
  ASSUME NEW S
  PROVE  Maps(KeptOf(S), S, Seq(S))
<1>1. \A p \in S : Only(p.words # <<>>, p) \in Seq(S)
  BY OnlyType
<1> QED
  BY <1>1 DEF Maps, KeptOf

\* The input of a call is arguments.
LEMMA InputType ==
  ASSUME NEW args \in Seq(Word)
  PROVE  Input(args) \in Seq(Word)
<1>1. "{}" \in Word
  BY DEF Word
<1>2. \A x \in Word : <<x>> \in Seq(Word)
  OBVIOUS
<1>3. <<"{}">> \in Seq(Word)
  BY <1>1, <1>2
<1> QED
  BY <1>3 DEF Input

\* The blocks of an answer: its texts, then its calls.
LEMMA ReplyBlocksAre ==
  ASSUME NEW r \in ReplyType
  PROVE  /\ ReplyBlocks(r) = Image(AsBlocks(PartType), TextsIn(r)) \o Image(AsCalls, r.calls)
         /\ Image(AsBlocks(PartType), TextsIn(r)) \in Seq(ReplyBlock)
         /\ Image(AsCalls, r.calls) \in Seq(CallBlock)
<1> DEFINE content == r.content
           texts == TextsIn(r)
<1>1. content \in Seq(PartType) /\ r.calls \in Seq(CallType)
  BY DEF ReplyType
<1>2. FlatMap(LAMBDA p : Only(p.words # <<>>, p), content) = FlatOf(KeptOf(PartType), content)
  <2>1. \A i \in DOMAIN content : content[i] \in PartType
    BY <1>1, LenProperties, ElementOfSeq
  <2>2. \A i \in DOMAIN content :
          KeptOf(PartType)[content[i]] = Only(content[i].words # <<>>, content[i])
    BY <2>1 DEF KeptOf
  <2>3. Image(KeptOf(PartType), content)
          = [i \in DOMAIN content |-> Only(content[i].words # <<>>, content[i])]
    BY <2>2 DEF Image
  <2> QED
    BY <2>3 DEF FlatOf, FlatMap, MapSeq
<1>3. texts \in Seq(PartType)
  BY <1>1, KeptMap, FlatType DEF TextsIn
<1>4. [i \in DOMAIN texts |-> AsBlock(texts[i])] = Image(AsBlocks(PartType), texts)
  <2>1. \A i \in DOMAIN texts : texts[i] \in PartType
    BY <1>3, LenProperties, ElementOfSeq
  <2>2. \A i \in DOMAIN texts : AsBlocks(PartType)[texts[i]] = AsBlock(texts[i])
    BY <2>1 DEF AsBlocks
  <2> QED
    BY <2>2 DEF Image
<1>5. [i \in DOMAIN r.calls |-> AsCall(r.calls[i])] = Image(AsCalls, r.calls)
  <2> DEFINE calls == r.calls
  <2>1. \A i \in DOMAIN calls : calls[i] \in CallType
    BY <1>1, LenProperties, ElementOfSeq
  <2>2. \A i \in DOMAIN calls : AsCalls[calls[i]] = AsCall(calls[i])
    BY <2>1 DEF AsCalls
  <2> QED
    BY <2>2 DEF Image
<1>6. ReplyBlocks(r) = [i \in DOMAIN texts |-> AsBlock(texts[i])]
                       \o [i \in DOMAIN r.calls |-> AsCall(r.calls[i])]
  BY <1>2 DEF ReplyBlocks, MapSeq, TextsIn, AsBlock, AsCall
<1>7. Maps(AsBlocks(PartType), PartType, ReplyBlock)
  <2>1. ASSUME NEW p \in PartType PROVE AsBlock(p) \in ReplyBlock
    <3>1. p.words \in Seq(Word) /\ <<>> \in Seq(Word) /\ NoId \in Id
      BY EmptySeq DEF PartType, Id
    <3>2. Block("text", p.words, NoId) \in ReplyBlock
      BY <3>1 DEF Block, BlockType, ReplyBlock
    <3>3. Block("image_url", <<>>, NoId) \in ReplyBlock
      BY <3>1 DEF Block, BlockType, ReplyBlock
    <3> QED
      BY <3>2, <3>3 DEF AsBlock
  <2> QED
    BY <2>1 DEF Maps, AsBlocks
<1>8. Maps(AsCalls, CallType, CallBlock)
  <2>1. ASSUME NEW c \in CallType PROVE AsCall(c) \in CallBlock
    <3>1. Input(c.args) \in Seq(Word) /\ c.id \in Id
      BY InputType DEF CallType
    <3> QED
      BY <3>1 DEF AsCall, Block, BlockType, CallBlock
  <2> QED
    BY <2>1 DEF Maps, AsCalls
<1>9. Image(AsBlocks(PartType), texts) \in Seq(ReplyBlock)
  BY <1>3, <1>7, ImageIs DEF IsImage
<1>10. Image(AsCalls, r.calls) \in Seq(CallBlock)
  BY <1>1, <1>8, ImageIs DEF IsImage
<1> QED
  BY <1>4, <1>5, <1>6, <1>9, <1>10

\* The blocks of an answer are those of a turn of the upstream.
LEMMA ReplyBlocksType ==
  ASSUME NEW r \in ReplyType
  PROVE  ReplyBlocks(r) \in Seq(ReplyBlock)
<1> DEFINE a == Image(AsBlocks(PartType), TextsIn(r))
           b == Image(AsCalls, r.calls)
<1>1. CallBlock \subseteq ReplyBlock
  BY DEF CallBlock, ReplyBlock
<1>2. ReplyBlocks(r) = a \o b /\ a \in Seq(ReplyBlock) /\ b \in Seq(CallBlock)
  BY ReplyBlocksAre
<1> HIDE DEF a, b
<1>3. b \in Seq(ReplyBlock)
  BY <1>1, <1>2, SeqMonotonic
<1> QED
  BY <1>2, <1>3, ConcatProperties

\* The state: the agent's turns and the upstream's, and the last of them is the
\* answer that came last.
HistoryInv ==
  /\ system \in Systems /\ history \in Seq(UserTurn \cup ReplyTurn)
  /\ reply # NoReply => reply \in ReplyType
  /\ turn = "agent" /\ reply # NoReply =>
       Last(history) = Said("assistant", "blocks", ReplyBlocks(reply))
  /\ turn = "agent" /\ Pending => history # <<>>

\* The last of a sequence that was appended to.
LEMMA LastOfAppend ==
  ASSUME NEW S, NEW s \in Seq(S), NEW x \in S
  PROVE  /\ Append(s, x) \in Seq(S) /\ Append(s, x) # <<>>
         /\ Last(Append(s, x)) = x
<1>1. /\ Append(s, x) \in Seq(S) /\ Append(s, x) # <<>>
      /\ Len(Append(s, x)) = Len(s) + 1 /\ Append(s, x)[Len(s) + 1] = x
  BY AppendProperties
<1> QED
  BY <1>1 DEF Last

\* The history, at the start,
LEMMA HistoryInit == ConversationInit => HistoryInv
  BY EmptySeq DEF ConversationInit, HistoryInv, Pending

\* when the agent sends a turn,
LEMMA SentIsTurn ==
  ASSUME HistoryInv, NEW said \in UserTurn, Send(said)
  PROVE  HistoryInv'
<1>1. said \in UserTurn \cup ReplyTurn
  OBVIOUS
<1>2. history' \in Seq(UserTurn \cup ReplyTurn)
  <2>1. history \in Seq(UserTurn \cup ReplyTurn) /\ history' = Append(history, said)
    BY DEF HistoryInv, Send
  <2> QED
    BY <1>1, <2>1, AppendProperties
<1>3. turn' = "gateway" /\ UNCHANGED <<system, reply>>
  BY DEF Send
<1> QED
  BY <1>2, <1>3 DEF HistoryInv

\* What answers calls, with a remark, is a turn of the user.
LEMMA AnswerIsTurn ==
  ASSUME NEW ids, NEW n \in Nat, NEW results, NEW aside \in Seq(Word), NEW first,
         results = [i \in 1 .. n |-> Block("tool_result", <<"out">>, ids[i])],
         \A i \in 1 .. n : ids[i] \in Id
  PROVE  LET text == <<Block("text", aside, NoId)>>
         IN Said("user", "blocks", IF first THEN text \o results ELSE results \o text) \in UserTurn
<1> DEFINE text == <<Block("text", aside, NoId)>>
<1>1. Block("text", aside, NoId) \in UserBlock
  BY DEF Block, UserBlock, BlockType, Id
<1>2. text \in Seq(UserBlock)
  <2>1. \A x \in UserBlock : <<x>> \in Seq(UserBlock)
    OBVIOUS
  <2> QED
    BY <1>1, <2>1
<1>3. <<"out">> \in Seq(Word)
  <2>1. "out" \in Word
    BY DEF Word
  <2>2. \A x \in Word : <<x>> \in Seq(Word)
    OBVIOUS
  <2> QED
    BY <2>1, <2>2
<1>4. \A i \in 1 .. n : Block("tool_result", <<"out">>, ids[i]) \in UserBlock
  BY <1>3 DEF Block, UserBlock, BlockType
<1>5. results \in [1 .. n -> UserBlock]
  BY <1>4
<1>6. results \in Seq(UserBlock)
  BY <1>5, SeqDef
<1> HIDE DEF text
<1>7. text \o results \in Seq(UserBlock) /\ results \o text \in Seq(UserBlock)
  BY <1>2, <1>6, ConcatProperties
<1>8. \A blocks \in Seq(UserBlock) : Said("user", "blocks", blocks) \in UserTurn
  BY DEF Said, UserTurn
<1> QED
  BY <1>7, <1>8 DEF text

\* The calls of a turn.
LEMMA CallsType ==
  ASSUME NEW said \in UserTurn \cup ReplyTurn
  PROVE  Calls(said) \in Seq(BlockType) /\ Calls(said) \in Seq(Typed("tool_use", BlockType))
<1>1. said.blocks \in Seq(BlockType)
  BY TurnsAreSaid DEF SaidType
<1>2. Typed("tool_use", BlockType) \subseteq BlockType
  BY DEF Typed
<1>3. Calls(said) \in Seq(Typed("tool_use", BlockType))
  BY <1>1, OfTypeIn DEF Calls
<1> QED
  BY <1>2, <1>3, SeqMonotonic

\* The answer to the calls of the last turn: what is sent, and in which order.
LEMMA AnswerIs ==
  ASSUME HistoryInv, turn = "agent", history # <<>>, NEW order, NEW results,
         order \in SetToSeqs(DOMAIN Calls(Last(history))),
         results = MapSeq(LAMBDA i : Block("tool_result", <<"out">>, Calls(Last(history))[i].id), order)
  PROVE  LET calls == Calls(Last(history))
             n == Len(calls)
         IN /\ n \in Nat /\ calls \in Seq(Typed("tool_use", BlockType))
            /\ order \in [1 .. n -> 1 .. n]
            /\ \A i, j \in 1 .. n : i # j => order[i] # order[j]
            /\ results = [i \in 1 .. n |-> Block("tool_result", <<"out">>, calls[order[i]].id)]
            /\ \A i \in 1 .. n : calls[order[i]].id \in Id
<1> DEFINE calls == Calls(Last(history))
           n == Len(calls)
<1>1. Last(history) \in UserTurn \cup ReplyTurn
  <2>1. history \in Seq(UserTurn \cup ReplyTurn)
    BY DEF HistoryInv
  <2>2. Len(history) \in 1 .. Len(history)
    BY <2>1, EmptySeq, LenProperties
  <2> QED
    BY <2>1, <2>2, ElementOfSeq DEF Last
<1>2. calls \in Seq(BlockType) /\ calls \in Seq(Typed("tool_use", BlockType))
  BY <1>1, CallsType
<1> HIDE DEF calls
<1>3. n \in Nat /\ DOMAIN calls = 1 .. n /\ \A i \in 1 .. n : calls[i] \in BlockType
  BY <1>2, LenProperties, ElementOfSeq
<1> HIDE DEF n
<1>4. Cardinality(1 .. n) = n
  <2>1. 1 \in Int /\ n \in Int
    BY <1>3
  <2>2. Cardinality(1 .. n) = IF 1 > n THEN 0 ELSE n - 1 + 1
    BY <2>1, FS_Interval
  <2> QED
    BY <1>3, <2>2
<1>5. order \in [1 .. n -> 1 .. n] /\ \A i, j \in 1 .. n : i # j => order[i] # order[j]
  BY <1>3, <1>4 DEF SetToSeqs, calls
<1>6. results = [i \in 1 .. n |-> Block("tool_result", <<"out">>, calls[order[i]].id)]
  <2>1. DOMAIN order = 1 .. n
    BY <1>5
  <2> QED
    BY <2>1 DEF MapSeq, calls
<1>7. \A i \in 1 .. n : calls[order[i]].id \in Id
  BY <1>3, <1>5 DEF BlockType
<1> QED
  BY <1>2, <1>3, <1>5, <1>6, <1>7 DEF calls, n

\* The history, when the agent answers calls,
LEMMA AnswerKeeps ==
  ASSUME HistoryInv, Answer
  PROVE  HistoryInv'
<1>1. turn = "agent" /\ history # <<>>
  BY DEF Answer, Send, HistoryInv
<1> DEFINE calls == Calls(Last(history))
           n == Len(calls)
<1>2. PICK order \in SetToSeqs(DOMAIN calls), aside \in Asides, first \in BOOLEAN :
        LET results == MapSeq(LAMBDA i : Block("tool_result", <<"out">>, calls[i].id), order)
            text == <<Block("text", aside, NoId)>>
        IN Send(Said("user", "blocks", IF first THEN text \o results ELSE results \o text))
  BY DEF Answer
<1> DEFINE results == MapSeq(LAMBDA i : Block("tool_result", <<"out">>, calls[i].id), order)
           text == <<Block("text", aside, NoId)>>
           said == Said("user", "blocks", IF first THEN text \o results ELSE results \o text)
           ids == [i \in 1 .. n |-> calls[order[i]].id]
<1>3. /\ n \in Nat /\ order \in [1 .. n -> 1 .. n]
      /\ results = [i \in 1 .. n |-> Block("tool_result", <<"out">>, calls[order[i]].id)]
      /\ \A i \in 1 .. n : calls[order[i]].id \in Id
  BY <1>1, <1>2, AnswerIs
<1>4. Send(said)
  BY <1>2
<1>5. aside \in Seq(Word)
  BY ConversationAssumption
<1> HIDE DEF n, calls, results
<1>6. results = [i \in 1 .. n |-> Block("tool_result", <<"out">>, ids[i])]
      /\ \A i \in 1 .. n : ids[i] \in Id
  BY <1>3
<1> HIDE DEF ids
<1>7. said \in UserTurn
  BY <1>3, <1>5, <1>6, AnswerIsTurn
<1> HIDE DEF said
<1> QED
  BY <1>4, <1>7, SentIsTurn

\* and when an answer comes.
LEMMA ReceiveKeeps ==
  ASSUME HistoryInv, NEW r, NEW blocks \in Seq(ReplyBlock), NEW reason,
         Receive(r, blocks, reason),
         r # NoReply => r \in ReplyType /\ blocks = ReplyBlocks(r)
  PROVE  HistoryInv'
<1> DEFINE said == Said("assistant", "blocks", blocks)
<1>1. said \in UserTurn \cup ReplyTurn
  BY DEF Said, ReplyTurn
<1>2. /\ history \in Seq(UserTurn \cup ReplyTurn) /\ history' = Append(history, said)
      /\ reply' = r /\ system' = system
  BY DEF HistoryInv, Receive
<1> HIDE DEF said
<1>3. history' \in Seq(UserTurn \cup ReplyTurn) /\ history' # <<>> /\ Last(history') = said
  BY <1>1, <1>2, LastOfAppend
<1> QED
  BY <1>2, <1>3 DEF HistoryInv, said

\* The blocks of a streamed answer are those of a turn of the upstream.
LEMMA StreamBlocks ==
  ASSUME NEW blocks \in Streams
  PROVE  blocks \in Seq(ReplyBlock)
<1>1. blocks \in Seq(BlockType)
      /\ \A i \in DOMAIN blocks : \/ blocks[i].type \in {"text", "tool_use"}
                                  \/ blocks[i].type = "thinking" /\ blocks[i].words = <<>>
  BY ConversationAssumption
<1>2. \A i \in 1 .. Len(blocks) : blocks[i] \in ReplyBlock
  <2>1. DOMAIN blocks = 1 .. Len(blocks) /\ \A i \in 1 .. Len(blocks) : blocks[i] \in BlockType
    BY <1>1, LenProperties, ElementOfSeq
  <2> QED
    BY <1>1, <2>1 DEF ReplyBlock
<1> QED
  BY <1>1, <1>2, SeqOfElements

\* The history, on every step.
LEMMA HistoryNext == HistoryInv /\ [ConversationNext]_conversation => HistoryInv'
<1> SUFFICES ASSUME HistoryInv, [ConversationNext]_conversation PROVE HistoryInv'
  OBVIOUS
<1>1. CASE Ask
  <2>1. PICK said \in Says : Send(said)
    BY <1>1 DEF Ask
  <2> QED
    BY <2>1, SaysAreTurns, SentIsTurn
<1>2. CASE Answer
  BY <1>2, AnswerKeeps
<1>3. CASE Forward
  BY <1>3 DEF Forward, HistoryInv
<1>4. CASE Reply
  <2>1. PICK r \in Replies : Receive(r, ReplyBlocks(r), MapFinish(r.finish))
    BY <1>4 DEF Reply
  <2>2. r \in ReplyType
    BY ConversationAssumption
  <2> DEFINE blocks == ReplyBlocks(r)
             reason == MapFinish(r.finish)
  <2>3. blocks \in Seq(ReplyBlock) /\ Receive(r, blocks, reason)
    BY <2>1, <2>2, ReplyBlocksType
  <2>4. r # NoReply => r \in ReplyType /\ blocks = ReplyBlocks(r)
    BY <2>2
  <2> HIDE DEF blocks, reason
  <2> QED
    BY <2>3, <2>4, ReceiveKeeps
<1>5. CASE Stream
  <2>1. PICK blocks \in Streams :
          Receive(NoReply, blocks,
                  IF OfType("tool_use", blocks) # <<>> THEN "tool_use" ELSE "end_turn")
    BY <1>5 DEF Stream
  <2> DEFINE reason == IF OfType("tool_use", blocks) # <<>> THEN "tool_use" ELSE "end_turn"
  <2>2. blocks \in Seq(ReplyBlock) /\ Receive(NoReply, blocks, reason)
    BY <2>1, StreamBlocks
  <2> HIDE DEF reason
  <2> QED
    BY <2>2, ReceiveKeeps
<1>6. CASE Fail
  BY <1>6 DEF Fail, HistoryInv
<1>7. CASE UNCHANGED conversation
  BY <1>7 DEF conversation, HistoryInv, Pending
<1> QED
  BY <1>1, <1>2, <1>3, <1>4, <1>5, <1>6, <1>7 DEF ConversationNext

-----------------------------------------------------------------------------
\* An answer of one text, and calls, as the next request has it.
LEMMA PlainBlocks ==
  ASSUME NEW r \in ReplyType, NEW w \in Seq(Word), r.content = Text(w)
  PROVE  LET one == Block("text", w, NoId)
             calls == Image(AsCalls, r.calls)
         IN /\ one \in ReplyBlock /\ calls \in Seq(CallBlock) /\ Len(calls) = Len(r.calls)
            /\ \A i \in 1 .. Len(r.calls) : calls[i] = AsCall(r.calls[i])
            /\ ReplyBlocks(r) = (IF w # <<>> THEN <<one>> ELSE <<>>) \o calls
<1> DEFINE one == Block("text", w, NoId)
           calls == Image(AsCalls, r.calls)
           p == Part("text", w)
<1>1. one \in ReplyBlock
  BY DEF Block, BlockType, ReplyBlock, Id
<1>2. p \in PartType /\ p.words = w /\ p.type = "text" /\ r.content = <<p>> /\ AsBlock(p) = one
  BY DEF Part, PartType, Text, AsBlock
<1>3. r.calls \in Seq(CallType)
  BY DEF ReplyType
<1>4. Maps(AsCalls, CallType, {AsCall(c) : c \in CallType})
  BY DEF Maps, AsCalls
<1>5. Len(calls) = Len(r.calls) /\ \A i \in 1 .. Len(r.calls) : calls[i] = AsCall(r.calls[i])
  <2> DEFINE cs == r.calls
             T == {AsCall(c) : c \in CallType}
  <2>1. cs \in Seq(CallType) /\ Maps(AsCalls, CallType, T)
    BY <1>3, <1>4
  <2> HIDE DEF cs, T
  <2>2. IsImage(Image(AsCalls, cs), AsCalls, cs, T)
    BY <2>1, ImageIs
  <2>3. \A i \in 1 .. Len(cs) : AsCalls[cs[i]] = AsCall(cs[i])
    BY <2>1, ElementOfSeq DEF AsCalls
  <2> QED
    BY <2>2, <2>3 DEF IsImage, cs
<1> HIDE DEF one, p
<1>6. OfType("image", <<p>>) = <<>>
  <2> DEFINE S == {p}
             s == <<p>>
  <2>1. s \in Seq(S) /\ \A b \in S : b.type # "image"
    BY <1>2
  <2> HIDE DEF S, s
  <2>2. OfType("image", s) = <<>>
    BY <2>1, OfTypeNone
  <2> QED
    BY <2>2 DEF s
<1>7. TextsIn(r) = Only(w # <<>>, p)
  <2>1. TextsIn(r) = FlatOf(KeptOf(PartType), <<p>>)
    BY <1>2, <1>6 DEF TextsIn
  <2>2. FlatOf(KeptOf(PartType), <<p>>) = KeptOf(PartType)[p]
    BY <1>2, KeptMap, FlatOne
  <2>3. KeptOf(PartType)[p] = Only(w # <<>>, p)
    BY <1>2 DEF KeptOf
  <2> QED
    BY <2>1, <2>2, <2>3
<1>8. Image(AsBlocks(PartType), Only(w # <<>>, p)) = IF w # <<>> THEN <<one>> ELSE <<>>
  <2>1. CASE w = <<>>
    BY <2>1, ImageNone DEF Only
  <2>2. CASE w # <<>>
    <3>1. AsBlocks(PartType)[p] = one
      BY <1>2 DEF AsBlocks
    <3>2. Image(AsBlocks(PartType), <<p>>) = <<AsBlocks(PartType)[p]>>
      BY DEF Image
    <3> QED
      BY <2>2, <3>1, <3>2 DEF Only
  <2> QED
    BY <2>1, <2>2
<1>9. ReplyBlocks(r) = Image(AsBlocks(PartType), TextsIn(r)) \o calls /\ calls \in Seq(CallBlock)
  BY ReplyBlocksAre
<1> QED
  BY <1>1, <1>5, <1>7, <1>8, <1>9 DEF one

PlainText(w) == IF w # <<>> THEN <<Block("text", w, NoId)>> ELSE <<>>

\* What the next request has of it: no results, its calls and its text.
LEMMA PlainTurn ==
  ASSUME NEW calls \in Seq(CallBlock), NEW w \in Seq(Word), NEW blocks,
         blocks = PlainText(w) \o calls
  PROVE  /\ ToolResults(blocks) = <<>>
         /\ OfType("tool_use", blocks) = calls
         /\ Parts(blocks) = IF w # <<>> THEN Text(w) ELSE <<>>
<1> DEFINE one == Block("text", w, NoId)
           text == IF w # <<>> THEN <<one>> ELSE <<>>
           T == {one}
           p == Part("text", w)
<1>0. one \in ReplyBlock
  BY DEF Block, BlockType, ReplyBlock, Id
<1>1. one.type = "text" /\ one.words = w /\ one \in BlockType
  BY <1>0 DEF Block, ReplyBlock
<1> HIDE DEF one
<1>2. /\ calls \in Seq(ReplyBlock) /\ calls \in Seq(BlockType)
      /\ \A b \in CallBlock : b.type = "tool_use"
  <2>1. CallBlock \subseteq ReplyBlock /\ CallBlock \subseteq BlockType
    BY DEF CallBlock, ReplyBlock
  <2> QED
    BY <2>1, SeqMonotonic DEF CallBlock
<1>3. text \in Seq(T) /\ text \in Seq(ReplyBlock) /\ text \in Seq(BlockType)
  <2>1. \A S : one \in S => <<one>> \in Seq(S) /\ <<>> \in Seq(S)
    OBVIOUS
  <2>2. \A S : one \in S => text \in Seq(S)
    BY <2>1
  <2>3. one \in T
    OBVIOUS
  <2> HIDE DEF text, T
  <2> QED
    BY <1>0, <1>1, <2>2, <2>3
<1> HIDE DEF T
<1>4. blocks = text \o calls
  BY DEF PlainText, one
<1> HIDE DEF text
<1>5. blocks \in Seq(ReplyBlock) /\ blocks \in Seq(BlockType)
  BY <1>2, <1>3, <1>4, ConcatProperties
<1>6. ToolResults(blocks) = <<>>
  <2>1. OfType("tool_result", blocks) = <<>>
    <3>1. \A b \in ReplyBlock : b.type # "tool_result"
      BY DEF ReplyBlock
    <3> QED
      BY <1>5, <3>1, OfTypeNone
  <2>2. ToolResults(blocks) \in Seq(Voiced) /\ Len(ToolResults(blocks)) = Len(<<>>)
    BY <1>5, <2>1, ToolResultsAre
  <2> QED
    BY <2>2, EmptySeq
<1>7. OfType("tool_use", blocks) = calls
  <2>1. OfType("tool_use", blocks) = OfType("tool_use", text) \o OfType("tool_use", calls)
    BY <1>2, <1>3, <1>4, OfTypeConcat
  <2>2. OfType("tool_use", text) = <<>>
    <3>1. \A b \in T : b.type # "tool_use"
      BY <1>1 DEF T
    <3> QED
      BY <1>3, <3>1, OfTypeNone
  <2>3. OfType("tool_use", calls) = calls
    BY <1>2, OfTypeAll
  <2> QED
    BY <2>1, <2>2, <2>3, <1>2, ConcatEmptySeq
<1>8. Parts(blocks) = IF w # <<>> THEN Text(w) ELSE <<>>
  <2> DEFINE f == PartOf(BlockType)
  <2>1. Maps(f, BlockType, Seq(PartType))
    BY PartMap
  <2>2. Parts(blocks) = FlatOf(f, text \o calls)
    BY <1>4, <1>5, PartsIs
  <2>3. FlatOf(f, calls) = <<>>
    <3> DEFINE g == PartOf(CallBlock)
    <3>1. Parts(calls) = FlatOf(f, calls) /\ Parts(calls) = FlatOf(g, calls)
      BY <1>2, PartsIs
    <3>2. \A b \in CallBlock : g[b] = <<>>
      <4>1. \A b \in CallBlock : ~Shown(b)
        BY <1>2 DEF Shown
      <4>2. \A b \in CallBlock : g[b] = Only(Shown(b), Part(b.type, b.words))
        BY DEF PartOf
      <4> HIDE DEF g
      <4> QED
        BY <4>1, <4>2 DEF Only
    <3>3. Maps(g, CallBlock, Seq(PartType))
      <4>1. CallBlock \subseteq BlockType
        BY DEF CallBlock
      <4> QED
        BY <4>1, PartMap
    <3> HIDE DEF f, g
    <3> QED
      BY <3>1, <3>2, <3>3, FlatNothing
  <2>4. f[one] = Text(w)
    <3>1. f[one] = Only(Shown(one), Part(one.type, one.words))
      BY <1>1 DEF PartOf
    <3>2. Shown(one)
      BY <1>1 DEF Shown
    <3> QED
      BY <1>1, <3>1, <3>2 DEF Only, Text
  <2> HIDE DEF f
  <2>5. FlatOf(f, text) = IF w # <<>> THEN Text(w) ELSE <<>>
    <3>1. CASE w = <<>>
      BY <3>1, FlatNone DEF text
    <3>2. CASE w # <<>>
      <4>1. FlatOf(f, <<one>>) = f[one]
        BY <1>1, <2>1, FlatOne
      <4> QED
        BY <2>4, <3>2, <4>1 DEF text
    <3> QED
      BY <3>1, <3>2
  <2>6. FlatOf(f, text \o calls) = FlatOf(f, text) \o FlatOf(f, calls)
    BY <1>2, <1>3, <2>1, FlatConcat
  <2>7. FlatOf(f, text) \o <<>> = FlatOf(f, text)
    <3>1. FlatOf(f, text) \in Seq(PartType)
      BY <1>3, <2>1, FlatType
    <3> QED
      BY <3>1, ConcatEmptySeq
  <2> QED
    BY <2>2, <2>3, <2>5, <2>6, <2>7
<1> QED
  BY <1>6, <1>7, <1>8

\* The content of the message is the text, and there is some if the text has words.
LEMMA PlainContent ==
  ASSUME NEW w \in Seq(Word), NEW parts, parts = IF w # <<>> THEN Text(w) ELSE <<>>
  PROVE  /\ PartsToContent(parts) = Text(w)
         /\ HasContent(parts) <=> w # <<>>
         /\ HasContent(Text(w)) <=> w # <<>>
<1> DEFINE p == Part("text", w)
<1>1. p.type = "text" /\ p.words = w /\ Text(w) = <<p>> /\ Words(Text(w)) = w
  BY TextIs DEF Part, Text
<1> HIDE DEF p
<1>2. HasContent(Text(w)) <=> w # <<>>
  <2>1. DOMAIN <<p>> = {1} /\ <<p>>[1] = p
    OBVIOUS
  <2> QED
    BY <1>1, <2>1 DEF HasContent
<1>3. ~HasContent(<<>>)
  BY DEF HasContent
<1>4. OfType("image", Text(w)) = <<>> /\ OfType("image", <<>>) = <<>>
  <2> DEFINE S == {p}
             s == <<p>>
  <2>1. s \in Seq(S) /\ <<>> \in Seq(S) /\ \A b \in S : b.type # "image"
    BY <1>1, EmptySeq
  <2> HIDE DEF S, s
  <2>2. OfType("image", s) = <<>> /\ OfType("image", <<>>) = <<>>
    BY <2>1, OfTypeNone
  <2> QED
    BY <1>1, <2>2 DEF s
<1>5. Words(<<>>) = <<>>
  <2> DEFINE S == {}
  <2>1. <<>> \in Seq(S)
    BY EmptySeq
  <2> HIDE DEF S
  <2> QED
    BY <2>1, WordsIs, FlatNone
<1>6. PartsToContent(parts) = Text(w)
  BY <1>1, <1>4, <1>5 DEF PartsToContent
<1> QED
  BY <1>2, <1>3, <1>6

\* The answer that went out comes back.
Back(r, back) ==
  IF r.calls = <<>> /\ ~HasContent(r.content) THEN back = <<>>
  ELSE /\ Len(back) = 1
       /\ back[1].role = "assistant" /\ back[1].content = r.content
       /\ Len(back[1].calls) = Len(r.calls)
       /\ \A i \in DOMAIN r.calls :
            /\ back[1].calls[i].id = r.calls[i].id
            /\ \/ r.calls[i].args = <<"no json">>
               \/ back[1].calls[i].args = r.calls[i].args

\* For every answer of one text.
LEMMA AnswerComesBack ==
  ASSUME NEW r \in ReplyType, r.content = Text(Words(r.content))
  PROVE  Back(r, Turn(Said("assistant", "blocks", ReplyBlocks(r))))
<1> DEFINE w == Words(r.content)
           one == Block("text", w, NoId)
           calls == Image(AsCalls, r.calls)
           blocks == ReplyBlocks(r)
           said == Said("assistant", "blocks", blocks)
           parts == Parts(blocks)
<1>1. w \in Seq(Word)
  <2>1. r.content \in Seq(PartType) /\ Worded(PartType)
    BY DEF ReplyType, Worded, PartType
  <2> QED
    BY <2>1, WordsType
<1> HIDE DEF w
<1>2. r.content = Text(w)
  BY DEF w
<1>3. /\ one \in ReplyBlock /\ calls \in Seq(CallBlock) /\ Len(calls) = Len(r.calls)
      /\ \A i \in 1 .. Len(r.calls) : calls[i] = AsCall(r.calls[i])
      /\ blocks = (IF w # <<>> THEN <<one>> ELSE <<>>) \o calls
  BY <1>1, <1>2, PlainBlocks
<1> HIDE DEF calls, blocks
<1>4. /\ ToolResults(blocks) = <<>>
      /\ OfType("tool_use", blocks) = calls
      /\ parts = IF w # <<>> THEN Text(w) ELSE <<>>
  <2>1. w \in Seq(Word) /\ calls \in Seq(CallBlock) /\ blocks = PlainText(w) \o calls
    BY <1>1, <1>3 DEF PlainText
  <2> QED
    BY <2>1, PlainTurn DEF parts
<1> HIDE DEF parts
<1>5. /\ PartsToContent(parts) = Text(w)
      /\ HasContent(parts) <=> w # <<>>
      /\ HasContent(r.content) <=> w # <<>>
  BY <1>1, <1>2, <1>4, PlainContent
<1>6. /\ ToolCalls(blocks) \in Seq(CallType) /\ Len(ToolCalls(blocks)) = Len(r.calls)
      /\ \A i \in 1 .. Len(r.calls) :
           ToolCalls(blocks)[i] = [id |-> calls[i].id, args |-> calls[i].words]
  <2>1. blocks \in Seq(BlockType)
    <3>1. blocks \in Seq(ReplyBlock) /\ ReplyBlock \subseteq BlockType
      BY ReplyBlocksType DEF blocks, ReplyBlock
    <3> QED
      BY <3>1, SeqMonotonic
  <2>2. LET cs == OfType("tool_use", blocks)
        IN /\ ToolCalls(blocks) \in Seq(CallType)
           /\ Len(ToolCalls(blocks)) = Len(cs)
           /\ \A i \in 1 .. Len(cs) :
                ToolCalls(blocks)[i] = [id |-> cs[i].id, args |-> cs[i].words]
    BY <2>1, ToolCallsAre, Zenon
  <2> QED
    BY <1>3, <1>4, <2>2
<1>7. /\ said.role = "assistant" /\ said.form = "blocks" /\ said.blocks = blocks
  BY DEF Said
<1> HIDE DEF said
<1>8. Turn(said) = Talk(said)
  <2>1. Turn(said) = <<>> \o Talk(said)
    BY <1>4, <1>7, TurnIs
  <2>2. \A x : <<>> \o <<x>> = <<x>>
    OBVIOUS
  <2>3. <<>> \o <<>> = <<>>
    OBVIOUS
  <2> QED
    BY <2>1, <2>2, <2>3 DEF Talk
<1>9. /\ Rest(said).role = "assistant" /\ Rest(said).content = r.content
      /\ Rest(said).calls = ToolCalls(blocks)
  BY <1>2, <1>5, <1>7 DEF Rest, parts
<1>10. Speaks(said) <=> ToolCalls(blocks) # <<>> \/ w # <<>>
  BY <1>5, <1>7 DEF Speaks, parts
<1>11. ToolCalls(blocks) # <<>> <=> r.calls # <<>>
  <2>1. r.calls \in Seq(CallType)
    BY DEF ReplyType
  <2> QED
    BY <1>6, <2>1, EmptySeq
<1>12. CASE ~Speaks(said)
  <2>1. Turn(said) = <<>>
    BY <1>8, <1>12 DEF Talk
  <2>2. r.calls = <<>> /\ ~HasContent(r.content)
    BY <1>5, <1>10, <1>11, <1>12
  <2> QED
    BY <2>1, <2>2 DEF Back, said, blocks
<1>13. CASE Speaks(said)
  <2> DEFINE back == Turn(said)
  <2>1. back = <<Rest(said)>>
    BY <1>8, <1>13 DEF Talk
  <2>2. Len(back) = 1 /\ back[1] = Rest(said)
    BY <2>1
  <2>3. ~(r.calls = <<>> /\ ~HasContent(r.content))
    BY <1>5, <1>10, <1>11, <1>13
  <2>4. ASSUME NEW i \in DOMAIN r.calls
        PROVE  /\ back[1].calls[i].id = r.calls[i].id
               /\ \/ r.calls[i].args = <<"no json">>
                  \/ back[1].calls[i].args = r.calls[i].args
    <3> DEFINE c == r.calls[i]
    <3>1. i \in 1 .. Len(r.calls)
      <4>1. r.calls \in Seq(CallType)
        BY DEF ReplyType
      <4> QED
        BY <4>1, LenProperties
    <3>2. ToolCalls(blocks)[i] = [id |-> AsCall(c).id, args |-> AsCall(c).words]
      BY <1>3, <1>6, <3>1
    <3>3. AsCall(c).id = c.id /\ AsCall(c).words = Input(c.args)
      BY DEF AsCall, Block
    <3>4. back[1].calls[i] = [id |-> c.id, args |-> Input(c.args)]
      BY <1>9, <2>2, <3>2, <3>3
    <3>5. c.args = <<"no json">> \/ Input(c.args) = c.args
      BY DEF Input
    <3> HIDE DEF c, back
    <3>6. back[1].calls[i].id = c.id /\ back[1].calls[i].args = Input(c.args)
      BY <3>4
    <3> QED
      BY <3>5, <3>6 DEF c
  <2> HIDE DEF back
  <2>5. Back(r, back)
    BY <1>6, <1>9, <2>2, <2>3, <2>4 DEF Back
  <2> QED
    BY <2>5 DEF back, said, blocks
<1> QED
  BY <1>12, <1>13

\* What the upstream answers comes back to it with the next request
\* (convert_openai_to_anthropic and convert_anthropic_to_openai, main.rs).
LEMMA TripFromHistory == HistoryInv => RoundTrip
<1> SUFFICES ASSUME HistoryInv, turn = "agent", reply # NoReply,
                    reply.content = Text(Words(reply.content))
             PROVE  Back(reply, Turn(Last(history)))
  BY DEF RoundTrip, Back
<1>1. reply \in ReplyType /\ Last(history) = Said("assistant", "blocks", ReplyBlocks(reply))
  BY DEF HistoryInv
<1> QED
  BY <1>1, AnswerComesBack

-----------------------------------------------------------------------------
\* Words of words.
LEMMA FlattenType ==
  ASSUME NEW U, NEW ss \in Seq(Seq(U))
  PROVE  FlattenSeq(ss) \in Seq(U)
<1> DEFINE f == [x \in Seq(U) |-> x]
<1>1. Maps(f, Seq(U), Seq(U))
  BY DEF Maps
<1>2. Image(f, ss) = ss
  <2>1. ss = [i \in DOMAIN ss |-> ss[i]] /\ \A i \in DOMAIN ss : ss[i] \in Seq(U)
    <3> DEFINE T == Seq(U)
    <3> HIDE DEF T
    <3>1. \A t \in Seq(T) : t = [i \in DOMAIN t |-> t[i]] /\ \A i \in DOMAIN t : t[i] \in T
      BY LenProperties, ElementOfSeq
    <3> QED
      BY <3>1 DEF T
  <2>2. \A i \in DOMAIN ss : f[ss[i]] = ss[i]
    BY <2>1
  <2>3. Image(f, ss) = [i \in DOMAIN ss |-> ss[i]]
    BY <2>2 DEF Image
  <2> QED
    BY <2>1, <2>3
<1> DEFINE S == Seq(U)
<1>3. ss \in Seq(S) /\ Maps(f, S, Seq(U))
  BY <1>1
<1> HIDE DEF f, S
<1>4. FlatOf(f, ss) \in Seq(U)
  BY <1>3, FlatType
<1> QED
  BY <1>2, <1>4 DEF FlatOf

\* The two parts of a concatenation.
LEMMA TwoParts ==
  ASSUME NEW S, NEW p \in Seq(S), NEW b \in Seq(S)
  PROVE  /\ SubSeq(p \o b, 1, Len(p)) = p
         /\ SubSeq(p \o b, Len(p) + 1, Len(p \o b)) = b
<1> DEFINE ms == p \o b
           n == Len(p)
           k == Len(b)
<1>1. n \in Nat /\ k \in Nat
  BY LenProperties
<1>2. /\ ms \in Seq(S) /\ Len(ms) = n + k
      /\ \A i \in 1 .. n + k : ms[i] = IF i <= n THEN p[i] ELSE b[i - n]
  BY ConcatProperties
<1> HIDE DEF ms
<1>3. SubSeq(ms, 1, n) = p
  <2> DEFINE q == SubSeq(ms, 1, n)
  <2>1. \A i \in 1 .. n : ms[i] \in S /\ ms[i] = p[i]
    BY <1>1, <1>2, ElementOfSeq
  <2>2. /\ q \in Seq(S) /\ Len(q) = n
        /\ \A i \in 1 .. n : q[i] = ms[i]
    <3>1. /\ q \in Seq(S) /\ Len(q) = IF 1 <= n THEN n - 1 + 1 ELSE 0
          /\ \A i \in 1 .. n - 1 + 1 : q[i] = ms[1 + i - 1]
      BY <1>1, <2>1, SubSeqProperties
    <3> QED
      BY <1>1, <3>1
  <2> HIDE DEF q
  <2>3. q = p
    BY <2>1, <2>2, SeqEqual
  <2> QED
    BY <2>3 DEF q
<1>4. SubSeq(ms, n + 1, Len(ms)) = b
  <2> DEFINE q == SubSeq(ms, n + 1, n + k)
  <2>1. \A i \in n + 1 .. n + k : ms[i] \in S
    BY <1>1, <1>2, ElementOfSeq
  <2>2. /\ q \in Seq(S) /\ Len(q) = k
        /\ \A i \in 1 .. k : q[i] = ms[n + i]
    <3>1. /\ q \in Seq(S) /\ Len(q) = IF n + 1 <= n + k THEN n + k - (n + 1) + 1 ELSE 0
          /\ \A i \in 1 .. n + k - (n + 1) + 1 : q[i] = ms[n + 1 + i - 1]
      BY <1>1, <2>1, SubSeqProperties
    <3>2. n + k - (n + 1) + 1 = k /\ \A i \in 1 .. k : n + 1 + i - 1 = n + i
      BY <1>1
    <3> QED
      BY <1>1, <3>1, <3>2
  <2>3. \A i \in 1 .. k : ms[n + i] = b[i]
    BY <1>1, <1>2
  <2> HIDE DEF q
  <2>4. q = b
    BY <2>2, <2>3, SeqEqual
  <2> QED
    BY <1>2, <2>4 DEF q
<1> QED
  BY <1>3, <1>4 DEF ms

\* Turn, as a function of the turns, and what a history is converted to.
TurnOf == [said \in UserTurn \cup ReplyTurn |-> Turn(said)]
Body(messages) == FlatOf(TurnOf, messages)

\* A turn becomes messages.
LEMMA TurnMap == Maps(TurnOf, UserTurn \cup ReplyTurn, Seq(Voiced))
  BY TurnsAreSaid, TurnType DEF Maps, TurnOf

\* The prompt is a system message, or none.
LEMMA PromptType ==
  ASSUME HistoryInv
  PROVE  /\ Prompt \in Seq(MessageType)
         /\ \A i \in 1 .. Len(Prompt) :
              /\ Prompt[i].role = "system" /\ Prompt[i].calls = <<>>
<1>1. CASE system = NoSystem
  BY <1>1, EmptySeq DEF Prompt
<1>2. CASE system # NoSystem
  <2> DEFINE m == Message("system", Text(FlattenSeq(system)))
  <2>1. Prompt = <<m>>
    BY <1>2 DEF Prompt
  <2>2. FlattenSeq(system) \in Seq(Word)
    BY ConversationAssumption, FlattenType DEF HistoryInv
  <2>3. Text(FlattenSeq(system)) \in Seq(PartType)
    BY <2>2, TextIs
  <2>4. m \in MessageType /\ m.role = "system" /\ m.calls = <<>>
    <3>1. <<>> \in Seq(CallType) /\ NoId \in Id
      BY EmptySeq DEF Id
    <3> QED
      BY <2>3, <3>1 DEF Message, MessageType
  <2> HIDE DEF m
  <2>5. Len(Prompt) = 1 /\ Prompt[1] = m /\ Prompt \in Seq(MessageType)
    BY <2>1, <2>4
  <2> QED
    BY <2>4, <2>5
<1> QED
  BY <1>1, <1>2

\* The conversion: the prompt and what the turns become.
LEMMA ConvertIs ==
  ASSUME NEW messages \in Seq(UserTurn \cup ReplyTurn)
  PROVE  Convert(messages) = Prompt \o Body(messages) /\ Body(messages) \in Seq(Voiced)
<1>1. \A i \in DOMAIN messages : messages[i] \in UserTurn \cup ReplyTurn
  BY LenProperties, ElementOfSeq
<1>2. \A i \in DOMAIN messages : TurnOf[messages[i]] = Turn(messages[i])
  BY <1>1 DEF TurnOf
<1>3. Image(TurnOf, messages) = [i \in DOMAIN messages |-> Turn(messages[i])]
  BY <1>2 DEF Image
<1>4. FlatMap(Turn, messages) = Body(messages)
  BY <1>3 DEF FlatMap, MapSeq, Body, FlatOf
<1> QED
  BY <1>4, TurnMap, FlatType DEF Convert, Body

\* The evidence is a system message.
LEMMA ContextType ==
  Context \in MessageType /\ Context.role = "system" /\ Context.calls = <<>>
<1>1. "context" \in Word
  BY DEF Word
<1>2. \A x \in Word : <<x>> \in Seq(Word)
  OBVIOUS
<1>3. Text(<<"context">>) \in Seq(PartType)
  BY <1>1, <1>2, TextIs
<1>4. <<>> \in Seq(CallType) /\ NoId \in Id
  BY EmptySeq DEF Id
<1> QED
  BY <1>3, <1>4 DEF Context, Message, MessageType

\* Evidence comes between the prompt and the rest.
LEMMA InjectIs ==
  ASSUME NEW p \in Seq(MessageType), NEW b \in Seq(Voiced),
         \A i \in 1 .. Len(p) : p[i].role = "system"
  PROVE  LET ms == InjectEvidence(p \o b)
         IN /\ ms = (p \o <<Context>>) \o b
            /\ ms[Len(p) + 1] = Context
            /\ RemoveAt(ms, Len(p) + 1) = p \o b
<1> DEFINE ms == p \o b
           n == Len(p)
           k == Len(b)
           I == {i \in 1 .. Len(ms) : ms[i].role # "system"}
           lead == IF I # {} THEN Min(I) ELSE 0
           at == IF lead = 0 THEN Len(ms) + 1 ELSE lead
           c == <<Context>>
<1>1. b \in Seq(MessageType) /\ \A i \in 1 .. k : b[i].role # "system"
  <2>1. Voiced \subseteq MessageType
    BY DEF Voiced
  <2> QED
    BY <2>1, SeqMonotonic, ElementOfSeq DEF Voiced
<1>2. n \in Nat /\ k \in Nat
  BY LenProperties
<1>3. /\ ms \in Seq(MessageType) /\ Len(ms) = n + k
      /\ \A i \in 1 .. n + k : ms[i] = IF i <= n THEN p[i] ELSE b[i - n]
  BY <1>1, ConcatProperties
<1> HIDE DEF ms
<1>4. ASSUME NEW i \in 1 .. n + k
      PROVE  ms[i].role # "system" <=> i > n
  <2>1. CASE i <= n
    BY <1>2, <1>3, <2>1
  <2>2. CASE i > n
    <3>1. i - n \in 1 .. k
      BY <1>2, <2>2
    <3> QED
      BY <1>1, <1>2, <1>3, <2>2, <3>1
  <2> QED
    BY <1>2, <2>1, <2>2
<1>5. I = {i \in 1 .. n + k : i > n}
  BY <1>3, <1>4
<1>6. at = n + 1
  <2> HIDE DEF I
  <2>1. CASE k = 0
    <3>1. I = {}
      BY <1>2, <1>5, <2>1
    <3> QED
      BY <1>2, <1>3, <2>1, <3>1
  <2>2. CASE k # 0
    <3>1. n + 1 \in I /\ \A i \in I : n + 1 <= i
      BY <1>2, <1>5, <2>2
    <3>2. Min(I) = n + 1
      <4>1. \E x \in I : \A y \in I : x <= y
        BY <3>1
      <4>2. Min(I) \in I /\ \A y \in I : Min(I) <= y
        BY <4>1 DEF Min
      <4>3. I \subseteq Int
        BY <1>2, <1>5
      <4>4. Min(I) \in Int /\ n + 1 \in Int /\ n + 1 <= Min(I) /\ Min(I) <= n + 1
        BY <1>2, <3>1, <4>2, <4>3
      <4> DEFINE m == Min(I)
      <4> HIDE DEF m
      <4>5. m = n + 1
        BY <4>4 DEF m
      <4> QED
        BY <4>5 DEF m
    <3> QED
      BY <1>2, <3>1, <3>2
  <2> QED
    BY <2>1, <2>2
<1>7. InjectEvidence(ms) = InsertAt(ms, at, Context)
  BY DEF InjectEvidence, SelectInSeq
<1> HIDE DEF at
<1>8. SubSeq(ms, 1, n) = p /\ SubSeq(ms, n + 1, Len(ms)) = b
  BY <1>1, TwoParts DEF ms
<1>9. n + 1 - 1 = n /\ n + 1 + 1 = (n + 1) + 1
  BY <1>2
<1>10. InjectEvidence(ms) = (p \o c) \o b
  <2>1. InjectEvidence(ms) = SubSeq(ms, 1, (n + 1) - 1) \o <<Context>> \o SubSeq(ms, n + 1, Len(ms))
    BY <1>6, <1>7 DEF InsertAt
  <2>2. (n + 1) - 1 = n
    BY <1>2
  <2> HIDE DEF n
  <2> QED
    BY <1>8, <2>1, <2>2
<1> DEFINE pc == p \o c
           all == pc \o b
<1>11. c \in Seq(MessageType) /\ Len(c) = 1 /\ c[1] = Context
  BY ContextType
<1> HIDE DEF c
<1>12. /\ pc \in Seq(MessageType) /\ Len(pc) = n + 1 /\ pc[n + 1] = Context
  <2>1. /\ pc \in Seq(MessageType) /\ Len(pc) = n + 1
        /\ \A i \in 1 .. n + 1 : pc[i] = IF i <= n THEN p[i] ELSE c[i - n]
    <3>1. /\ pc \in Seq(MessageType) /\ Len(pc) = n + Len(c)
          /\ \A i \in 1 .. n + Len(c) : pc[i] = IF i <= n THEN p[i] ELSE c[i - n]
      BY <1>11, ConcatProperties
    <3> HIDE DEF pc, n
    <3> QED
      BY <1>11, <3>1
  <2>2. n + 1 \in 1 .. n + 1 /\ ~(n + 1 <= n) /\ n + 1 - n = 1
    BY <1>2
  <2> HIDE DEF pc
  <2> QED
    BY <1>11, <2>1, <2>2
<1>13. all = p \o (c \o b) /\ c \o b \in Seq(MessageType)
  BY <1>1, <1>11, ConcatAssociative, ConcatProperties
<1>14. SubSeq(all, 1, n) = p
  <2> DEFINE cb == c \o b
  <2>1. cb \in Seq(MessageType) /\ all = p \o cb
    BY <1>13
  <2> HIDE DEF cb, all
  <2> QED
    BY <2>1, TwoParts
<1> HIDE DEF pc
<1>15. SubSeq(all, (n + 1) + 1, Len(all)) = b /\ all[n + 1] = Context
  <2>1. SubSeq(all, Len(pc) + 1, Len(all)) = b
    BY <1>1, <1>12, TwoParts
  <2>2. /\ Len(all) = Len(pc) + k
        /\ \A i \in 1 .. Len(pc) + k : all[i] = IF i <= Len(pc) THEN pc[i] ELSE b[i - Len(pc)]
    BY <1>1, <1>12, ConcatProperties
  <2>3. n + 1 \in 1 .. Len(pc) + k /\ n + 1 <= Len(pc)
    BY <1>2, <1>12
  <2> HIDE DEF all
  <2> QED
    BY <1>12, <2>1, <2>2, <2>3
<1> HIDE DEF all
<1>16. RemoveAt(all, n + 1) = ms
  <2>1. RemoveAt(all, n + 1) = SubSeq(all, 1, (n + 1) - 1) \o SubSeq(all, (n + 1) + 1, Len(all))
    BY DEF RemoveAt
  <2>2. (n + 1) - 1 = n
    BY <1>2
  <2> HIDE DEF n
  <2> QED
    BY <1>14, <1>15, <2>1, <2>2 DEF ms
<1> QED
  BY <1>10, <1>15, <1>16 DEF ms, all, pc, c

\* A task is fresh while no call and no text of the upstream has reached the history.
LEMMA FreshIsSilent ==
  ASSUME HistoryInv, IsFreshTask(Convert(history)), NEW i \in DOMAIN history,
         history[i].role = "assistant"
  PROVE  Blank(Words(history[i].blocks))
<1> DEFINE said == history[i]
           blocks == said.blocks
           ms == Convert(history)
<1>1. history \in Seq(UserTurn \cup ReplyTurn) /\ i \in 1 .. Len(history)
  BY LenProperties DEF HistoryInv
<1>2. said \in UserTurn \cup ReplyTurn
  BY <1>1, ElementOfSeq
<1>3. said \in ReplyTurn
  BY <1>2 DEF UserTurn
<1>4. blocks \in Seq(ReplyBlock) /\ said.form = "blocks"
  BY <1>3 DEF ReplyTurn
<1>5. blocks \in Seq(BlockType)
  BY <1>3, TurnsAreSaid DEF SaidType
<1>6. Range(Turn(said)) \subseteq Range(ms)
  <2>1. Range(TurnOf[said]) \subseteq Range(Body(history))
    BY <1>1, TurnMap, FlatHolds DEF Body
  <2>2. TurnOf[said] = Turn(said)
    BY <1>2 DEF TurnOf
  <2>3. Range(Body(history)) \subseteq Range(ms)
    <3> DEFINE b == Body(history)
    <3>1. ms = Prompt \o b /\ b \in Seq(Voiced) /\ Prompt \in Seq(MessageType)
      BY <1>1, ConvertIs, PromptType
    <3>2. b \in Seq(MessageType)
      <4>1. Voiced \subseteq MessageType
        BY DEF Voiced
      <4> QED
        BY <3>1, <4>1, SeqMonotonic
    <3> HIDE DEF b, ms
    <3>3. Range(Prompt \o b) = Range(Prompt) \cup Range(b)
      BY <3>1, <3>2, RangeConcatenation
    <3> QED
      BY <3>1, <3>3 DEF b
  <2> QED
    BY <2>1, <2>2, <2>3
<1>7. ~Speaks(said)
  <2> SUFFICES ASSUME Speaks(said) PROVE FALSE
    OBVIOUS
  <2> DEFINE rs == ToolResults(blocks)
             rest == Rest(said)
  <2>1. Turn(said) = rs \o <<rest>>
    BY <1>4, TurnIs DEF Talk
  <2>2. rs \in Seq(Voiced) /\ Talk(said) \in Seq(Voiced) /\ Talk(said) = <<rest>>
    BY <1>3, <1>5, ToolResultsAre, TurnsAreSaid, TurnType DEF Talk
  <2>3. rest.role = "assistant"
    BY DEF Rest
  <2> HIDE DEF rs, rest
  <2>4. Range(rs \o <<rest>>) = Range(rs) \cup Range(<<rest>>)
    <3> DEFINE one == <<rest>>
    <3>1. rs \in Seq(Voiced) /\ one \in Seq(Voiced)
      BY <2>2
    <3> HIDE DEF one
    <3>2. Range(rs \o one) = Range(rs) \cup Range(one)
      BY <3>1, RangeConcatenation
    <3> QED
      BY <3>2 DEF one
  <2>5. rest \in Range(<<rest>>)
    BY DEF Range
  <2>6. rest \in Range(ms)
    BY <1>6, <2>1, <2>4, <2>5
  <2> HIDE DEF ms, said
  <2>7. \E j \in DOMAIN ms : ms[j] = rest
    BY <2>6 DEF Range
  <2> QED
    BY <2>3, <2>7 DEF IsFreshTask, ms
<1>8. ToolCalls(blocks) = <<>> /\ ~HasContent(Parts(blocks))
  BY <1>7 DEF Speaks
<1> HIDE DEF blocks
<1>9. OfType("tool_use", blocks) = <<>>
  <2> DEFINE cs == OfType("tool_use", blocks)
  <2>1. cs \in Seq(BlockType) /\ Len(ToolCalls(blocks)) = Len(cs)
    BY <1>5, ToolCallsAre
  <2>2. Len(cs) = 0
    BY <1>8, <2>1, EmptySeq
  <2> HIDE DEF cs
  <2>3. cs = <<>>
    BY <2>1, <2>2, EmptySeq
  <2> QED
    BY <2>3 DEF cs
<1>10. \A j \in 1 .. Len(blocks) : blocks[j].words = <<>>
  <2>1. TAKE j \in 1 .. Len(blocks)
  <2>2. blocks[j] \in ReplyBlock
    BY <1>4, ElementOfSeq DEF blocks
  <2>3. blocks[j].type # "tool_use"
    BY <1>5, <1>9, OfTypeHolds
  <2>4. CASE blocks[j].type = "text"
    BY <1>5, <1>8, <2>4, PartsHold DEF Shown
  <2>5. CASE blocks[j].type # "text"
    BY <2>2, <2>3, <2>5 DEF ReplyBlock
  <2> QED
    BY <2>4, <2>5
<1> DEFINE S == {b \in BlockType : b.words = <<>>}
<1>11. blocks \in Seq(S)
  <2>1. \A j \in 1 .. Len(blocks) : blocks[j] \in S
    BY <1>5, <1>10, ElementOfSeq
  <2> HIDE DEF S
  <2> QED
    BY <1>5, <2>1, SeqOfElements
<1>12. Words(blocks) = <<>>
  <2>1. \A b \in S : b.words = <<>>
    OBVIOUS
  <2> HIDE DEF S
  <2> QED
    BY <1>11, <2>1, WordsNone
<1> QED
  <2>1. Blank(<<>>)
    <3> DEFINE none == <<>>
    <3>1. DOMAIN none = {}
      OBVIOUS
    <3> HIDE DEF none
    <3>2. Blank(none)
      BY <3>1 DEF Blank
    <3> QED
      BY <3>2 DEF none
  <2> QED
    BY <1>12, <2>1 DEF blocks

\* What a request that is sent on is.
LEMMA ForwardIs ==
  ASSUME Forward
  PROVE  /\ turn' = "upstream" /\ UNCHANGED <<system, explorer, history, reply, stop>>
         /\ evidence' => IsFreshTask(Convert(history)) /\ request' = InjectEvidence(Convert(history))
         /\ ~evidence' => request' = Convert(history)
  BY DEF Forward

\* Evidence is in its place in what is sent on (is_fresh_task, inject_evidence).
LEMMA PlacedForward == HistoryInv /\ Forward => EvidencePlaced'
<1> SUFFICES ASSUME HistoryInv, Forward PROVE EvidencePlaced'
  OBVIOUS
<1>1. /\ turn' = "upstream" /\ UNCHANGED <<system, explorer, history, reply, stop>>
      /\ evidence' => IsFreshTask(Convert(history)) /\ request' = InjectEvidence(Convert(history))
      /\ ~evidence' => request' = Convert(history)
  BY ForwardIs
<1>2. Prompt' = Prompt /\ Convert(history)' = Convert(history)
  BY <1>1 DEF Prompt, Convert
<1>3. CASE evidence'
  <2> DEFINE p == Prompt
             b == Body(history)
  <2>1. /\ p \in Seq(MessageType) /\ \A i \in 1 .. Len(p) : p[i].role = "system"
        /\ b \in Seq(Voiced) /\ Convert(history) = p \o b
    BY PromptType, ConvertIs DEF HistoryInv
  <2> HIDE DEF p, b
  <2>2. LET ms == InjectEvidence(p \o b)
        IN /\ ms[Len(p) + 1] = Context
           /\ RemoveAt(ms, Len(p) + 1) = p \o b
    BY <2>1, InjectIs
  <2>3. request' = InjectEvidence(p \o b)
    BY <1>1, <1>3, <2>1
  <2>4. request'[Len(p) + 1] = Context /\ RemoveAt(request', Len(p) + 1) = Convert(history)
    BY <2>1, <2>2, <2>3
  <2>5. \A i \in DOMAIN history : history[i].role = "assistant" => Blank(Words(history[i].blocks))
    BY <1>1, <1>3, FreshIsSilent
  <2>6. Len(Prompt') = Len(p)
    BY <1>2 DEF p
  <2> QED
    BY <1>1, <1>2, <1>3, <2>4, <2>5, <2>6 DEF EvidencePlaced, Context
<1>4. CASE ~evidence'
  BY <1>1, <1>2, <1>4 DEF EvidencePlaced
<1> QED
  BY <1>3, <1>4

\* What is about the request that was sent last is true until the next is sent.
LEMMA RequestStays ==
  ASSUME [ConversationNext]_conversation, ~Forward, turn' = "upstream"
  PROVE  UNCHANGED conversation
  BY DEF ConversationNext, conversation, Ask, Answer, Send, Reply, Stream, Receive, Fail

-----------------------------------------------------------------------------
\* What a message holds, as functions, and what a turn holds.
SpokenOf(S) == [m \in S |-> SpokenIn(m)]
CallsOf(S) == [m \in S |-> CallsIn(m)]
ResultsOf(S) == [m \in S |-> ResultsIn(m)]
SpokenByOf(S) == [said \in S |-> SpokenBy(said)]
CallsByOf(S) == [said \in S |-> CallsBy(said)]
ResultsByOf(S) == [said \in S |-> ResultsBy(said)]

\* What a sequence of messages holds,
LEMMA HeldIs ==
  ASSUME NEW S, NEW s \in Seq(S)
  PROVE  /\ FlatMap(SpokenIn, s) = FlatOf(SpokenOf(S), s)
         /\ FlatMap(CallsIn, s) = FlatOf(CallsOf(S), s)
         /\ FlatMap(ResultsIn, s) = FlatOf(ResultsOf(S), s)
<1>1. \A i \in DOMAIN s : s[i] \in S
  BY LenProperties, ElementOfSeq
<1>2. Image(SpokenOf(S), s) = [i \in DOMAIN s |-> SpokenIn(s[i])]
  <2>1. \A i \in DOMAIN s : SpokenOf(S)[s[i]] = SpokenIn(s[i])
    BY <1>1 DEF SpokenOf
  <2> QED
    BY <2>1 DEF Image
<1>3. Image(CallsOf(S), s) = [i \in DOMAIN s |-> CallsIn(s[i])]
  <2>1. \A i \in DOMAIN s : CallsOf(S)[s[i]] = CallsIn(s[i])
    BY <1>1 DEF CallsOf
  <2> QED
    BY <2>1 DEF Image
<1>4. Image(ResultsOf(S), s) = [i \in DOMAIN s |-> ResultsIn(s[i])]
  <2>1. \A i \in DOMAIN s : ResultsOf(S)[s[i]] = ResultsIn(s[i])
    BY <1>1 DEF ResultsOf
  <2> QED
    BY <2>1 DEF Image
<1> QED
  BY <1>2, <1>3, <1>4 DEF FlatMap, MapSeq, FlatOf

\* and what a history does, are concatenations.
LEMMA HeldByIs ==
  ASSUME NEW S, NEW s \in Seq(S)
  PROVE  /\ FlatMap(SpokenBy, s) = FlatOf(SpokenByOf(S), s)
         /\ FlatMap(CallsBy, s) = FlatOf(CallsByOf(S), s)
         /\ FlatMap(ResultsBy, s) = FlatOf(ResultsByOf(S), s)
<1>1. \A i \in DOMAIN s : s[i] \in S
  BY LenProperties, ElementOfSeq
<1>2. Image(SpokenByOf(S), s) = [i \in DOMAIN s |-> SpokenBy(s[i])]
  <2>1. \A i \in DOMAIN s : SpokenByOf(S)[s[i]] = SpokenBy(s[i])
    BY <1>1 DEF SpokenByOf
  <2> QED
    BY <2>1 DEF Image
<1>3. Image(CallsByOf(S), s) = [i \in DOMAIN s |-> CallsBy(s[i])]
  <2>1. \A i \in DOMAIN s : CallsByOf(S)[s[i]] = CallsBy(s[i])
    BY <1>1 DEF CallsByOf
  <2> QED
    BY <2>1 DEF Image
<1>4. Image(ResultsByOf(S), s) = [i \in DOMAIN s |-> ResultsBy(s[i])]
  <2>1. \A i \in DOMAIN s : ResultsByOf(S)[s[i]] = ResultsBy(s[i])
    BY <1>1 DEF ResultsByOf
  <2> QED
    BY <2>1 DEF Image
<1> QED
  BY <1>2, <1>3, <1>4 DEF FlatMap, MapSeq, FlatOf

\* Their types: words under a role, ids, ids with words.
Utterance == {"user", "assistant"} \X Word
Report == Id \X Seq(Word)

\* Words under a role,
LEMMA SpokenType ==
  ASSUME NEW role \in {"user", "assistant"}, NEW words \in Seq(Word)
  PROVE  Spoken(role, words) \in Seq(Utterance)
<1>1. DOMAIN words = 1 .. Len(words) /\ Len(words) \in Nat
      /\ \A i \in 1 .. Len(words) : words[i] \in Word
  BY LenProperties, ElementOfSeq
<1>2. Spoken(role, words) = [i \in 1 .. Len(words) |-> <<role, words[i]>>]
  BY <1>1 DEF Spoken, MapSeq
<1>3. \A i \in 1 .. Len(words) : <<role, words[i]>> \in Utterance
  BY <1>1 DEF Utterance
<1>4. Spoken(role, words) \in [1 .. Len(words) -> Utterance]
  BY <1>2, <1>3
<1> QED
  BY <1>1, <1>4, SeqDef

\* ids,
LEMMA CallIdsType ==
  ASSUME NEW T, NEW s \in Seq(T), \A c \in T : c.id \in Id
  PROVE  CallIds(s) \in Seq(Id)
<1>1. DOMAIN s = 1 .. Len(s) /\ Len(s) \in Nat /\ \A i \in 1 .. Len(s) : s[i] \in T
  BY LenProperties, ElementOfSeq
<1>2. CallIds(s) = [i \in 1 .. Len(s) |-> s[i].id]
  BY <1>1 DEF CallIds, MapSeq
<1>3. CallIds(s) \in [1 .. Len(s) -> Id]
  BY <1>1, <1>2
<1> QED
  BY <1>1, <1>3, SeqDef

\* and all that a message holds.
LEMMA HeldMaps ==
  /\ Maps(SpokenOf(MessageType), MessageType, Seq(Utterance))
  /\ Maps(CallsOf(MessageType), MessageType, Seq(Id))
  /\ Maps(ResultsOf(MessageType), MessageType, Seq(Report))
<1>1. ASSUME NEW m \in MessageType
      PROVE  SpokenIn(m) \in Seq(Utterance) /\ CallsIn(m) \in Seq(Id) /\ ResultsIn(m) \in Seq(Report)
  <2>1. Words(m.content) \in Seq(Word)
    <3>1. m.content \in Seq(PartType) /\ Worded(PartType)
      BY DEF MessageType, Worded, PartType
    <3> QED
      BY <3>1, WordsType
  <2>2. IsTurn(m) => Spoken(m.role, Words(m.content)) \in Seq(Utterance)
    BY <2>1, SpokenType DEF IsTurn
  <2>3. CallIds(m.calls) \in Seq(Id)
    <3>1. m.calls \in Seq(CallType) /\ \A c \in CallType : c.id \in Id
      BY DEF MessageType, CallType
    <3> QED
      BY <3>1, CallIdsType
  <2>4. <<m.id, Words(m.content)>> \in Report
    BY <2>1 DEF MessageType, Report
  <2>5. ResultsIn(m) \in Seq(Report)
    BY <2>4, OnlyType DEF ResultsIn
  <2> QED
    BY <2>2, <2>3, <2>5, EmptySeq DEF SpokenIn, CallsIn
<1> QED
  BY <1>1 DEF Maps, SpokenOf, CallsOf, ResultsOf

\* The words and images that are seen of a turn.
SeenIn(b) == IF b.type \in {"text", "image"} THEN b.words ELSE <<>>
SeenOf(S) == [b \in S |-> SeenIn(b)]
SeenWords(s) == FlatMap(LAMBDA b : IF b.type \in {"text", "image"} THEN b.words ELSE <<>>, s)

\* The words that are seen are a concatenation,
LEMMA SeenWordsIs ==
  ASSUME NEW S, NEW s \in Seq(S)
  PROVE  SeenWords(s) = FlatOf(SeenOf(S), s)
<1>1. \A i \in DOMAIN s : s[i] \in S
  BY LenProperties, ElementOfSeq
<1>2. \A i \in DOMAIN s : SeenOf(S)[s[i]] = SeenIn(s[i])
  BY <1>1 DEF SeenOf
<1>3. Image(SeenOf(S), s) = [i \in DOMAIN s |-> SeenIn(s[i])]
  BY <1>2 DEF Image
<1>4. SeenWords(s) = FlattenSeq([i \in DOMAIN s |-> SeenIn(s[i])])
  BY DEF SeenWords, FlatMap, MapSeq, SeenIn
<1> QED
  BY <1>3, <1>4 DEF FlatOf

\* of a function to texts,
LEMMA SeenMap == Maps(SeenOf(BlockType), BlockType, Seq(Word))
<1>1. \A b \in BlockType : SeenIn(b) \in Seq(Word)
  BY EmptySeq DEF SeenIn, BlockType
<1> QED
  BY <1>1 DEF Maps, SeenOf

\* and all words where every block is seen.
LEMMA SeenAll ==
  ASSUME NEW s \in Seq(Seen)
  PROVE  SeenWords(s) = Words(s)
<1>1. \A b \in Seen : SeenIn(b) = b.words
  BY DEF SeenIn, Seen
<1>2. SeenOf(Seen) = WordsOf(Seen)
  BY <1>1 DEF SeenOf, WordsOf
<1> QED
  BY <1>2, SeenWordsIs, WordsIs

\* The parts that are made of a turn have its words.
LEMMA PartsWords ==
  ASSUME NEW s \in Seq(BlockType)
  PROVE  Words(Parts(s)) = SeenWords(s)
<1> DEFINE f == PartOf(BlockType)
           g == WordsOf(PartType)
           h == SeenOf(BlockType)
<1>1. Maps(f, BlockType, Seq(PartType)) /\ Maps(h, BlockType, Seq(Word))
  BY PartMap, SeenMap
<1>2. Maps(g, PartType, Seq(Word))
  <2>1. Worded(PartType)
    BY DEF Worded, PartType
  <2> QED
    BY <2>1, WordsMap
<1>3. ASSUME NEW b \in BlockType PROVE FlatOf(g, f[b]) = h[b]
  <2> DEFINE p == Part(b.type, b.words)
  <2>1. f[b] = Only(Shown(b), p) /\ h[b] = SeenIn(b)
    BY DEF PartOf, SeenOf
  <2>2. CASE Shown(b)
    <3>1. p \in PartType /\ p.words = b.words
      BY <2>2 DEF Shown, Part, PartType, BlockType
    <3> HIDE DEF p
    <3>2. FlatOf(g, <<p>>) = g[p] /\ g[p] = b.words
      BY <1>2, <3>1, FlatOne DEF WordsOf
    <3>3. SeenIn(b) = b.words
      BY <2>2 DEF Shown, SeenIn
    <3> HIDE DEF f, g, h
    <3> QED
      BY <2>1, <2>2, <3>2, <3>3 DEF Only
  <2>3. CASE ~Shown(b)
    <3>1. SeenIn(b) = <<>>
      BY <2>3 DEF Shown, SeenIn
    <3> HIDE DEF f, g, h, p
    <3> QED
      BY <2>1, <2>3, <3>1, FlatNone DEF Only
  <2> QED
    BY <2>2, <2>3
<1>4. Parts(s) = FlatOf(f, s) /\ SeenWords(s) = FlatOf(h, s)
  BY PartsIs, SeenWordsIs
<1>5. Words(Parts(s)) = FlatOf(g, Parts(s))
  BY PartsType, WordsIs
<1> HIDE DEF f, g, h
<1>6. FlatOf(g, FlatOf(f, s)) = FlatOf(h, s)
  BY <1>1, <1>2, <1>3, FlatFusion
<1> QED
  BY <1>4, <1>5, <1>6

\* What a sequence of messages holds.
Holds(ms, spoken, calls, results) ==
  /\ FlatMap(SpokenIn, ms) = spoken
  /\ FlatMap(CallsIn, ms) = calls
  /\ FlatMap(ResultsIn, ms) = results

\* No messages hold nothing,
LEMMA HoldsNone == Holds(<<>>, <<>>, <<>>, <<>>)
<1> DEFINE S == {}
<1>1. <<>> \in Seq(S)
  BY EmptySeq
<1> HIDE DEF S
<1> QED
  BY <1>1, HeldIs, FlatNone DEF Holds

\* one message holds what it does,
LEMMA HoldsOne ==
  ASSUME NEW m \in MessageType
  PROVE  Holds(<<m>>, SpokenIn(m), CallsIn(m), ResultsIn(m))
<1> DEFINE s == <<m>>
<1>1. s \in Seq(MessageType)
  OBVIOUS
<1>2. /\ FlatOf(SpokenOf(MessageType), <<m>>) = SpokenOf(MessageType)[m]
      /\ FlatOf(CallsOf(MessageType), <<m>>) = CallsOf(MessageType)[m]
      /\ FlatOf(ResultsOf(MessageType), <<m>>) = ResultsOf(MessageType)[m]
  BY HeldMaps, FlatOne
<1>3. /\ SpokenOf(MessageType)[m] = SpokenIn(m)
      /\ CallsOf(MessageType)[m] = CallsIn(m)
      /\ ResultsOf(MessageType)[m] = ResultsIn(m)
  BY DEF SpokenOf, CallsOf, ResultsOf
<1> HIDE DEF s
<1>4. /\ FlatMap(SpokenIn, s) = FlatOf(SpokenOf(MessageType), s)
      /\ FlatMap(CallsIn, s) = FlatOf(CallsOf(MessageType), s)
      /\ FlatMap(ResultsIn, s) = FlatOf(ResultsOf(MessageType), s)
  BY <1>1, HeldIs
<1> QED
  BY <1>2, <1>3, <1>4 DEF Holds, s

\* and a concatenation what both parts do, in order.
LEMMA HoldsBoth ==
  ASSUME NEW a \in Seq(MessageType), NEW b \in Seq(MessageType),
         NEW sa, NEW ca, NEW ra, NEW sb, NEW cb, NEW rb,
         Holds(a, sa, ca, ra), Holds(b, sb, cb, rb)
  PROVE  Holds(a \o b, sa \o sb, ca \o cb, ra \o rb)
<1> DEFINE f == SpokenOf(MessageType)
           g == CallsOf(MessageType)
           h == ResultsOf(MessageType)
           ab == a \o b
<1>1. ab \in Seq(MessageType)
  BY ConcatProperties
<1>2. /\ Maps(f, MessageType, Seq(Utterance)) /\ Maps(g, MessageType, Seq(Id))
      /\ Maps(h, MessageType, Seq(Report))
  BY HeldMaps
<1>3. /\ FlatMap(SpokenIn, a) = FlatOf(f, a) /\ FlatMap(SpokenIn, b) = FlatOf(f, b)
      /\ FlatMap(CallsIn, a) = FlatOf(g, a) /\ FlatMap(CallsIn, b) = FlatOf(g, b)
      /\ FlatMap(ResultsIn, a) = FlatOf(h, a) /\ FlatMap(ResultsIn, b) = FlatOf(h, b)
  BY HeldIs
<1> HIDE DEF ab
<1>4. /\ FlatMap(SpokenIn, ab) = FlatOf(f, ab) /\ FlatMap(CallsIn, ab) = FlatOf(g, ab)
      /\ FlatMap(ResultsIn, ab) = FlatOf(h, ab)
  BY <1>1, HeldIs
<1> HIDE DEF f, g, h
<1>5. FlatOf(f, a \o b) = FlatOf(f, a) \o FlatOf(f, b)
  BY <1>2, FlatConcat
<1>6. FlatOf(g, a \o b) = FlatOf(g, a) \o FlatOf(g, b)
  BY <1>2, FlatConcat
<1>7. FlatOf(h, a \o b) = FlatOf(h, a) \o FlatOf(h, b)
  BY <1>2, FlatConcat
<1> QED
  BY <1>3, <1>4, <1>5, <1>6, <1>7 DEF Holds, ab

\* The results of a turn, as messages.
ToolMessage == {m \in MessageType : m.role = "tool"}

\* They hold the results, and nothing else.
LEMMA ResultsHold ==
  ASSUME NEW said \in UserTurn \cup ReplyTurn
  PROVE  /\ ToolResults(said.blocks) \in Seq(ToolMessage)
         /\ Holds(ToolResults(said.blocks), <<>>, <<>>, ResultsBy(said))
<1> DEFINE blocks == said.blocks
           results == OfType("tool_result", blocks)
           n == Len(results)
           rs == ToolResults(blocks)
           report == [m \in ToolMessage |-> <<m.id, Words(m.content)>>]
<1>1. blocks \in Seq(BlockType)
  BY TurnsAreSaid DEF SaidType
<1>2. /\ results \in Seq(BlockType) /\ rs \in Seq(Voiced) /\ Len(rs) = n
      /\ \A i \in 1 .. n : rs[i] = Result(results[i])
  BY <1>1, ToolResultsAre
<1>3. n \in Nat /\ DOMAIN results = 1 .. n /\ \A i \in 1 .. n : results[i] \in BlockType
  BY <1>2, LenProperties, ElementOfSeq
<1> HIDE DEF results, rs, n
<1>4. rs \in Seq(ToolMessage)
  <2>1. \A i \in 1 .. Len(rs) : rs[i] \in ToolMessage
    <3>1. TAKE i \in 1 .. Len(rs)
    <3>2. rs[i] \in Voiced /\ rs[i].role = "tool"
      BY <1>2, ElementOfSeq DEF Result
    <3> QED
      BY <3>2 DEF Voiced, ToolMessage
  <2> QED
    BY <1>2, <2>1, SeqOfElements
<1>5. ASSUME NEW m \in ToolMessage
      PROVE  /\ SpokenIn(m) = <<>> /\ CallsIn(m) = <<>>
             /\ ResultsIn(m) = <<<<m.id, Words(m.content)>>>>
             /\ <<m.id, Words(m.content)>> \in Report
  <2>1. m \in MessageType /\ m.role = "tool"
    BY DEF ToolMessage
  <2>2. Words(m.content) \in Seq(Word)
    <3>1. m.content \in Seq(PartType) /\ Worded(PartType)
      BY <2>1 DEF MessageType, Worded, PartType
    <3> QED
      BY <3>1, WordsType
  <2> QED
    BY <2>1, <2>2 DEF SpokenIn, CallsIn, IsTurn, ResultsIn, Only, MessageType, Report
<1>6. FlatMap(SpokenIn, rs) = <<>> /\ FlatMap(CallsIn, rs) = <<>>
  <2> DEFINE f == SpokenOf(ToolMessage)
             g == CallsOf(ToolMessage)
  <2>1. \A m \in ToolMessage : f[m] = <<>> /\ g[m] = <<>>
    BY <1>5 DEF SpokenOf, CallsOf
  <2>2. Maps(f, ToolMessage, Seq({})) /\ Maps(g, ToolMessage, Seq({}))
    BY <1>5, EmptySeq DEF Maps, SpokenOf, CallsOf
  <2>3. FlatMap(SpokenIn, rs) = FlatOf(f, rs) /\ FlatMap(CallsIn, rs) = FlatOf(g, rs)
    BY <1>4, HeldIs
  <2> DEFINE U == {}
  <2>4. Maps(f, ToolMessage, Seq(U)) /\ Maps(g, ToolMessage, Seq(U))
    BY <2>2
  <2> HIDE DEF f, g, U
  <2> QED
    BY <1>4, <2>1, <2>3, <2>4, FlatNothing
<1>7. FlatMap(ResultsIn, rs) = Image(report, rs)
  <2> DEFINE f == ResultsOf(ToolMessage)
  <2>1. \A m \in ToolMessage : f[m] = <<report[m]>>
    BY <1>5 DEF ResultsOf
  <2>2. Maps(report, ToolMessage, Report)
    BY <1>5 DEF Maps
  <2>3. Maps(f, ToolMessage, Seq(Report))
    <3>1. \A x \in Report : <<x>> \in Seq(Report)
      OBVIOUS
    <3>2. \A m \in ToolMessage : ResultsIn(m) \in Seq(Report)
      BY <1>5, <3>1
    <3> QED
      BY <3>2 DEF Maps, ResultsOf
  <2>4. FlatMap(ResultsIn, rs) = FlatOf(f, rs)
    BY <1>4, HeldIs
  <2> HIDE DEF f, report
  <2> QED
    BY <1>4, <2>1, <2>2, <2>3, <2>4, FlatSingles
<1>8. Image(report, rs) = ResultsBy(said)
  <2>1. DOMAIN rs = 1 .. n /\ \A i \in 1 .. n : rs[i] \in ToolMessage
    BY <1>2, <1>4, LenProperties, ElementOfSeq
  <2>2. ASSUME NEW i \in 1 .. n
        PROVE  report[rs[i]] = <<results[i].id, results[i].words>>
    <3>1. Words(Text(results[i].words)) = results[i].words
      BY <1>3, TextIs DEF BlockType
    <3> QED
      BY <1>2, <2>1, <3>1 DEF Result
  <2>3. Image(report, rs) = [i \in 1 .. n |-> report[rs[i]]]
    BY <2>1 DEF Image
  <2>4. ResultsBy(said) = [i \in 1 .. n |-> <<results[i].id, results[i].words>>]
    BY <1>3 DEF ResultsBy, MapSeq, results
  <2> HIDE DEF report
  <2> QED
    BY <2>2, <2>3, <2>4
<1> QED
  BY <1>4, <1>6, <1>7, <1>8 DEF Holds, rs

\* The calls of a turn, by their ids.
LEMMA CallsKept ==
  ASSUME NEW said, said.blocks \in Seq(BlockType)
  PROVE  CallIds(ToolCalls(said.blocks)) = CallsBy(said)
<1> DEFINE blocks == said.blocks
           calls == OfType("tool_use", blocks)
           n == Len(calls)
           tc == ToolCalls(blocks)
<1>1. /\ calls \in Seq(BlockType) /\ tc \in Seq(CallType) /\ Len(tc) = n
      /\ \A i \in 1 .. n : tc[i] = [id |-> calls[i].id, args |-> calls[i].words]
  BY ToolCallsAre
<1>2. n \in Nat /\ DOMAIN calls = 1 .. n /\ DOMAIN tc = 1 .. n
  <2>1. Len(calls) \in Nat /\ DOMAIN calls = 1 .. Len(calls)
    BY <1>1, LenProperties
  <2>2. DOMAIN tc = 1 .. Len(tc)
    BY <1>1, LenProperties
  <2> QED
    BY <1>1, <2>1, <2>2
<1> HIDE DEF calls, n, tc
<1>3. CallIds(tc) = [i \in 1 .. n |-> tc[i].id]
  BY <1>2 DEF CallIds, MapSeq
<1>4. CallIds(calls) = [i \in 1 .. n |-> calls[i].id]
  BY <1>2 DEF CallIds, MapSeq
<1>5. \A i \in 1 .. n : tc[i].id = calls[i].id
  BY <1>1
<1>6. CallIds(tc) = CallIds(calls)
  BY <1>3, <1>4, <1>5
<1> QED
  BY <1>6 DEF CallsBy, Calls, calls, tc

\* A list of no calls, of no words.
LEMMA NoneHeld ==
  /\ CallIds(<<>>) = <<>>
  /\ \A role : Spoken(role, <<>>) = <<>>
<1> DEFINE none == <<>>
<1>1. DOMAIN none = {} /\ none = [i \in {} |-> none[i]]
  OBVIOUS
<1>2. \A r \in {none} : [i \in DOMAIN r |-> r[i].id] = none
  BY <1>1
<1>3. \A role : [i \in DOMAIN none |-> <<role, none[i]>>] = none
  BY <1>1
<1> HIDE DEF none
<1>4. CallIds(none) = none
  BY <1>2 DEF CallIds, MapSeq
<1>5. \A role : Spoken(role, none) = none
  BY <1>3 DEF Spoken, MapSeq
<1> QED
  BY <1>4, <1>5 DEF none

\* A turn of plain text holds what its message does,
LEMMA TextTurnHolds ==
  ASSUME NEW said \in UserTurn, said.form = "text"
  PROVE  Holds(Turn(said), SpokenBy(said), CallsBy(said), ResultsBy(said))
<1> DEFINE blocks == said.blocks
           w == Words(blocks)
           m == Message(said.role, Text(w))
<1>1. blocks \in Seq(Seen) /\ said.role = "user"
  BY DEF UserTurn
<1>2. w = SeenWords(blocks) /\ w \in Seq(Word)
  <2>1. Worded(Seen)
    BY DEF Worded, Seen, BlockType
  <2> QED
    BY <1>1, <2>1, SeenAll, WordsType
<1>3. Turn(said) = <<m>> /\ Turn(said) \in Seq(Voiced)
  BY TurnIs, TurnType, TurnsAreSaid
<1>4. m.role = "user" /\ m.calls = <<>> /\ Words(m.content) = w
  <2>1. Words(Text(w)) = w
    BY <1>2, TextIs
  <2> HIDE DEF w
  <2> QED
    BY <1>1, <2>1 DEF Message
<1> HIDE DEF m
<1>5. m \in MessageType
  <2>1. Turn(said)[1] = m /\ Len(Turn(said)) = 1
    BY <1>3
  <2>2. Turn(said)[1] \in Voiced
    BY <1>3, <2>1, ElementOfSeq
  <2> QED
    BY <2>1, <2>2 DEF Voiced
<1>6. SpokenIn(m) = SpokenBy(said)
  BY <1>1, <1>2, <1>4 DEF SpokenIn, IsTurn, SpokenBy, SeenWords
<1>7. CallsIn(m) = CallsBy(said)
  <2>1. OfType("tool_use", blocks) = <<>>
    <3>1. \A b \in Seen : b.type # "tool_use"
      BY DEF Seen
    <3> QED
      BY <1>1, <3>1, OfTypeNone
  <2>2. CallsBy(said) = <<>>
    BY <2>1, NoneHeld DEF CallsBy, Calls
  <2>3. CallsIn(m) = <<>>
    BY <1>4, NoneHeld DEF CallsIn
  <2> QED
    BY <2>2, <2>3
<1>8. ResultsIn(m) = ResultsBy(said)
  <2>1. OfType("tool_result", blocks) = <<>>
    <3>1. \A b \in Seen : b.type # "tool_result"
      BY DEF Seen
    <3> QED
      BY <1>1, <3>1, OfTypeNone
  <2>2. ResultsBy(said) = <<>>
    <3> DEFINE none == <<>>
    <3>1. DOMAIN none = {} /\ none = [i \in {} |-> none[i]]
      OBVIOUS
    <3>2. [i \in DOMAIN none |-> <<none[i].id, none[i].words>>] = none
      BY <3>1
    <3>3. OfType("tool_result", blocks) = none
      BY <2>1
    <3> HIDE DEF none, blocks
    <3>4. ResultsBy(said) = none
      BY <3>2, <3>3 DEF ResultsBy, MapSeq, blocks
    <3> QED
      BY <3>4 DEF none
  <2>3. ResultsIn(m) = <<>>
    BY <1>4 DEF ResultsIn, Only
  <2> QED
    BY <2>2, <2>3
<1> QED
  BY <1>3, <1>5, <1>6, <1>7, <1>8, HoldsOne

\* and what a turn of blocks says beside its results is held by its message.
LEMMA TalkHolds ==
  ASSUME NEW said \in UserTurn \cup ReplyTurn, said.form # "text"
  PROVE  Holds(Talk(said), SpokenBy(said), CallsBy(said), <<>>)
<1> DEFINE blocks == said.blocks
           rest == Rest(said)
           parts == Parts(blocks)
<1>1. blocks \in Seq(BlockType) /\ said.role \in {"user", "assistant"}
  BY TurnsAreSaid DEF SaidType
<1>2. parts \in Seq(PartType) /\ Words(parts) = SeenWords(blocks)
  BY <1>1, PartsType, PartsWords
<1>3. SpokenBy(said) = Spoken(said.role, Words(parts))
  BY <1>2 DEF SpokenBy, SeenWords
<1>4. CallIds(ToolCalls(blocks)) = CallsBy(said)
  BY <1>1, CallsKept
<1>5. Talk(said) \in Seq(Voiced)
  BY TurnsAreSaid, TurnType
<1> HIDE DEF parts
<1>6. CASE Speaks(said)
  <2>1. Talk(said) = <<rest>>
    BY <1>6 DEF Talk
  <2>2. rest \in MessageType
    <3> HIDE DEF rest
    <3>1. Talk(said)[1] = rest /\ Len(Talk(said)) = 1
      BY <2>1
    <3>2. Talk(said)[1] \in Voiced
      BY <1>5, <3>1, ElementOfSeq
    <3> QED
      BY <3>1, <3>2 DEF Voiced
  <2>3. /\ rest.role = said.role /\ rest.calls = ToolCalls(blocks)
        /\ Words(rest.content) = Words(parts)
    <3>1. rest.content = PartsToContent(parts)
      BY DEF Rest, parts
    <3>2. Words(PartsToContent(parts)) = Words(parts)
      BY <1>2, ContentIs
    <3> QED
      BY <3>1, <3>2 DEF Rest
  <2> HIDE DEF rest, blocks
  <2>4. SpokenIn(rest) = SpokenBy(said)
    BY <1>1, <1>3, <2>3 DEF SpokenIn, IsTurn
  <2>5. CallsIn(rest) = CallsBy(said)
    BY <1>1, <1>4, <2>3 DEF CallsIn, IsTurn
  <2>6. ResultsIn(rest) = <<>>
    BY <1>1, <2>3 DEF ResultsIn, Only
  <2> QED
    BY <2>1, <2>2, <2>4, <2>5, <2>6, HoldsOne
<1>7. CASE ~Speaks(said)
  <2>1. ToolCalls(blocks) = <<>> /\ ~HasContent(parts)
    BY <1>7 DEF Speaks, parts
  <2>2. Talk(said) = <<>>
    BY <1>7 DEF Talk
  <2>3. Words(parts) = <<>>
    <3> DEFINE S == {p \in PartType : p.words = <<>>}
    <3>1. \A i \in 1 .. Len(parts) : parts[i] \in S
      BY <1>2, <2>1, LenProperties, ElementOfSeq DEF HasContent
    <3>2. \A p \in S : p.words = <<>>
      OBVIOUS
    <3> HIDE DEF S
    <3>3. parts \in Seq(S)
      BY <1>2, <3>1, SeqOfElements
    <3> QED
      BY <3>2, <3>3, WordsNone
  <2>4. SpokenBy(said) = <<>>
    BY <1>3, <2>3, NoneHeld
  <2>5. CallsBy(said) = <<>>
    BY <1>4, <2>1, NoneHeld
  <2> QED
    BY <2>2, <2>4, <2>5, HoldsNone
<1> QED
  BY <1>6, <1>7

\* The types of what messages hold.
LEMMA HoldsType ==
  ASSUME NEW ms \in Seq(MessageType), NEW s, NEW c, NEW r, Holds(ms, s, c, r)
  PROVE  s \in Seq(Utterance) /\ c \in Seq(Id) /\ r \in Seq(Report)
<1>1. /\ FlatOf(SpokenOf(MessageType), ms) \in Seq(Utterance)
      /\ FlatOf(CallsOf(MessageType), ms) \in Seq(Id)
      /\ FlatOf(ResultsOf(MessageType), ms) \in Seq(Report)
  BY HeldMaps, FlatType
<1> QED
  BY <1>1, HeldIs DEF Holds

\* Every turn becomes messages that hold what it does.
LEMMA TurnHolds ==
  ASSUME NEW said \in UserTurn \cup ReplyTurn
  PROVE  /\ Turn(said) \in Seq(MessageType)
         /\ Holds(Turn(said), SpokenBy(said), CallsBy(said), ResultsBy(said))
<1>1. Turn(said) \in Seq(Voiced) /\ Talk(said) \in Seq(Voiced)
  BY TurnsAreSaid, TurnType
<1>2. \A s \in Seq(Voiced) : s \in Seq(MessageType)
  <2>1. Voiced \subseteq MessageType
    BY DEF Voiced
  <2> QED
    BY <2>1, SeqMonotonic
<1>3. CASE said.form = "text"
  <2>1. said \in UserTurn
    BY <1>3 DEF ReplyTurn
  <2> QED
    BY <1>1, <1>2, <1>3, <2>1, TextTurnHolds
<1>4. CASE said.form # "text"
  <2> DEFINE rs == ToolResults(said.blocks)
             talk == Talk(said)
  <2>1. Turn(said) = rs \o talk
    BY <1>4, TurnIs
  <2>2. rs \in Seq(ToolMessage) /\ Holds(rs, <<>>, <<>>, ResultsBy(said))
    BY ResultsHold
  <2>3. rs \in Seq(MessageType)
    <3>1. ToolMessage \subseteq MessageType
      BY DEF ToolMessage
    <3> QED
      BY <2>2, <3>1, SeqMonotonic
  <2>4. talk \in Seq(MessageType) /\ Holds(talk, SpokenBy(said), CallsBy(said), <<>>)
    BY <1>1, <1>2, <1>4, TalkHolds
  <2> HIDE DEF rs, talk
  <2>5. Holds(rs \o talk, <<>> \o SpokenBy(said), <<>> \o CallsBy(said), ResultsBy(said) \o <<>>)
    BY <2>2, <2>3, <2>4, HoldsBoth
  <2>6. /\ SpokenBy(said) \in Seq(Utterance) /\ CallsBy(said) \in Seq(Id)
        /\ ResultsBy(said) \in Seq(Report)
    BY <2>2, <2>3, <2>4, HoldsType
  <2>7. /\ <<>> \o SpokenBy(said) = SpokenBy(said) /\ <<>> \o CallsBy(said) = CallsBy(said)
        /\ ResultsBy(said) \o <<>> = ResultsBy(said)
    BY <2>6, ConcatEmptySeq
  <2> QED
    BY <1>1, <1>2, <2>1, <2>5, <2>7
<1> QED
  BY <1>3, <1>4

\* A history, turn by turn.
LEMMA BodyHolds ==
  ASSUME NEW messages \in Seq(UserTurn \cup ReplyTurn)
  PROVE  Holds(Body(messages), FlatMap(SpokenBy, messages), FlatMap(CallsBy, messages),
               FlatMap(ResultsBy, messages))
<1> DEFINE Turns == UserTurn \cup ReplyTurn
           t == TurnOf
           f == SpokenOf(MessageType)
           g == CallsOf(MessageType)
           h == ResultsOf(MessageType)
           s == SpokenByOf(Turns)
           c == CallsByOf(Turns)
           r == ResultsByOf(Turns)
<1>1. ASSUME NEW said \in Turns
      PROVE  /\ t[said] \in Seq(MessageType)
             /\ FlatOf(f, t[said]) = s[said] /\ FlatOf(g, t[said]) = c[said]
             /\ FlatOf(h, t[said]) = r[said]
             /\ s[said] \in Seq(Utterance) /\ c[said] \in Seq(Id) /\ r[said] \in Seq(Report)
  <2> DEFINE ms == Turn(said)
  <2>1. ms \in Seq(MessageType) /\ Holds(ms, SpokenBy(said), CallsBy(said), ResultsBy(said))
    BY TurnHolds
  <2>2. t[said] = ms /\ s[said] = SpokenBy(said) /\ c[said] = CallsBy(said)
        /\ r[said] = ResultsBy(said)
    BY DEF TurnOf, SpokenByOf, CallsByOf, ResultsByOf
  <2> HIDE DEF ms, f, g, h, s, c, r, t
  <2>3. /\ FlatMap(SpokenIn, ms) = FlatOf(f, ms) /\ FlatMap(CallsIn, ms) = FlatOf(g, ms)
        /\ FlatMap(ResultsIn, ms) = FlatOf(h, ms)
    BY <2>1, HeldIs DEF f, g, h
  <2>4. /\ SpokenBy(said) \in Seq(Utterance) /\ CallsBy(said) \in Seq(Id)
        /\ ResultsBy(said) \in Seq(Report)
    BY <2>1, HoldsType
  <2> QED
    BY <2>1, <2>2, <2>3, <2>4 DEF Holds
<1>2. Maps(f, MessageType, Seq(Utterance)) /\ Maps(g, MessageType, Seq(Id))
      /\ Maps(h, MessageType, Seq(Report))
  BY HeldMaps
<1>3. Maps(s, Turns, Seq(Utterance)) /\ Maps(c, Turns, Seq(Id)) /\ Maps(r, Turns, Seq(Report))
  <2>1. s \in [Turns -> Seq(Utterance)]
    BY <1>1 DEF SpokenByOf
  <2>2. c \in [Turns -> Seq(Id)]
    BY <1>1 DEF CallsByOf
  <2>3. r \in [Turns -> Seq(Report)]
    BY <1>1 DEF ResultsByOf
  <2> QED
    BY <2>1, <2>2, <2>3 DEF Maps
<1>4. Maps(t, Turns, Seq(MessageType))
  BY <1>1 DEF Maps, TurnOf
<1>5. Body(messages) = FlatOf(t, messages) /\ messages \in Seq(Turns)
  BY DEF Body
<1>6. /\ FlatMap(SpokenBy, messages) = FlatOf(s, messages)
      /\ FlatMap(CallsBy, messages) = FlatOf(c, messages)
      /\ FlatMap(ResultsBy, messages) = FlatOf(r, messages)
  <2> HIDE DEF Turns
  <2> QED
    BY <1>5, HeldByIs
<1> HIDE DEF f, g, h, s, c, r, t, Turns
<1> DEFINE b == FlatOf(t, messages)
<1>7. b \in Seq(MessageType)
  BY <1>4, <1>5, FlatType
<1>8. FlatOf(f, b) = FlatOf(s, messages)
  BY <1>1, <1>2, <1>3, <1>4, <1>5, FlatFusion
<1>9. FlatOf(g, b) = FlatOf(c, messages)
  BY <1>1, <1>2, <1>3, <1>4, <1>5, FlatFusion
<1>10. FlatOf(h, b) = FlatOf(r, messages)
  BY <1>1, <1>2, <1>3, <1>4, <1>5, FlatFusion
<1> HIDE DEF b
<1>11. /\ FlatMap(SpokenIn, b) = FlatOf(f, b) /\ FlatMap(CallsIn, b) = FlatOf(g, b)
       /\ FlatMap(ResultsIn, b) = FlatOf(h, b)
  BY <1>7, HeldIs DEF f, g, h
<1> QED
  BY <1>5, <1>6, <1>8, <1>9, <1>10, <1>11 DEF Holds, b

\* Neither the prompt nor the evidence is anything the agent's history holds.
Silent == {m \in MessageType : m.role = "system"}

\* Messages of the system hold nothing.
LEMMA SilentHolds ==
  ASSUME NEW s \in Seq(Silent)
  PROVE  s \in Seq(MessageType) /\ Holds(s, <<>>, <<>>, <<>>)
<1> DEFINE f == SpokenOf(Silent)
           g == CallsOf(Silent)
           h == ResultsOf(Silent)
           U == {}
<1>1. \A m \in Silent : SpokenIn(m) = <<>> /\ CallsIn(m) = <<>> /\ ResultsIn(m) = <<>>
  BY DEF Silent, SpokenIn, CallsIn, ResultsIn, IsTurn, Only
<1>2. \A m \in Silent : f[m] = <<>> /\ g[m] = <<>> /\ h[m] = <<>>
  BY <1>1 DEF SpokenOf, CallsOf, ResultsOf
<1>3. <<>> \in Seq(U)
  BY EmptySeq
<1> HIDE DEF U
<1>4. Maps(f, Silent, Seq(U)) /\ Maps(g, Silent, Seq(U)) /\ Maps(h, Silent, Seq(U))
  BY <1>1, <1>3 DEF Maps, SpokenOf, CallsOf, ResultsOf
<1>5. /\ FlatMap(SpokenIn, s) = FlatOf(f, s) /\ FlatMap(CallsIn, s) = FlatOf(g, s)
      /\ FlatMap(ResultsIn, s) = FlatOf(h, s)
  BY HeldIs
<1>6. s \in Seq(MessageType)
  <2>1. Silent \subseteq MessageType
    BY DEF Silent
  <2> QED
    BY <2>1, SeqMonotonic
<1> HIDE DEF f, g, h
<1>7. FlatOf(f, s) = <<>> /\ FlatOf(g, s) = <<>> /\ FlatOf(h, s) = <<>>
  BY <1>2, <1>4, FlatNothing
<1> QED
  BY <1>5, <1>6, <1>7 DEF Holds

\* The prompt, with and without the evidence, is messages of the system.
LEMMA PromptSilent ==
  ASSUME HistoryInv
  PROVE  Prompt \in Seq(Silent) /\ Prompt \o <<Context>> \in Seq(Silent)
<1> DEFINE c == <<Context>>
<1>1. Prompt \in Seq(Silent)
  <2>1. \A i \in 1 .. Len(Prompt) : Prompt[i] \in Silent
    BY PromptType, ElementOfSeq DEF Silent
  <2> QED
    BY <2>1, PromptType, SeqOfElements
<1>2. c \in Seq(Silent)
  <2>1. \A x \in Silent : <<x>> \in Seq(Silent)
    OBVIOUS
  <2>2. Context \in Silent
    BY ContextType DEF Silent
  <2> QED
    BY <2>1, <2>2
<1> HIDE DEF c
<1>3. Prompt \o c \in Seq(Silent)
  BY <1>1, <1>2, ConcatProperties
<1> QED
  BY <1>1, <1>3 DEF c

\* So a request holds what the history does, enriched or not.
LEMMA RequestHolds ==
  ASSUME HistoryInv, NEW p \in Seq(Silent)
  PROVE  Holds(p \o Body(history), FlatMap(SpokenBy, history), FlatMap(CallsBy, history),
               FlatMap(ResultsBy, history))
<1> DEFINE b == Body(history)
           s == FlatMap(SpokenBy, history)
           c == FlatMap(CallsBy, history)
           r == FlatMap(ResultsBy, history)
<1>1. b \in Seq(MessageType)
  <2>1. b \in Seq(Voiced) /\ Voiced \subseteq MessageType
    BY ConvertIs DEF HistoryInv, Voiced
  <2> QED
    BY <2>1, SeqMonotonic
<1>2. Holds(b, s, c, r)
  BY BodyHolds DEF HistoryInv
<1> HIDE DEF b, s, c, r
<1>3. p \in Seq(MessageType) /\ Holds(p, <<>>, <<>>, <<>>)
  BY SilentHolds
<1>4. Holds(p \o b, <<>> \o s, <<>> \o c, <<>> \o r)
  BY <1>1, <1>2, <1>3, HoldsBoth
<1>5. s \in Seq(Utterance) /\ c \in Seq(Id) /\ r \in Seq(Report)
  BY <1>1, <1>2, HoldsType
<1>6. <<>> \o s = s /\ <<>> \o c = c /\ <<>> \o r = r
  BY <1>5, ConcatEmptySeq
<1> QED
  BY <1>4, <1>6 DEF b, s, c, r

\* What is sent on holds what the history does (convert_anthropic_to_openai).
LEMMA LosslessForward == HistoryInv /\ Forward => NothingLost'
<1> SUFFICES ASSUME HistoryInv, Forward PROVE NothingLost'
  OBVIOUS
<1> DEFINE s == FlatMap(SpokenBy, history)
           c == FlatMap(CallsBy, history)
           r == FlatMap(ResultsBy, history)
           b == Body(history)
<1>1. /\ turn' = "upstream" /\ UNCHANGED <<system, explorer, history, reply, stop>>
      /\ evidence' => request' = InjectEvidence(Convert(history))
      /\ ~evidence' => request' = Convert(history)
  BY ForwardIs
<1>2. /\ Prompt \in Seq(MessageType) /\ \A i \in 1 .. Len(Prompt) : Prompt[i].role = "system"
      /\ b \in Seq(Voiced) /\ Convert(history) = Prompt \o b
  BY PromptType, ConvertIs DEF HistoryInv
<1>3. Prompt \in Seq(Silent) /\ Prompt \o <<Context>> \in Seq(Silent)
  BY PromptSilent
<1>4. Holds(Prompt \o b, s, c, r) /\ Holds((Prompt \o <<Context>>) \o b, s, c, r)
  BY <1>3, RequestHolds
<1> HIDE DEF b
<1>5. InjectEvidence(Prompt \o b) = (Prompt \o <<Context>>) \o b
  BY <1>2, InjectIs
<1>6. Holds(request', s, c, r)
  <2> HIDE DEF s, c, r
  <2> QED
    BY <1>1, <1>2, <1>4, <1>5
<1>7. /\ FlatMap(SpokenBy, history') = s /\ FlatMap(CallsBy, history') = c
      /\ FlatMap(ResultsBy, history') = r
  BY <1>1
<1> HIDE DEF s, c, r
<1>8. /\ FlatMap(SpokenIn, request') = s /\ FlatMap(CallsIn, request') = c
      /\ FlatMap(ResultsIn, request') = r
  BY <1>6 DEF Holds
<1> QED
  BY <1>7, <1>8 DEF NothingLost

-----------------------------------------------------------------------------
\* A message whose calls are answered behind it, and a tool message that answers.
Answered(ms, i) ==
  /\ i + 1 .. i + Len(ms[i].calls) \subseteq DOMAIN ms
  /\ {ms[k].id : k \in i + 1 .. i + Len(ms[i].calls)}
       = {ms[i].calls[k].id : k \in DOMAIN ms[i].calls}
  /\ \A k \in i + 1 .. i + Len(ms[i].calls) : ms[k].role = "tool"

Replied(ms, i) ==
  \E j \in 1 .. i - 1 : ms[j].role = "assistant" /\ i \in j + 1 .. j + Len(ms[j].calls)

\* The same, for the answers and the calls by name.
LEMMA AnsweredBy ==
  ASSUME NEW ms, NEW i, NEW K, NEW calls,
         ms[i].calls = calls, K = i + 1 .. i + Len(calls), K \subseteq DOMAIN ms,
         {ms[k].id : k \in K} = {calls[k].id : k \in DOMAIN calls},
         \A k \in K : ms[k].role = "tool"
  PROVE  Answered(ms, i)
<1>1. K = i + 1 .. i + Len(ms[i].calls)
  OBVIOUS
<1>2. {ms[k].id : k \in K} = {ms[i].calls[k].id : k \in DOMAIN ms[i].calls}
  OBVIOUS
<1> QED
  BY <1>1, <1>2 DEF Answered

\* Legal, message by message.
LEMMA LegalIs ==
  ASSUME NEW ms
  PROVE  Legal(ms) <=>
           \A i \in DOMAIN ms :
             /\ ms[i].role = "assistant" /\ ms[i].calls # <<>> => Answered(ms, i)
             /\ ms[i].role = "tool" => Replied(ms, i)
  BY DEF Legal, Answered, Replied

\* No tool message and no call: nothing to answer.
LEMMA LegalPlain ==
  ASSUME NEW S, NEW ms \in Seq(S),
         \A m \in S : m.role # "tool" /\ (m.role = "assistant" => m.calls = <<>>)
  PROVE  Legal(ms)
<1>1. \A i \in DOMAIN ms : ms[i] \in S
  BY LenProperties, ElementOfSeq
<1> QED
  BY <1>1, LegalIs

\* What is legal is legal behind what is legal.
LEMMA LegalConcat ==
  ASSUME NEW a \in Seq(MessageType), NEW b \in Seq(MessageType), Legal(a), Legal(b)
  PROVE  Legal(a \o b)
<1> DEFINE ms == a \o b
           n == Len(a)
           m == Len(b)
<1>1. n \in Nat /\ m \in Nat /\ DOMAIN a = 1 .. n /\ DOMAIN b = 1 .. m
  BY LenProperties
<1>2. /\ ms \in Seq(MessageType) /\ Len(ms) = n + m
      /\ \A i \in 1 .. n + m : ms[i] = IF i <= n THEN a[i] ELSE b[i - n]
  BY ConcatProperties
<1>3. DOMAIN ms = 1 .. n + m
  BY <1>2, LenProperties
<1>4. \A i \in 1 .. n : a[i] \in MessageType /\ ms[i] = a[i]
  BY <1>1, <1>2, ElementOfSeq
<1>5. \A i \in 1 .. m : b[i] \in MessageType /\ ms[n + i] = b[i]
  BY <1>1, <1>2, ElementOfSeq
<1> HIDE DEF ms, n, m
<1>6. ASSUME NEW i \in 1 .. n
      PROVE  /\ ms[i].role = "assistant" /\ ms[i].calls # <<>> => Answered(ms, i)
             /\ ms[i].role = "tool" => Replied(ms, i)
  <2>1. i \in DOMAIN a /\ ms[i] = a[i]
    BY <1>1, <1>4
  <2>2. ASSUME Answered(a, i) PROVE Answered(ms, i)
    <3> DEFINE K == i + 1 .. i + Len(a[i].calls)
    <3>1. /\ K \subseteq 1 .. n /\ \A k \in K : a[k].role = "tool"
          /\ {a[k].id : k \in K} = {a[i].calls[k].id : k \in DOMAIN a[i].calls}
      BY <1>1, <2>2 DEF Answered
    <3>2. K = i + 1 .. i + Len(a[i].calls)
      OBVIOUS
    <3> HIDE DEF K
    <3>3. \A k \in K : ms[k] = a[k] /\ k \in 1 .. n + m
      <4>1. \A k \in 1 .. n : k \in 1 .. n + m
        BY <1>1
      <4> QED
        BY <1>4, <3>1, <4>1
    <3>4. {ms[k].id : k \in K} = {a[i].calls[k].id : k \in DOMAIN a[i].calls}
      BY <3>1, <3>3
    <3>5. ms[i].calls = a[i].calls /\ K \subseteq DOMAIN ms /\ \A k \in K : ms[k].role = "tool"
      BY <1>3, <2>1, <3>1, <3>3
    <3> QED
      BY <3>2, <3>4, <3>5, AnsweredBy
  <2>3. ASSUME Replied(a, i) PROVE Replied(ms, i)
    <3>1. PICK j \in 1 .. i - 1 : a[j].role = "assistant" /\ i \in j + 1 .. j + Len(a[j].calls)
      BY <2>3 DEF Replied
    <3>2. j \in 1 .. n
      BY <1>1, <3>1
    <3>3. ms[j] = a[j]
      BY <1>4, <3>2
    <3> QED
      BY <3>1, <3>3 DEF Replied
  <2> QED
    BY <2>1, <2>2, <2>3, LegalIs
<1>7. ASSUME NEW h \in 1 .. m
      PROVE  LET i == n + h
             IN /\ ms[i].role = "assistant" /\ ms[i].calls # <<>> => Answered(ms, i)
                /\ ms[i].role = "tool" => Replied(ms, i)
  <2> DEFINE i == n + h
  <2>1. h \in DOMAIN b /\ ms[i] = b[h] /\ i \in Nat
    BY <1>1, <1>5
  <2>2. ASSUME Answered(b, h) PROVE Answered(ms, i)
    <3> DEFINE c == Len(b[h].calls)
               K == h + 1 .. h + c
               L == i + 1 .. i + c
    <3>0. c \in Nat
      <4>1. b[h].calls \in Seq(CallType)
        BY <1>5 DEF MessageType
      <4> QED
        BY <4>1, LenProperties
    <3>1. /\ K \subseteq 1 .. m /\ \A k \in K : b[k].role = "tool"
          /\ {b[k].id : k \in K} = {b[h].calls[k].id : k \in DOMAIN b[h].calls}
      BY <1>1, <2>2 DEF Answered
    <3>2. L = i + 1 .. i + Len(b[h].calls) /\ ms[i].calls = b[h].calls
      BY <2>1
    <3> HIDE DEF c
    <3>3. \A l \in L : l - n \in K /\ l = n + (l - n)
      BY <1>1, <3>0
    <3>4. \A k \in K : n + k \in L
      BY <1>1, <3>0
    <3> HIDE DEF K, L, i
    <3>5. \A k \in K : ms[n + k] = b[k] /\ n + k \in 1 .. n + m
      BY <1>1, <1>5, <3>1
    <3>6. \A l \in L : ms[l] = b[l - n] /\ l \in 1 .. n + m
      BY <3>3, <3>5
    <3>7. {ms[l].id : l \in L} = {b[k].id : k \in K}
      BY <3>3, <3>4, <3>5, <3>6
    <3>8. \A l \in L : ms[l].role = "tool"
      BY <3>1, <3>3, <3>6
    <3>9. L \subseteq DOMAIN ms
      BY <1>3, <3>6
    <3>10. {ms[l].id : l \in L} = {b[h].calls[k].id : k \in DOMAIN b[h].calls}
      BY <3>1, <3>7
    <3> QED
      BY <3>2, <3>8, <3>9, <3>10, AnsweredBy
  <2>3. ASSUME Replied(b, h) PROVE Replied(ms, i)
    <3>1. PICK j \in 1 .. h - 1 : b[j].role = "assistant" /\ h \in j + 1 .. j + Len(b[j].calls)
      BY <2>3 DEF Replied
    <3>2. j \in 1 .. m
      BY <1>1, <3>1
    <3>3. ms[n + j] = b[j]
      BY <1>5, <3>2
    <3>4. Len(b[j].calls) \in Nat
      <4>1. b[j].calls \in Seq(CallType)
        BY <1>5, <3>2 DEF MessageType
      <4> QED
        BY <4>1, LenProperties
    <3> DEFINE l == n + j
               c == Len(b[j].calls)
    <3> HIDE DEF c
    <3>5. l \in 1 .. i - 1 /\ i \in l + 1 .. l + c
      <4>1. j \in Nat /\ h \in Nat /\ c \in Nat /\ 1 <= j /\ j <= h - 1 /\ j + 1 <= h /\ h <= j + c
        BY <1>1, <3>1, <3>4 DEF c
      <4> QED
        BY <1>1, <4>1
    <3> HIDE DEF i
    <3>6. ms[l].role = "assistant" /\ Len(ms[l].calls) = c
      BY <3>1, <3>3 DEF c
    <3> HIDE DEF l
    <3> QED
      BY <3>5, <3>6 DEF Replied
  <2> QED
    BY <2>1, <2>2, <2>3, LegalIs
<1>8. \A i \in 1 .. n + m : i \in 1 .. n \/ \E h \in 1 .. m : i = n + h
  <2>1. TAKE i \in 1 .. n + m
  <2>2. CASE i <= n
    BY <1>1, <2>2
  <2>3. CASE i > n
    <3>1. i - n \in 1 .. m /\ i = n + (i - n)
      BY <1>1, <2>3
    <3> QED
      BY <3>1
  <2> QED
    BY <1>1, <2>2, <2>3
<1> DEFINE Fine(i) ==
             /\ ms[i].role = "assistant" /\ ms[i].calls # <<>> => Answered(ms, i)
             /\ ms[i].role = "tool" => Replied(ms, i)
<1>9. Legal(ms)
  <2>1. \A i \in 1 .. n : Fine(i)
    BY <1>6
  <2>2. \A h \in 1 .. m : Fine(n + h)
    BY <1>7
  <2>3. \A i \in 1 .. n + m : Fine(i)
    <3> HIDE DEF Fine
    <3> QED
      BY <1>8, <2>1, <2>2
  <2> QED
    BY <1>3, <2>3, LegalIs
<1> QED
  BY <1>9 DEF ms

\* A message and the answers to its calls.
LEMMA LegalBatch ==
  ASSUME NEW m \in MessageType, NEW rs \in Seq(ToolMessage),
         m.role = "assistant", Len(rs) = Len(m.calls),
         {rs[k].id : k \in 1 .. Len(rs)} = {m.calls[k].id : k \in 1 .. Len(rs)}
  PROVE  Legal(<<m>> \o rs)
<1> DEFINE one == <<m>>
           ms == one \o rs
           n == Len(rs)
<1>1. n \in Nat /\ DOMAIN m.calls = 1 .. n
  <2>1. m.calls \in Seq(CallType)
    BY DEF MessageType
  <2> QED
    BY <2>1, LenProperties
<1>2. /\ one \in Seq(MessageType) /\ Len(one) = 1 /\ one[1] = m
  OBVIOUS
<1>3. rs \in Seq(MessageType) /\ \A k \in 1 .. n : rs[k].role = "tool"
  <2>1. ToolMessage \subseteq MessageType
    BY DEF ToolMessage
  <2>2. \A k \in 1 .. n : rs[k] \in ToolMessage
    BY ElementOfSeq
  <2> QED
    BY <2>1, <2>2, SeqMonotonic DEF ToolMessage
<1> HIDE DEF one
<1>4. /\ ms \in Seq(MessageType) /\ Len(ms) = 1 + n
      /\ \A i \in 1 .. 1 + n : ms[i] = IF i <= 1 THEN one[i] ELSE rs[i - 1]
  <2>1. \A p, q \in Seq(MessageType) :
          /\ p \o q \in Seq(MessageType) /\ Len(p \o q) = Len(p) + Len(q)
          /\ \A i \in 1 .. Len(p) + Len(q) : (p \o q)[i] = IF i <= Len(p) THEN p[i] ELSE q[i - Len(p)]
    BY ConcatProperties
  <2>2. /\ one \o rs \in Seq(MessageType) /\ Len(one \o rs) = Len(one) + Len(rs)
        /\ \A i \in 1 .. Len(one) + Len(rs) :
             (one \o rs)[i] = IF i <= Len(one) THEN one[i] ELSE rs[i - Len(one)]
    BY <1>2, <1>3, <2>1
  <2> QED
    BY <1>2, <2>2
<1>5. DOMAIN ms = 1 .. 1 + n
  BY <1>4, LenProperties
<1> HIDE DEF ms
<1>6. ms[1] = m /\ \A k \in 1 .. n : ms[1 + k] = rs[k]
  BY <1>1, <1>2, <1>4
<1> HIDE DEF n
<1>7. \A l \in 2 .. 1 + n : l - 1 \in 1 .. n /\ l = 1 + (l - 1) /\ l \in 1 .. 1 + n
  BY <1>1
<1>8. \A k \in 1 .. n : 1 + k \in 2 .. 1 + n
  BY <1>1
<1>9. \A l \in 2 .. 1 + n : ms[l] = rs[l - 1] /\ ms[l].role = "tool"
  BY <1>3, <1>6, <1>7
<1>10. {ms[l].id : l \in 2 .. 1 + n} = {rs[k].id : k \in 1 .. n}
  BY <1>6, <1>7, <1>8, <1>9
<1>11. Answered(ms, 1)
  <2>1. 1 + 1 .. 1 + Len(ms[1].calls) = 2 .. 1 + n
    BY <1>6 DEF n
  <2>2. {rs[k].id : k \in 1 .. n} = {ms[1].calls[k].id : k \in DOMAIN ms[1].calls}
    BY <1>1, <1>6 DEF n
  <2>3. 2 .. 1 + n \subseteq DOMAIN ms
    BY <1>5, <1>7
  <2> QED
    BY <1>9, <1>10, <2>1, <2>2, <2>3 DEF Answered
<1>12. \A i \in 2 .. 1 + n : Replied(ms, i)
  <2>1. TAKE i \in 2 .. 1 + n
  <2>2. 1 \in 1 .. i - 1 /\ i \in 1 + 1 .. 1 + Len(ms[1].calls)
    BY <1>1, <1>6 DEF n
  <2> QED
    BY <1>6, <2>2 DEF Replied
<1>13. \A i \in 1 .. 1 + n : i = 1 \/ i \in 2 .. 1 + n
  BY <1>1
<1>14. Legal(ms)
  BY <1>5, <1>6, <1>9, <1>11, <1>12, <1>13, LegalIs
<1> QED
  BY <1>14 DEF ms, one

-----------------------------------------------------------------------------
\* Messages that neither call nor answer.
Plain == {m \in MessageType : m.role # "tool" /\ m.calls = <<>>}

\* They are legal.
LEMMA PlainLegal ==
  ASSUME NEW ms \in Seq(Plain)
  PROVE  ms \in Seq(MessageType) /\ Legal(ms)
<1>1. Plain \subseteq MessageType
  BY DEF Plain
<1>2. ms \in Seq(MessageType)
  BY <1>1, SeqMonotonic
<1>3. \A m \in Plain : m.role # "tool" /\ (m.role = "assistant" => m.calls = <<>>)
  BY DEF Plain
<1>4. Legal(ms)
  BY <1>3, LegalPlain
<1> QED
  BY <1>2, <1>4

\* A sequence of length 0.
LEMMA NoneIsEmpty ==
  ASSUME NEW S, NEW s \in Seq(S)
  PROVE  Len(s) = 0 <=> s = <<>>
  BY EmptySeq, LenProperties

\* A turn without results is what it says,
LEMMA TurnOfTalk ==
  ASSUME NEW said \in UserTurn \cup ReplyTurn, said.form # "text",
         OfType("tool_result", said.blocks) = <<>>
  PROVE  Turn(said) = Talk(said)
<1> DEFINE results == ToolResults(said.blocks)
           talk == Talk(said)
<1>1. said \in SaidType /\ said.blocks \in Seq(BlockType)
  BY TurnsAreSaid DEF SaidType
<1>2. results \in Seq(Voiced) /\ Len(results) = Len(OfType("tool_result", said.blocks))
  BY <1>1, ToolResultsAre
<1>3. talk \in Seq(Voiced) /\ Turn(said) = results \o talk
  BY <1>1, TurnIs, TurnType
<1> HIDE DEF results, talk
<1>4. Len(results) = 0
  BY <1>2, EmptySeq
<1>5. results = <<>>
  BY <1>2, <1>4, NoneIsEmpty
<1>6. results \o talk = talk
  BY <1>3, <1>5, ConcatEmptySeq
<1> QED
  BY <1>3, <1>6 DEF talk

\* and without calls it says what is plain.
LEMMA TalkPlain ==
  ASSUME NEW said \in UserTurn \cup ReplyTurn, OfType("tool_use", said.blocks) = <<>>
  PROVE  Talk(said) \in Seq(Plain)
<1> DEFINE calls == ToolCalls(said.blocks)
           content == PartsToContent(Parts(said.blocks))
           rest == Rest(said)
<1>1. said \in SaidType /\ said.blocks \in Seq(BlockType) /\ said.role \in {"user", "assistant"}
  BY TurnsAreSaid DEF SaidType
<1>2. calls \in Seq(CallType) /\ Len(calls) = Len(OfType("tool_use", said.blocks))
  BY <1>1, ToolCallsAre
<1> HIDE DEF calls
<1>3. calls = <<>>
  BY <1>2, EmptySeq, NoneIsEmpty
<1>4. content \in Seq(PartType)
  BY <1>1, PartsType, ContentIs
<1> HIDE DEF content
<1>5. rest = [role |-> said.role, content |-> content, calls |-> calls, id |-> NoId]
  BY DEF Rest, calls, content
<1>6. rest \in Plain
  BY <1>1, <1>2, <1>3, <1>4, <1>5 DEF Plain, MessageType, Id
<1> HIDE DEF rest
<1>7. \A x \in Plain : <<x>> \in Seq(Plain)
  OBVIOUS
<1>8. <<rest>> \in Seq(Plain) /\ <<>> \in Seq(Plain)
  BY <1>6, <1>7, EmptySeq
<1> QED
  BY <1>8 DEF Talk, rest

\* A turn that neither calls nor answers is legal.
LEMMA TurnPlain ==
  ASSUME NEW said \in UserTurn \cup ReplyTurn,
         OfType("tool_use", said.blocks) = <<>>, OfType("tool_result", said.blocks) = <<>>
  PROVE  Turn(said) \in Seq(MessageType) /\ Legal(Turn(said))
<1>1. CASE said.form = "text"
  <2> DEFINE words == Words(said.blocks)
             m == Message(said.role, Text(words))
  <2>1. said \in SaidType /\ said.blocks \in Seq(BlockType) /\ said.role \in {"user", "assistant"}
    BY TurnsAreSaid DEF SaidType
  <2>2. words \in Seq(Word)
    <3>1. Worded(BlockType)
      BY DEF Worded, BlockType
    <3> QED
      BY <2>1, <3>1, WordsType
  <2> HIDE DEF words
  <2>3. Text(words) \in Seq(PartType)
    BY <2>2, TextIs
  <2>4. m \in Plain
    <3>1. <<>> \in Seq(CallType)
      BY EmptySeq
    <3> QED
      BY <2>1, <2>3, <3>1 DEF Message, Plain, MessageType, Id
  <2>5. Turn(said) = <<m>>
    BY <1>1, TurnIs DEF words
  <2> HIDE DEF m
  <2>6. \A x \in Plain : <<x>> \in Seq(Plain)
    OBVIOUS
  <2>7. Turn(said) \in Seq(Plain)
    BY <2>4, <2>5, <2>6
  <2> QED
    BY <2>7, PlainLegal
<1>2. CASE said.form # "text"
  BY <1>2, TurnOfTalk, TalkPlain, PlainLegal
<1> QED
  BY <1>1, <1>2

\* A turn more, behind a legal history.
LEMMA BodyAppend ==
  ASSUME NEW s \in Seq(UserTurn \cup ReplyTurn), NEW x \in UserTurn \cup ReplyTurn
  PROVE  /\ Body(Append(s, x)) = Body(s) \o Turn(x)
         /\ Body(s) \in Seq(MessageType) /\ Turn(x) \in Seq(MessageType)
<1>1. Voiced \subseteq MessageType
  BY DEF Voiced
<1>2. Body(s) \in Seq(MessageType)
  BY <1>1, ConvertIs, SeqMonotonic
<1>3. Turn(x) \in Seq(MessageType)
  BY TurnHolds
<1>4. Body(Append(s, x)) = Body(s) \o TurnOf[x]
  BY TurnMap, FlatAppend DEF Body
<1>5. TurnOf[x] = Turn(x)
  BY DEF TurnOf
<1> QED
  BY <1>2, <1>3, <1>4, <1>5

\* A legal turn leaves a legal history legal.
LEMMA LegalTurn ==
  ASSUME NEW s \in Seq(UserTurn \cup ReplyTurn), NEW x \in UserTurn \cup ReplyTurn,
         Legal(Body(s)), Legal(Turn(x))
  PROVE  Legal(Body(Append(s, x)))
  BY BodyAppend, LegalConcat

\* A turn with calls and the turn that answers them are legal together.
LEMMA LegalExchange ==
  ASSUME NEW x \in ReplyTurn, NEW y \in UserTurn, y.form # "text", NEW n,
         OfType("tool_use", y.blocks) = <<>>,
         Len(Calls(x)) = n, Len(OfType("tool_result", y.blocks)) = n,
         {OfType("tool_result", y.blocks)[k].id : k \in 1 .. n} = {Calls(x)[k].id : k \in 1 .. n}
  PROVE  Legal(Turn(x) \o Turn(y))
<1> DEFINE a == Turn(x)
           r == ToolResults(y.blocks)
           t == Talk(y)
           results == OfType("tool_result", y.blocks)
           calls == Calls(x)
           cs == ToolCalls(x.blocks)
<1>1. x.blocks \in Seq(ReplyBlock) /\ x.blocks \in Seq(BlockType) /\ y.blocks \in Seq(BlockType)
      /\ x.form # "text" /\ x.role = "assistant"
  BY TurnsAreSaid DEF ReplyTurn, SaidType
<1>2. OfType("tool_result", x.blocks) = <<>>
  <2>1. \A b \in ReplyBlock : b.type # "tool_result"
    BY DEF ReplyBlock
  <2> QED
    BY <1>1, <2>1, OfTypeNone
<1>3. a = Talk(x) /\ a \in Seq(MessageType)
  BY <1>1, <1>2, TurnOfTalk, TurnHolds
<1>4. t \in Seq(Plain)
  BY TalkPlain
<1>5. t \in Seq(MessageType) /\ Legal(t)
  BY <1>4, PlainLegal
<1>6. r \in Seq(ToolMessage) /\ Len(r) = n /\ \A k \in 1 .. n : r[k] = Result(results[k])
  BY <1>1, ResultsHold, ToolResultsAre
<1>7. r \in Seq(MessageType)
  <2>1. ToolMessage \subseteq MessageType
    BY DEF ToolMessage
  <2> QED
    BY <1>6, <2>1, SeqMonotonic
<1>8. Turn(y) = r \o t
  BY TurnIs
<1>9. /\ cs \in Seq(CallType) /\ Len(cs) = n
      /\ \A k \in 1 .. n : cs[k] = [id |-> calls[k].id, args |-> calls[k].words]
  BY <1>1, ToolCallsAre DEF Calls
<1>10. Legal(a \o r)
  <2>1. CASE cs = <<>>
    <3>1. n = 0
      BY <1>9, <2>1, EmptySeq
    <3>2. OfType("tool_use", x.blocks) = <<>>
      <4> DEFINE o == OfType("tool_use", x.blocks)
      <4>1. o \in Seq(Typed("tool_use", BlockType)) /\ Len(o) = 0
        BY <1>1, <3>1, OfTypeIn DEF Calls
      <4> HIDE DEF o
      <4>2. o = <<>>
        BY <4>1, NoneIsEmpty
      <4> QED
        BY <4>2 DEF o
    <3>3. a \in Seq(Plain)
      BY <1>3, <3>2, TalkPlain
    <3>4. r = <<>>
      <4> HIDE DEF r
      <4> QED
        BY <1>7, <1>6, <3>1, NoneIsEmpty
    <3> HIDE DEF a, r
    <3>5. a \o r = a
      BY <1>3, <3>4, ConcatEmptySeq
    <3> QED
      BY <3>3, <3>5, PlainLegal
  <2>2. CASE cs # <<>>
    <3> DEFINE m == Rest(x)
    <3>1. a = <<m>> /\ m.calls = cs /\ m.role = "assistant"
      BY <1>1, <1>3, <2>2 DEF Talk, Speaks, Rest
    <3>2. m \in MessageType
      <4> HIDE DEF a, m
      <4>1. 1 \in 1 .. Len(a) /\ a[1] = m
        BY <3>1
      <4> QED
        BY <1>3, <4>1, ElementOfSeq
    <3>3. \A k \in 1 .. n : r[k].id = results[k].id /\ m.calls[k].id = calls[k].id
      <4>1. \A k \in 1 .. n : Result(results[k]).id = results[k].id
        BY DEF Result
      <4> HIDE DEF m, r, results, cs, calls
      <4> QED
        BY <1>6, <1>9, <3>1, <4>1
    <3> HIDE DEF m, r, results, cs, calls, a
    <3>4. {results[k].id : k \in 1 .. n} = {calls[k].id : k \in 1 .. n}
      BY DEF results, calls
    <3>5. {r[k].id : k \in 1 .. n} = {m.calls[k].id : k \in 1 .. n}
      <4>1. {r[k].id : k \in 1 .. n} = {results[k].id : k \in 1 .. n}
        BY <3>3
      <4>2. {m.calls[k].id : k \in 1 .. n} = {calls[k].id : k \in 1 .. n}
        BY <3>3
      <4> QED
        BY <3>4, <4>1, <4>2
    <3>6. Legal(<<m>> \o r)
      BY <1>6, <1>9, <3>1, <3>2, <3>5, LegalBatch
    <3> QED
      BY <3>1, <3>6
  <2> QED
    BY <2>1, <2>2
<1> HIDE DEF a, r, t
<1>11. a \o r \in Seq(MessageType)
  BY <1>3, <1>7, ConcatProperties
<1>12. Legal((a \o r) \o t)
  BY <1>5, <1>10, <1>11, LegalConcat
<1>13. (a \o r) \o t = a \o (r \o t)
  BY <1>3, <1>5, <1>7, ConcatAssociative
<1> QED
  BY <1>8, <1>12, <1>13 DEF a

\* And so do the two turns of an exchange.
LEMMA LegalExchangeAppend ==
  ASSUME NEW s \in Seq(UserTurn \cup ReplyTurn), NEW x \in ReplyTurn, NEW y \in UserTurn,
         Legal(Body(s)), Legal(Turn(x) \o Turn(y))
  PROVE  Legal(Body(Append(Append(s, x), y)))
<1> DEFINE sx == Append(s, x)
           a == Body(s)
           b == Turn(x)
           c == Turn(y)
<1>1. sx \in Seq(UserTurn \cup ReplyTurn)
  BY LastOfAppend
<1>2. Body(sx) = a \o b /\ a \in Seq(MessageType) /\ b \in Seq(MessageType)
  BY BodyAppend
<1>3. Body(Append(sx, y)) = Body(sx) \o c /\ c \in Seq(MessageType)
  BY <1>1, BodyAppend
<1> HIDE DEF sx, a, b, c
<1>4. b \o c \in Seq(MessageType)
  BY <1>2, <1>3, ConcatProperties
<1>5. Legal(a) /\ Legal(b \o c)
  BY DEF a, b, c
<1>6. Legal(a \o (b \o c))
  BY <1>2, <1>4, <1>5, LegalConcat
<1>7. (a \o b) \o c = a \o (b \o c)
  BY <1>2, <1>3, ConcatAssociative
<1> QED
  BY <1>2, <1>3, <1>6, <1>7 DEF sx

-----------------------------------------------------------------------------
\* While the agent has calls to answer the last turn is the upstream's, behind what
\* is legal; at any other time the whole history is.
OpenHistory(messages) ==
  \E s \in Seq(UserTurn \cup ReplyTurn), x \in ReplyTurn :
    messages = Append(s, x) /\ Legal(Body(s))

LegalInv ==
  /\ UpstreamLegal
  /\ turn = "agent" /\ Pending => OpenHistory(history)
  /\ ~(turn = "agent" /\ Pending) => Legal(Body(history))

\* At the start there is nothing to answer.
LEMMA LegalInit == ConversationInit => LegalInv
<1> SUFFICES ASSUME ConversationInit PROVE LegalInv
  OBVIOUS
<1>1. Body(<<>>) = <<>>
  BY FlatNone DEF Body
<1>2. Legal(<<>>)
  BY PlainLegal, EmptySeq
<1>3. request = <<>> /\ history = <<>> /\ ~Pending
  BY DEF ConversationInit, Pending
<1> QED
  BY <1>1, <1>2, <1>3 DEF LegalInv, UpstreamLegal

\* What the user says neither calls nor answers.
LEMMA AskLegal ==
  ASSUME HistoryInv, LegalInv, Ask
  PROVE  LegalInv'
<1>1. PICK said \in Says : Send(said)
  BY DEF Ask
<1>2. said \in UserTurn /\ said.blocks \in Seq(BlockType)
  BY SaysAreTurns, TurnsAreSaid DEF SaidType
<1> DEFINE blocks == said.blocks
<1>3. blocks \in Seq(Seen)
  <2>1. \A i \in DOMAIN blocks : blocks[i].type \in {"text", "image"}
    BY ConversationAssumption
  <2>2. DOMAIN blocks = 1 .. Len(blocks) /\ \A i \in 1 .. Len(blocks) : blocks[i] \in BlockType
    BY <1>2, LenProperties, ElementOfSeq
  <2>3. \A i \in 1 .. Len(blocks) : blocks[i] \in Seen
    BY <2>1, <2>2 DEF Seen
  <2> HIDE DEF blocks
  <2>4. blocks \in Seq(BlockType)
    BY <1>2 DEF blocks
  <2> QED
    BY <2>3, <2>4, SeqOfElements
<1>4. OfType("tool_use", blocks) = <<>> /\ OfType("tool_result", blocks) = <<>>
  <2>1. \A b \in Seen : b.type # "tool_use" /\ b.type # "tool_result"
    BY DEF Seen
  <2> HIDE DEF blocks
  <2> QED
    BY <1>3, <2>1, OfTypeNone
<1>5. Legal(Turn(said))
  BY <1>2, <1>4, TurnPlain
<1>6. history \in Seq(UserTurn \cup ReplyTurn) /\ Legal(Body(history))
  BY DEF HistoryInv, LegalInv, Ask
<1>7. Legal(Body(Append(history, said)))
  BY <1>2, <1>5, <1>6, LegalTurn
<1>8. history' = Append(history, said) /\ turn' = "gateway" /\ request' = request
  BY <1>1 DEF Send
<1>9. Legal(request')
  BY <1>8 DEF LegalInv, UpstreamLegal
<1> QED
  BY <1>7, <1>8, <1>9 DEF LegalInv, UpstreamLegal

\* What the upstream answers calls only if the agent is told so.
LEMMA ReceiveLegal ==
  ASSUME HistoryInv, LegalInv, NEW r, NEW blocks \in Seq(ReplyBlock), NEW reason,
         Receive(r, blocks, reason),
         turn = "upstream", reason # "tool_use" => OfType("tool_use", blocks) = <<>>
  PROVE  LegalInv'
<1> DEFINE said == Said("assistant", "blocks", blocks)
<1>1. said \in ReplyTurn /\ said.blocks = blocks
  BY DEF Said, ReplyTurn
<1>2. /\ history \in Seq(UserTurn \cup ReplyTurn) /\ history' = Append(history, said)
      /\ stop' = reason /\ turn' = "agent" /\ request' = request
  BY DEF HistoryInv, Receive
<1> HIDE DEF said
<1>3. Legal(Body(history)) /\ Legal(request')
  BY <1>2 DEF LegalInv, UpstreamLegal
<1>4. CASE reason = "tool_use"
  <2>1. OpenHistory(history')
    BY <1>1, <1>2, <1>3 DEF OpenHistory
  <2> QED
    BY <1>2, <1>3, <1>4, <2>1 DEF LegalInv, UpstreamLegal, Pending
<1>5. CASE reason # "tool_use"
  <2>1. OfType("tool_result", blocks) = <<>>
    <3>1. \A b \in ReplyBlock : b.type # "tool_result"
      BY DEF ReplyBlock
    <3> QED
      BY <3>1, OfTypeNone
  <2>2. Legal(Turn(said))
    BY <1>1, <1>5, <2>1, TurnPlain
  <2>3. Legal(Body(history'))
    BY <1>1, <1>2, <1>3, <2>2, LegalTurn
  <2> QED
    BY <1>2, <1>3, <1>5, <2>3 DEF LegalInv, UpstreamLegal, Pending
<1> QED
  BY <1>4, <1>5

\* An answer without calls has no block that calls.
LEMMA QuietReply ==
  ASSUME NEW r \in ReplyType, r.calls = <<>>
  PROVE  OfType("tool_use", ReplyBlocks(r)) = <<>>
<1> DEFINE texts == TextsIn(r)
           a == Image(AsBlocks(PartType), texts)
           Quiet == {b \in BlockType : b.type # "tool_use"}
<1>1. texts \in Seq(PartType)
  BY KeptMap, FlatType DEF TextsIn, ReplyType
<1>2. Maps(AsBlocks(PartType), PartType, Quiet)
  <2>1. ASSUME NEW p \in PartType PROVE AsBlock(p) \in Quiet
    <3>1. p.words \in Seq(Word) /\ <<>> \in Seq(Word) /\ NoId \in Id
      BY EmptySeq DEF PartType, Id
    <3> QED
      BY <3>1 DEF AsBlock, Block, BlockType
  <2> QED
    BY <2>1 DEF Maps, AsBlocks
<1> HIDE DEF Quiet
<1>3. a \in Seq(Quiet)
  BY <1>1, <1>2, ImageIs DEF IsImage
<1> HIDE DEF a
<1>4. ReplyBlocks(r) = a \o Image(AsCalls, r.calls)
  BY ReplyBlocksAre DEF a
<1>5. Image(AsCalls, r.calls) = <<>>
  BY ImageNone
<1>6. ReplyBlocks(r) = a
  BY <1>3, <1>4, <1>5, ConcatEmptySeq
<1>7. \A b \in Quiet : b.type # "tool_use"
  BY DEF Quiet
<1> QED
  BY <1>3, <1>6, <1>7, OfTypeNone

\* An answer that is not streamed: finish_reason says whether it calls.
LEMMA ReplyLegal ==
  ASSUME HistoryInv, LegalInv, Reply
  PROVE  LegalInv'
<1>1. PICK r \in Replies : Receive(r, ReplyBlocks(r), MapFinish(r.finish))
  BY DEF Reply
<1>2. r \in ReplyType
  BY ConversationAssumption
<1> DEFINE blocks == ReplyBlocks(r)
           reason == MapFinish(r.finish)
<1>3. blocks \in Seq(ReplyBlock) /\ Receive(r, blocks, reason)
  BY <1>1, <1>2, ReplyBlocksType
<1>4. reason # "tool_use" => OfType("tool_use", blocks) = <<>>
  <2>1. r.finish = "tool_calls" => reason = "tool_use"
    BY DEF MapFinish
  <2>2. r.finish # "tool_calls" => r.calls = <<>>
    BY RepliesAssumption
  <2> QED
    BY <1>2, <2>1, <2>2, QuietReply
<1> HIDE DEF blocks, reason
<1>5. turn = "upstream"
  BY DEF Reply
<1> QED
  BY <1>3, <1>4, <1>5, ReceiveLegal

\* An answer that is streamed: the blocks do.
LEMMA StreamLegal ==
  ASSUME HistoryInv, LegalInv, Stream
  PROVE  LegalInv'
<1>1. PICK blocks \in Streams :
        Receive(NoReply, blocks,
                IF OfType("tool_use", blocks) # <<>> THEN "tool_use" ELSE "end_turn")
  BY DEF Stream
<1> DEFINE reason == IF OfType("tool_use", blocks) # <<>> THEN "tool_use" ELSE "end_turn"
<1>2. blocks \in Seq(ReplyBlock) /\ Receive(NoReply, blocks, reason)
  BY <1>1, StreamBlocks
<1>3. reason # "tool_use" => OfType("tool_use", blocks) = <<>>
  OBVIOUS
<1> HIDE DEF reason
<1>4. turn = "upstream"
  BY DEF Stream
<1> QED
  BY <1>2, <1>3, <1>4, ReceiveLegal

\* An order of n things has each of them.
LEMMA OrderCovers ==
  ASSUME NEW n \in Nat, NEW order \in [1 .. n -> 1 .. n],
         \A i, j \in 1 .. n : i # j => order[i] # order[j]
  PROVE  \A k \in 1 .. n : \E i \in 1 .. n : order[i] = k
<1> DEFINE D == 1 .. n
<1>1. IsFiniteSet(D)
  <2>1. 1 \in Int /\ n \in Int
    OBVIOUS
  <2> QED
    BY <2>1, FS_Interval
<1>2. order \in Injection(D, D)
  BY DEF Injection, IsInjective
<1> HIDE DEF D
<1>3. order \in Surjection(D, D)
  BY <1>1, <1>2, FS_Injection
<1>4. \A k \in D : \E i \in D : order[i] = k
  BY <1>3 DEF Surjection
<1> QED
  BY <1>4 DEF D

Reports(blocks, results) ==
  OfType("tool_result", blocks) = results /\ OfType("tool_use", blocks) = <<>>

\* The results are found again beside a remark.
LEMMA ResultsFound ==
  ASSUME NEW results \in Seq(Typed("tool_result", BlockType)), NEW aside \in Seq(Word),
         NEW text, text = <<Block("text", aside, NoId)>>,
         NEW blocks, blocks = text \o results \/ blocks = results \o text
  PROVE  Reports(blocks, results)
<1> DEFINE b == Block("text", aside, NoId)
           Results == Typed("tool_result", BlockType)
           Texts == Typed("text", BlockType)
<1>1. b \in Texts
  BY DEF Block, Typed, BlockType, Id
<1>2. text \in Seq(Texts)
  <2>1. text = <<b>>
    OBVIOUS
  <2> HIDE DEF b, Texts
  <2>2. \A y \in Texts : <<y>> \in Seq(Texts)
    OBVIOUS
  <2> QED
    BY <1>1, <2>1, <2>2
<1> HIDE DEF b, Texts, Results
<1>3. results \in Seq(Results)
  BY DEF Results
<1>4. /\ \A x \in Texts : x.type # "tool_result" /\ x.type # "tool_use"
      /\ \A x \in Results : x.type = "tool_result" /\ x.type # "tool_use"
  BY DEF Texts, Results, Typed
<1>5. OfType("tool_result", text) = <<>> /\ OfType("tool_use", text) = <<>>
  BY <1>2, <1>4, OfTypeNone
<1>6. OfType("tool_result", results) = results
  BY <1>3, <1>4, OfTypeAll
<1>7. OfType("tool_use", results) = <<>>
  BY <1>3, <1>4, OfTypeNone
<1>8. text \in Seq(BlockType) /\ results \in Seq(BlockType)
  <2>1. Texts \subseteq BlockType /\ Results \subseteq BlockType
    BY DEF Texts, Results, Typed
  <2> QED
    BY <1>2, <1>3, <2>1, SeqMonotonic
<1>9. \A type : /\ OfType(type, text \o results) = OfType(type, text) \o OfType(type, results)
                /\ OfType(type, results \o text) = OfType(type, results) \o OfType(type, text)
  BY <1>8, OfTypeConcat
<1>10. <<>> \o results = results /\ results \o <<>> = results
  BY <1>8, ConcatEmptySeq
<1>11. <<>> \o <<>> = <<>>
  OBVIOUS
<1> QED
  BY <1>5, <1>6, <1>7, <1>9, <1>10, <1>11 DEF Reports

\* The agent answers every call of the last turn.
LEMMA AnswerLegal ==
  ASSUME HistoryInv, LegalInv, Answer
  PROVE  LegalInv'
<1>1. turn = "agent" /\ Pending /\ history # <<>>
  BY DEF Answer, Send, HistoryInv
<1>2. PICK s \in Seq(UserTurn \cup ReplyTurn), x \in ReplyTurn :
        history = Append(s, x) /\ Legal(Body(s))
  BY <1>1 DEF LegalInv, OpenHistory
<1>3. Last(history) = x
  BY <1>2, LastOfAppend
<1> DEFINE calls == Calls(Last(history))
           n == Len(calls)
<1>4. PICK order \in SetToSeqs(DOMAIN calls), aside \in Asides, first \in BOOLEAN :
        LET results == MapSeq(LAMBDA i : Block("tool_result", <<"out">>, calls[i].id), order)
            text == <<Block("text", aside, NoId)>>
        IN Send(Said("user", "blocks", IF first THEN text \o results ELSE results \o text))
  BY DEF Answer
<1> DEFINE results == MapSeq(LAMBDA i : Block("tool_result", <<"out">>, calls[i].id), order)
           text == <<Block("text", aside, NoId)>>
           blocks == IF first THEN text \o results ELSE results \o text
           said == Said("user", "blocks", blocks)
           ids == [i \in 1 .. n |-> calls[order[i]].id]
<1>5. /\ n \in Nat /\ order \in [1 .. n -> 1 .. n]
      /\ \A i, j \in 1 .. n : i # j => order[i] # order[j]
      /\ results = [i \in 1 .. n |-> Block("tool_result", <<"out">>, calls[order[i]].id)]
      /\ \A i \in 1 .. n : calls[order[i]].id \in Id
  BY <1>1, <1>4, AnswerIs
<1>6. Send(said)
  BY <1>4
<1>7. aside \in Seq(Word)
  BY ConversationAssumption
<1>8. calls = Calls(x)
  BY <1>3
<1> HIDE DEF n, calls, results
<1>9. results = [i \in 1 .. n |-> Block("tool_result", <<"out">>, ids[i])]
      /\ \A i \in 1 .. n : ids[i] = calls[order[i]].id /\ ids[i] \in Id
  BY <1>5
<1> HIDE DEF ids
<1>10. said \in UserTurn
  BY <1>5, <1>7, <1>9, AnswerIsTurn
<1>11. results \in Seq(Typed("tool_result", BlockType)) /\ Len(results) = n
  <2>1. <<"out">> \in Seq(Word)
    <3>1. "out" \in Word
      BY DEF Word
    <3>2. \A w \in Word : <<w>> \in Seq(Word)
      OBVIOUS
    <3> QED
      BY <3>1, <3>2
  <2>2. \A i \in 1 .. n : Block("tool_result", <<"out">>, ids[i]) \in Typed("tool_result", BlockType)
    BY <1>9, <2>1 DEF Block, Typed, BlockType
  <2>3. results \in [1 .. n -> Typed("tool_result", BlockType)]
    BY <1>9, <2>2
  <2>4. results \in Seq(Typed("tool_result", BlockType))
    BY <1>5, <2>3, SeqDef
  <2> QED
    BY <1>5, <2>3, <2>4, LenProperties
<1>12. said.blocks = blocks /\ said.form = "blocks"
  BY DEF Said
<1>13. OfType("tool_result", blocks) = results /\ OfType("tool_use", blocks) = <<>>
  <2>1. blocks = text \o results \/ blocks = results \o text
    OBVIOUS
  <2>2. text = <<Block("text", aside, NoId)>>
    OBVIOUS
  <2> HIDE DEF blocks, text
  <2>3. Reports(blocks, results)
    BY <1>7, <1>11, <2>1, <2>2, ResultsFound
  <2> QED
    BY <2>3 DEF Reports
<1> HIDE DEF blocks, said, text
<1>14. {results[k].id : k \in 1 .. n} = {calls[k].id : k \in 1 .. n}
  <2>1. \A k \in 1 .. n : order[k] \in 1 .. n /\ results[k].id = calls[order[k]].id
    BY <1>5, <1>9 DEF Block
  <2>2. \A k \in 1 .. n : \E i \in 1 .. n : order[i] = k
    BY <1>5, OrderCovers
  <2>3. {results[k].id : k \in 1 .. n} = {calls[order[k]].id : k \in 1 .. n}
    BY <2>1
  <2>4. {calls[order[k]].id : k \in 1 .. n} = {calls[k].id : k \in 1 .. n}
    BY <2>1, <2>2
  <2> QED
    BY <2>3, <2>4
<1>15. Legal(Turn(x) \o Turn(said))
  <2>1. /\ OfType("tool_use", said.blocks) = <<>> /\ OfType("tool_result", said.blocks) = results
        /\ said.form # "text"
    BY <1>12, <1>13
  <2>2. Len(Calls(x)) = n /\ Len(OfType("tool_result", said.blocks)) = n
    BY <1>8, <1>11, <2>1 DEF n
  <2>3. {OfType("tool_result", said.blocks)[k].id : k \in 1 .. n} = {Calls(x)[k].id : k \in 1 .. n}
    BY <1>8, <1>14, <2>1
  <2> QED
    BY <1>10, <2>1, <2>2, <2>3, LegalExchange
<1>16. Legal(Body(Append(history, said)))
  BY <1>2, <1>10, <1>15, LegalExchangeAppend
<1>17. history' = Append(history, said) /\ turn' = "gateway" /\ request' = request
  BY <1>6 DEF Send
<1>18. Legal(request')
  BY <1>17 DEF LegalInv, UpstreamLegal
<1> QED
  BY <1>16, <1>17, <1>18 DEF LegalInv, UpstreamLegal

\* Neither the prompt nor the evidence calls or answers.
LEMMA ForwardLegal ==
  ASSUME HistoryInv, LegalInv, Forward
  PROVE  LegalInv'
<1> DEFINE b == Body(history)
           c == <<Context>>
<1>1. /\ turn = "gateway" /\ turn' = "upstream" /\ UNCHANGED <<system, explorer, history, reply, stop>>
      /\ evidence' => request' = InjectEvidence(Convert(history))
      /\ ~evidence' => request' = Convert(history)
  BY ForwardIs DEF Forward
<1>2. /\ Prompt \in Seq(MessageType) /\ \A i \in 1 .. Len(Prompt) : Prompt[i].role = "system"
      /\ b \in Seq(Voiced) /\ Convert(history) = Prompt \o b
  BY PromptType, ConvertIs DEF HistoryInv
<1>3. Prompt \in Seq(Silent) /\ Prompt \o c \in Seq(Silent)
  BY PromptSilent
<1>4. Legal(b)
  BY <1>1 DEF LegalInv
<1> HIDE DEF b
<1>5. InjectEvidence(Prompt \o b) = (Prompt \o c) \o b
  BY <1>2, InjectIs
<1> HIDE DEF c
<1>6. b \in Seq(MessageType)
  <2>1. Voiced \subseteq MessageType
    BY DEF Voiced
  <2> QED
    BY <1>2, <2>1, SeqMonotonic
<1>7. ASSUME NEW p \in Seq(Silent)
      PROVE  Legal(p \o b)
  <2>1. p \in Seq(MessageType)
    BY SilentHolds
  <2>2. \A m \in Silent : m.role # "tool" /\ (m.role = "assistant" => m.calls = <<>>)
    BY DEF Silent
  <2>3. Legal(p)
    BY <2>2, LegalPlain
  <2> QED
    BY <1>4, <1>6, <2>1, <2>3, LegalConcat
<1>8. Legal(request')
  BY <1>1, <1>2, <1>3, <1>5, <1>7
<1>9. Legal(Body(history'))
  BY <1>1, <1>4 DEF b
<1> QED
  BY <1>1, <1>8, <1>9 DEF LegalInv, UpstreamLegal

\* On every step.
LEMMA LegalNext == HistoryInv /\ LegalInv /\ [ConversationNext]_conversation => LegalInv'
<1> SUFFICES ASSUME HistoryInv, LegalInv, [ConversationNext]_conversation PROVE LegalInv'
  OBVIOUS
<1>1. CASE Ask
  BY <1>1, AskLegal
<1>2. CASE Answer
  BY <1>2, AnswerLegal
<1>3. CASE Forward
  BY <1>3, ForwardLegal
<1>4. CASE Reply
  BY <1>4, ReplyLegal
<1>5. CASE Stream
  BY <1>5, StreamLegal
<1>6. CASE Fail
  BY <1>6 DEF Fail, LegalInv, UpstreamLegal
<1>7. CASE UNCHANGED conversation
  BY <1>7 DEF conversation, LegalInv, UpstreamLegal, Pending
<1> QED
  BY <1>1, <1>2, <1>3, <1>4, <1>5, <1>6, <1>7 DEF ConversationNext

-----------------------------------------------------------------------------
\* The history holds turns of the agent and of the upstream, and while the agent has
\* its turn it ends in the answer that came last, whatever is said and answered.
THEOREM HistoryAlways == ConversationSpec => []HistoryInv
<1>1. ConversationInit => HistoryInv
  BY HistoryInit
<1>2. HistoryInv /\ [ConversationNext]_conversation => HistoryInv'
  BY HistoryNext
<1> QED
  BY <1>1, <1>2, PTL DEF ConversationSpec

\* RoundTrip: what the upstream answered comes back to it with the next request as
\* it wrote it (convert_openai_to_anthropic and convert_anthropic_to_openai,
\* main.rs), for every answer of any length.
THEOREM RoundTrips == ConversationSpec => []RoundTrip
<1>1. HistoryInv => RoundTrip
  BY TripFromHistory
<1> QED
  BY <1>1, HistoryAlways, PTL

\* EvidencePlaced: evidence stands once, between the agent's prompt and its first
\* turn, and only in a task in which the upstream has said nothing
\* (is_fresh_task and inject_evidence, main.rs), for every history.
THEOREM EvidenceIsPlaced == ConversationSpec => []EvidencePlaced
<1>1. ConversationInit => EvidencePlaced
  BY DEF ConversationInit, EvidencePlaced
<1>2. HistoryInv /\ EvidencePlaced /\ [ConversationNext]_conversation => EvidencePlaced'
  <2> SUFFICES ASSUME HistoryInv, EvidencePlaced, [ConversationNext]_conversation
               PROVE  EvidencePlaced'
    OBVIOUS
  <2>1. CASE Forward
    BY <2>1, PlacedForward
  <2>2. CASE turn' # "upstream"
    BY <2>2 DEF EvidencePlaced
  <2>3. CASE ~Forward /\ turn' = "upstream"
    BY <2>3, RequestStays DEF conversation, EvidencePlaced, Convert, Prompt
  <2> QED
    BY <2>1, <2>2, <2>3
<1> QED
  BY <1>1, <1>2, HistoryAlways, PTL DEF ConversationSpec

\* NothingLost: every word, image, call and result of the history reaches the
\* upstream once, under its role and in its order (convert_anthropic_to_openai,
\* main.rs), for every history, with and without evidence.
THEOREM NothingIsLost == ConversationSpec => []NothingLost
<1>1. ConversationInit => NothingLost
  BY DEF ConversationInit, NothingLost
<1>2. HistoryInv /\ NothingLost /\ [ConversationNext]_conversation => NothingLost'
  <2> SUFFICES ASSUME HistoryInv, NothingLost, [ConversationNext]_conversation
               PROVE  NothingLost'
    OBVIOUS
  <2>1. CASE Forward
    BY <2>1, LosslessForward
  <2>2. CASE turn' # "upstream"
    BY <2>2 DEF NothingLost
  <2>3. CASE ~Forward /\ turn' = "upstream"
    BY <2>3, RequestStays DEF conversation, NothingLost
  <2> QED
    BY <2>1, <2>2, <2>3
<1> QED
  BY <1>1, <1>2, HistoryAlways, PTL DEF ConversationSpec

\* UpstreamLegal: in whatever order the agent answers the calls of a turn, and
\* whatever it says beside the answers, each call is answered right behind its
\* message and nothing else is a tool message (convert_anthropic_to_openai, main.rs).
THEOREM UpstreamIsLegal == ConversationSpec => []UpstreamLegal
<1>1. ConversationInit => LegalInv
  BY LegalInit
<1>2. HistoryInv /\ LegalInv /\ [ConversationNext]_conversation => LegalInv'
  BY LegalNext
<1>3. LegalInv => UpstreamLegal
  BY DEF LegalInv
<1> QED
  BY <1>1, <1>2, <1>3, HistoryAlways, PTL DEF ConversationSpec

-----------------------------------------------------------------------------
\* What was sent upstream last, less the evidence.
Bare == IF evidence THEN RemoveAt(request, Len(Prompt) + 1) ELSE request

\* What was once sent upstream is not written anew: but for the evidence, a request
\* is the previous one with more behind it, turn after turn and retry after retry.
RequestsGrow == [][IsPrefix(Bare, Bare')]_conversation

\* The history is converted to what was sent last and what was said since.
GrowInv ==
  /\ Bare \in Seq(MessageType)
  /\ \E rest \in Seq(MessageType) : Convert(history) = Bare \o rest

\* A sequence is a prefix of what it is the beginning of.
LEMMA PrefixConcat ==
  ASSUME NEW S, NEW s \in Seq(S), NEW t \in Seq(S)
  PROVE  IsPrefix(s, s \o t)
<1>1. Len(s) \in Nat /\ Len(t) \in Nat /\ Len(s \o t) = Len(s) + Len(t)
  BY ConcatProperties, LenProperties
<1>2. CASE Len(s) = 0
  <2>1. SubSeq(s, 1, 0) = <<>> /\ SubSeq(s \o t, 1, 0) = <<>>
    BY SubSeqEmpty
  <2> QED
    BY <1>1, <1>2, <2>1 DEF IsPrefix
<1>3. CASE Len(s) # 0
  <2>1. 1 \in 1 .. Len(s) /\ Len(s) \in 1 .. Len(s)
    BY <1>1, <1>3
  <2>2. SubSeq(s \o t, 1, Len(s)) = SubSeq(s, 1, Len(s))
    BY <2>1, SubSeqOfConcat1
  <2> QED
    BY <1>1, <2>2 DEF IsPrefix
<1> QED
  BY <1>2, <1>3

\* What has grown by nothing has not changed.
LEMMA PrefixSame ==
  ASSUME NEW S, NEW s \in Seq(S)
  PROVE  IsPrefix(s, s)
<1>1. s \o <<>> = s /\ <<>> \in Seq(S)
  BY ConcatEmptySeq, EmptySeq
<1> QED
  BY <1>1, PrefixConcat

\* A history is converted to messages,
LEMMA ConvertType == ASSUME HistoryInv PROVE Convert(history) \in Seq(MessageType)
<1>1. /\ Convert(history) = Prompt \o Body(history)
      /\ Body(history) \in Seq(Voiced) /\ Prompt \in Seq(MessageType)
  BY ConvertIs, PromptType DEF HistoryInv
<1>2. Body(history) \in Seq(MessageType)
  <2>1. Voiced \subseteq MessageType
    BY DEF Voiced
  <2> QED
    BY <1>1, <2>1, SeqMonotonic
<1> QED
  BY <1>1, <1>2, ConcatProperties

\* and with one more turn to these messages and some more.
LEMMA ConvertAppend ==
  ASSUME NEW h \in Seq(UserTurn \cup ReplyTurn), NEW said \in UserTurn \cup ReplyTurn,
         Prompt \in Seq(MessageType)
  PROVE  \E more \in Seq(MessageType) : Convert(Append(h, said)) = Convert(h) \o more
<1>1. /\ Convert(h) = Prompt \o Body(h) /\ Body(h) \in Seq(Voiced)
  BY ConvertIs
<1>2. Append(h, said) \in Seq(UserTurn \cup ReplyTurn)
  BY AppendProperties
<1>3. Convert(Append(h, said)) = Prompt \o Body(Append(h, said))
  BY <1>2, ConvertIs
<1>4. Body(Append(h, said)) = Body(h) \o TurnOf[said]
  BY TurnMap, FlatAppend DEF Body
<1>5. TurnOf[said] \in Seq(Voiced)
  BY TurnMap DEF Maps
<1>6. Body(h) \in Seq(MessageType) /\ TurnOf[said] \in Seq(MessageType)
  <2>1. Voiced \subseteq MessageType
    BY DEF Voiced
  <2> QED
    BY <1>1, <1>5, <2>1, SeqMonotonic
<1>7. Prompt \o (Body(h) \o TurnOf[said]) = (Prompt \o Body(h)) \o TurnOf[said]
  <2> DEFINE p == Prompt
             b == Body(h)
             t == TurnOf[said]
  <2>1. p \in Seq(MessageType) /\ b \in Seq(MessageType) /\ t \in Seq(MessageType)
    BY <1>6
  <2> HIDE DEF p, b, t
  <2>2. p \o (b \o t) = (p \o b) \o t
    BY <2>1, ConcatAssociative
  <2> QED
    BY <2>2 DEF p, b, t
<1> QED
  BY <1>1, <1>3, <1>4, <1>6, <1>7

\* At the start nothing was sent.
LEMMA GrowInit == ConversationInit => GrowInv
<1> SUFFICES ASSUME ConversationInit PROVE GrowInv
  OBVIOUS
<1>1. Bare = <<>> /\ <<>> \in Seq(MessageType)
  BY EmptySeq DEF ConversationInit, Bare
<1>2. Convert(history) \in Seq(MessageType)
  BY HistoryInit, ConvertType
<1>3. Convert(history) = <<>> \o Convert(history)
  BY <1>2, ConcatEmptySeq
<1> QED
  BY <1>1, <1>2, <1>3 DEF GrowInv

\* A request is sent on: the whole history so far.
LEMMA ForwardGrows ==
  ASSUME HistoryInv, HistoryInv', GrowInv, Forward
  PROVE  GrowInv' /\ IsPrefix(Bare, Bare')
<1>1. turn' = "upstream" /\ UNCHANGED <<system, explorer, history, reply, stop>>
  BY ForwardIs
<1>2. Prompt' = Prompt /\ Convert(history)' = Convert(history)
  BY <1>1 DEF Prompt, Convert
<1>3. Bare' = Convert(history)
  <2>1. EvidencePlaced'
    BY PlacedForward
  <2> QED
    BY <1>1, <1>2, <2>1 DEF EvidencePlaced, Bare
<1>4. Convert(history) \in Seq(MessageType)
  BY ConvertType
<1>5. Convert(history)' = Bare' \o <<>> /\ <<>> \in Seq(MessageType)
  BY <1>2, <1>3, <1>4, ConcatEmptySeq, EmptySeq
<1>6. GrowInv'
  BY <1>3, <1>4, <1>5 DEF GrowInv
<1>7. IsPrefix(Bare, Convert(history))
  BY PrefixConcat DEF GrowInv
<1> QED
  BY <1>3, <1>6, <1>7

\* Any other step leaves the request, and at most adds a turn to the history.
LEMMA OthersGrow ==
  ASSUME HistoryInv, HistoryInv', GrowInv, [ConversationNext]_conversation, ~Forward
  PROVE  GrowInv' /\ IsPrefix(Bare, Bare')
<1>1. UNCHANGED <<system, request, evidence>>
  BY DEF ConversationNext, conversation, Ask, Answer, Send, Reply, Stream, Receive, Fail
<1>2. Bare' = Bare
  BY <1>1 DEF Bare, Prompt
<1>3. history' = history \/ \E said : history' = Append(history, said)
  BY DEF ConversationNext, conversation, Ask, Answer, Send, Reply, Stream, Receive, Fail
<1>4. PICK rest \in Seq(MessageType) : Convert(history) = Bare \o rest
  BY DEF GrowInv
<1>5. CASE history' = history
  <2>1. Convert(history)' = Convert(history)
    BY <1>1, <1>5 DEF Convert, Prompt
  <2> QED
    BY <1>2, <1>4, <2>1, PrefixSame DEF GrowInv
<1>6. ASSUME NEW said, history' = Append(history, said)
      PROVE  GrowInv' /\ IsPrefix(Bare, Bare')
  <2>1. /\ history \in Seq(UserTurn \cup ReplyTurn)
        /\ history' \in Seq(UserTurn \cup ReplyTurn)
    BY DEF HistoryInv
  <2>2. said \in UserTurn \cup ReplyTurn
    <3> DEFINE S == UserTurn \cup ReplyTurn
    <3> HIDE DEF S
    <3>1. history \in Seq(S) /\ Append(history, said) \in Seq(S)
      BY <1>6, <2>1 DEF S
    <3>2. said \in S
      BY <3>1
    <3> QED
      BY <3>2 DEF S
  <2>3. Prompt \in Seq(MessageType)
    BY PromptType
  <2>4. PICK more \in Seq(MessageType) :
          Convert(Append(history, said)) = Convert(history) \o more
    BY <2>1, <2>2, <2>3, ConvertAppend
  <2>5. Convert(history)' = Convert(Append(history, said))
    BY <1>1, <1>6 DEF Convert, Prompt
  <2>6. Bare \in Seq(MessageType)
    BY DEF GrowInv
  <2>7. (Bare \o rest) \o more = Bare \o (rest \o more) /\ rest \o more \in Seq(MessageType)
    BY <2>6, ConcatAssociative, ConcatProperties
  <2>8. Convert(history)' = Bare \o (rest \o more)
    BY <1>4, <2>4, <2>5, <2>7
  <2> QED
    BY <1>2, <2>6, <2>7, <2>8, PrefixSame DEF GrowInv
<1> QED
  BY <1>3, <1>5, <1>6

\* RequestsGrow: the conversion of a longer history extends that of the shorter one
\* (convert_anthropic_to_openai, inject_evidence, main.rs), for every history.
THEOREM RequestsOnlyGrow == ConversationSpec => RequestsGrow
<1>1. ConversationInit => GrowInv
  BY GrowInit
<1>2. HistoryInv /\ HistoryInv' /\ GrowInv /\ [ConversationNext]_conversation
        => GrowInv' /\ [IsPrefix(Bare, Bare')]_conversation
  BY ForwardGrows, OthersGrow
<1> QED
  BY <1>1, <1>2, HistoryAlways, PTL DEF ConversationSpec, RequestsGrow
=============================================================================
