----------------------------- MODULE Evidence -----------------------------
(***************************************************************************)
(* build_evidence of explore/expand.rs with Sandbox::read of               *)
(* explore/tools.rs: the explorer's final answer is parsed into citations, *)
(* and these are expanded in order into numbered source lines until the    *)
(* cap on lines or the cap on tokens is reached.                           *)
(*                                                                         *)
(* A file is its number of lines and the bytes they take when numbered; a  *)
(* block of text is the range of lines it shows and the marker it ends in, *)
(* and the tokenizer may be any function of blocks.                        *)
(***************************************************************************)
EXTENDS Integers, Sequences, FiniteSetsExt

CONSTANTS Paths,
          Readable,      \* paths inside the sandbox, of files that can be read
          Longest,       \* lines of the longest file below HARD_FILE_CEILING
          LinesIn,       \* LinesIn[p]: lines of file p
          Offset,        \* Offset[p][i]: bytes of its first i lines, numbered
          ReadLines,     \* MAX_READ_LINES
          ReadBytes,     \* MAX_READ_BYTES
          Count(_),      \* tokens of a block
          Caps,          \* [lines, tokens: Nat]: max_expanded_lines and _tokens
          Answers        \* final answers of the explorer

Marks == {"none", "bytes", "tokens"}
Blocks == [path: Paths, start: 1 .. Longest, lines: 0 .. Longest, mark: Marks]

NoEnd == 0 - 1
Lines ==       \* of an answer: a citation, a tag, or something else
  [kind: {"cite"}, path: Paths, from: Nat, to: Nat \cup {NoEnd}]
  \cup [kind: {"open", "close", "noise"}]

ASSUME EvidenceAssumption ==
  /\ Readable \subseteq Paths
  /\ Longest \in Nat /\ ReadLines \in Nat \ {0} /\ ReadBytes \in Nat
  /\ \A p \in Paths :
       LinesIn[p] \in 0 .. Longest /\ \A i \in 0 .. LinesIn[p] : Offset[p][i] \in Nat
  /\ \A b \in Blocks : Count(b) \in Nat
  /\ Caps \subseteq [lines: Nat, tokens: Nat]
  /\ Answers \subseteq Seq(Lines)

VARIABLES caps, answer,
          unread, inside,          \* lines not parsed yet; within the section?
          phase, citations, next,  \* next: the citation to be expanded
          snippets, usedLines, usedTokens

parsed == <<unread, inside, citations>>
used == <<snippets, usedLines, usedTokens>>
vars == <<caps, answer, parsed, phase, next, used>>

\* Is there a <final_answer>?  If not, the whole text is the section.
Tagged == \E i \in DOMAIN answer : answer[i].kind = "open"

Init ==
  /\ caps \in Caps /\ answer \in Answers
  /\ unread = answer /\ inside = ~Tagged
  /\ phase = "parse" /\ citations = <<>> /\ next = 1
  /\ snippets = <<>> /\ usedLines = 0 /\ usedTokens = 0

\* Broken variant: line 0 is taken at its word.
CleanFromZero(line) ==
  [path |-> line.path, start |-> line.from, end |-> Max({line.to, line.from})]

\* The range of a citation: lines count from 1, and a range that ends before it
\* starts, or has no end, is one line.
Clean(line) ==
  LET start == Max({line.from, 1})
  IN [path |-> line.path, start |-> start, end |-> Max({line.to, start})]

ParseLine ==
  /\ phase = "parse" /\ unread # <<>>
  /\ LET line == Head(unread)
         cites == inside /\ line.kind = "cite"
     IN /\ unread' = IF inside /\ Tagged /\ line.kind = "close" THEN <<>> ELSE Tail(unread)
        /\ inside' = (inside \/ line.kind = "open")
        /\ citations' = IF cites /\ \A i \in DOMAIN citations : citations[i] # Clean(line)
                        THEN Append(citations, Clean(line)) ELSE citations
  /\ UNCHANGED <<caps, answer, phase, next, used>>

Parsed ==
  /\ phase = "parse" /\ unread = <<>>
  /\ phase' = "expand"
  /\ UNCHANGED <<caps, answer, parsed, next, used>>

-----------------------------------------------------------------------------
Missing(c) == c.path \notin Readable \/ c.start > LinesIn[c.path]

BlocksFrom(c) ==
  [path: {c.path}, start: {c.start}, lines: 0 .. Longest, mark: {"none", "bytes"}]

\* b is what Sandbox::read returns for `limit` lines of a file from `start` on:
\* it stops at the limit, at the end of the file, or where another line would
\* take more bytes than a read may return.
Fits(p, start, n) == Offset[p][start - 1 + n] - Offset[p][start - 1] <= ReadBytes

Read(b, c, limit) ==
  LET most == Min({limit, ReadLines, LinesIn[c.path] - c.start + 1})
  IN /\ b.lines \in 0 .. most /\ Fits(c.path, c.start, b.lines)
     /\ IF b.lines = most THEN b.mark = "none"
        ELSE b.mark = "bytes" /\ ~Fits(c.path, c.start, b.lines + 1)

\* The lines of text of a block; the marker of a read counts as one.
Height(b) == IF b.mark = "bytes" THEN b.lines + 1 ELSE b.lines

Cut(b, n) == [b EXCEPT !.lines = n, !.mark = "tokens"]

\* Broken variant: the room is measured before the marker is added.
FitToTokensUnmarked(b, room, kept) ==
  IF Count(b) <= room THEN kept = Height(b)
  ELSE /\ kept \in 0 .. Height(b) - 1
       /\ kept = 0 \/ Count([b EXCEPT !.lines = kept]) <= room
       /\ \A n \in kept + 1 .. Height(b) - 1 : Count([b EXCEPT !.lines = n]) > room

\* fit_to_tokens: the block as it is, or with the fewest trailing lines dropped
\* that make room for the rest and a marker; nothing if not even that fits.
Fitted(b, room, kept) == IF Count(b) <= room THEN b ELSE Cut(b, kept)

FitToTokens(b, room, kept) ==
  IF Count(b) <= room THEN kept = Height(b)
  ELSE /\ kept \in 0 .. Height(b) - 1
       /\ kept = 0 \/ Count(Cut(b, kept)) <= room
       /\ \A n \in kept + 1 .. Height(b) - 1 : Count(Cut(b, n)) > room

Expanding ==
  /\ phase = "expand" /\ next <= Len(citations)
  /\ usedLines < caps.lines /\ usedTokens < caps.tokens

\* Broken variant: an unreadable file ends the expansion.
SkipAll ==
  /\ Expanding /\ Missing(citations[next])
  /\ phase' = "done"
  /\ UNCHANGED <<caps, answer, parsed, next, used>>

\* A citation that cannot be read, or lies behind the end of its file.
Skip ==
  /\ Expanding /\ Missing(citations[next])
  /\ next' = next + 1
  /\ UNCHANGED <<caps, answer, parsed, phase, used>>

\* Broken variant: the range of the citation instead of what was read.
SnippetAsCited(c, kept, b) ==
  [of |-> next, path |-> c.path, start |-> c.start, end |-> c.end, code |-> b]

Snippet(c, kept, b) ==
  [of |-> next, path |-> c.path, start |-> c.start, end |-> c.start + kept - 1, code |-> b]

\* The next citation becomes a snippet, or not even one line of it fits.
Expand ==
  /\ Expanding /\ ~Missing(citations[next])
  /\ LET c == citations[next]
         limit == Min({caps.lines - usedLines, c.end - c.start + 1})
         room == caps.tokens - usedTokens
     IN \E b \in BlocksFrom(c), kept \in 0 .. Longest :
          /\ Read(b, c, limit) /\ FitToTokens(b, room, kept)
          /\ IF kept = 0
             THEN phase' = "done" /\ UNCHANGED <<next, used>>
             ELSE /\ snippets' = Append(snippets, Snippet(c, kept, Fitted(b, room, kept)))
                  /\ usedLines' = usedLines + kept
                  /\ usedTokens' = usedTokens + Count(Fitted(b, room, kept))
                  /\ next' = next + 1
                  /\ UNCHANGED phase
  /\ UNCHANGED <<caps, answer, parsed>>

\* No citation is left, or a cap is reached.
Finish ==
  /\ phase = "expand" /\ ~Expanding
  /\ phase' = "done"
  /\ UNCHANGED <<caps, answer, parsed, next, used>>

Over == phase = "done" /\ UNCHANGED vars

Next == ParseLine \/ Parsed \/ Skip \/ Expand \/ Finish \/ Over

Spec == Init /\ [][Next]_vars

-----------------------------------------------------------------------------
Citation == [path: Paths, start: Nat \ {0}, end: Nat \ {0}]
SnippetType == [of: Nat, path: Paths, start: Nat \ {0}, end: Nat, code: Blocks]

\* Every variable has its type, and no citation is repeated.
TypeOK ==
  /\ caps \in Caps /\ answer \in Answers
  /\ unread \in Seq(Lines) /\ inside \in BOOLEAN
  /\ phase \in {"parse", "expand", "done"}
  /\ citations \in Seq(Citation) /\ next \in 1 .. Len(citations) + 1
  /\ \A i, j \in DOMAIN citations : citations[i] = citations[j] => i = j
  /\ snippets \in Seq(SnippetType)
  /\ usedLines \in Nat /\ usedTokens \in Nat

\* The evidence is little: it never exceeds either cap, markers included.
WithinCaps == usedLines <= caps.lines /\ usedTokens <= caps.tokens

\* A snippet is an expansion of its citation: it starts where the citation does,
\* ends within the citation and within the file, and shows the lines it claims,
\* except that the marker of an oversized read passes for its last line.  The
\* snippets come in the order of their citations, each once.
SnippetsTrue ==
  /\ \A i \in DOMAIN snippets :
       LET s == snippets[i]
           c == citations[s.of]
       IN /\ s.of \in DOMAIN citations
          /\ s.path = c.path /\ s.path \in Readable
          /\ s.start = c.start /\ s.end \in c.start .. c.end /\ s.end <= LinesIn[c.path]
          /\ s.code.path = s.path /\ s.code.start = s.start
          /\ s.end = s.start + Height(s.code) - 1
  /\ \A i, j \in DOMAIN snippets : i < j => snippets[i].of < snippets[j].of

\* The running totals of a sequence of numbers, and the last of them.
Totals(f) == LET t[i \in 0 .. Len(f)] == IF i = 0 THEN 0 ELSE t[i - 1] + f[i] IN t
SumOf(f) == Totals(f)[Len(f)]

LinesOf == [i \in DOMAIN snippets |-> snippets[i].end - snippets[i].start + 1]
TokensOf == [i \in DOMAIN snippets |-> Count(snippets[i].code)]

LeftOut(i) == ~Missing(citations[i]) /\ \A j \in DOMAIN snippets : snippets[j].of # i

\* Citation i was given up because one line of it is more than there is room for.
Stuck(i) ==
  \E b \in Blocks :
    /\ b.path = citations[i].path /\ b.start = citations[i].start /\ b.lines <= 1
    /\ Count(b) > caps.tokens - usedTokens

NoneLeftOut ==
  \A i \in DOMAIN citations : LeftOut(i) =>
    \/ usedLines = caps.lines \/ usedTokens = caps.tokens
    \/ \E j \in 1 .. i : LeftOut(j) /\ Stuck(j)

NoneCutShort ==
  \A i \in DOMAIN snippets :
    LET s == snippets[i]
        c == citations[s.of]
    IN s.code.mark = "none" /\ s.end < Min({c.end, LinesIn[c.path]}) =>
         s.code.lines = ReadLines \/ (i = Len(snippets) /\ usedLines = caps.lines)

\* The statistics are the sums over the snippets; and in the end a citation that
\* can be read is only left out, and a range only cut short, because a cap was
\* reached or the next line would not fit: never because of one that could not
\* be read.
NothingHidden ==
  /\ usedLines = SumOf(LinesOf) /\ usedTokens = SumOf(TokensOf)
  /\ phase = "done" => NoneLeftOut /\ NoneCutShort
=============================================================================
