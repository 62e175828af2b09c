----------------------------- MODULE Lookahead -----------------------------
(***************************************************************************)
(* The look-ahead on a streamed answer: lookahead, prefix_is_degenerate    *)
(* and the replay in Proxy::forward (src/proxy.rs).                        *)
(*                                                                         *)
(* The upstream sends a script of lines, cut into network reads (chunks)   *)
(* anywhere: a line arrives with the chunk that holds its newline, which is*)
(* what parse_buf sees to, and a chunk may complete no line or several.    *)
(* One text line carries one character.                                    *)
(***************************************************************************)
EXTENDS Degeneracy, SequencesExt

CONSTANTS Scripts,      \* the answers the upstream may send, as lines
          Escs,         \* the checks that are switched on
          MaxChars,     \* lookahead_chars
          FrameCap,     \* FRAME_CAP
          RefusalCap,   \* the length above which no text is a refusal
          MaxChunks     \* bound on the chunks of a stream

Chars == {"a", "_", "r1", "r2"}
Reasons == {"stop", "tool_calls", "content_filter", "length"}
LineType == [line: {"text"}, data: Chars] \cup [line: {"finish"}, data: Reasons]
              \cup [line: {"tool", "other", "done"}, data: {""}]

\* What the protocol makes of an answer: [DONE] comes last, and behind the
\* finish_reason there is no text and no other.
WellFormed(s) ==
  \A i \in DOMAIN s :
    /\ s[i].line = "done" => i = Len(s)
    /\ s[i].line = "finish" => \A j \in i + 1 .. Len(s) : s[j].line \notin {"text", "finish"}

ASSUME StreamAssumption == \A s \in Scripts : WellFormed(s)

ASSUME LookaheadAssumption ==
  /\ Scripts \subseteq Seq(LineType)
  /\ MaxChars \in Nat /\ FrameCap \in Nat /\ RefusalCap \in Nat /\ MaxChunks \in Nat
  /\ Escs \subseteq [onEmptyResponse: BOOLEAN, onTruncation: BOOLEAN, onRefusal: BOOLEAN]

VARIABLES esc, script,
          pos,        \* lines that have arrived
          up,         \* the upstream: "open", "eof" or "error"
          phase,      \* "peek", then "rejected", or "replay", "live" and an end:
                      \* "closed" or "failed" as the client sees it
          frames,     \* chunks held back
          text, finish, tools, ended,     \* what was parsed from them
          peeked,     \* history: chunks the look-ahead read
          got, sent   \* history: chunks that arrived, and that the client got

parsed == <<text, finish, tools, ended>>
vars == <<esc, script, pos, up, phase, frames, parsed, peeked, got, sent>>

Init ==
  /\ esc \in Escs /\ script \in Scripts
  /\ pos = 0 /\ up = "open" /\ phase = "peek"
  /\ frames = <<>> /\ text = <<>> /\ finish = NoFinish /\ tools = FALSE /\ ended = FALSE
  /\ peeked = 0 /\ got = <<>> /\ sent = <<>>

-----------------------------------------------------------------------------
\* What can be told of a text, a sequence of "a" (visible), "_" (blank) and the
\* two halves "r1", "r2" of a refusal phrase.

Refuses(t) == \E i \in 1 .. Len(t) - 1 : t[i] = "r1" /\ t[i + 1] = "r2"

Trim(t) ==
  LET visible == {i \in DOMAIN t : t[i] # "_"}
  IN IF visible = {} THEN <<>> ELSE SubSeq(t, Min(visible), Max(visible))

LooksLikeRefusal(t) == Len(t) <= RefusalCap /\ Refuses(t)

TextOf(t) ==
  IF Trim(t) = <<>> THEN "empty" ELSE IF LooksLikeRefusal(Trim(t)) THEN "refusal" ELSE "answer"

Prefix == [finish |-> finish, text |-> TextOf(text), tools |-> tools, ended |-> ended]

\* What the lines of a stream carry.
Carry(t, l) == IF l.line = "text" THEN Append(t, l.data) ELSE t

Payload(lines) ==
  LET t[i \in 0 .. Len(lines)] == IF i = 0 THEN <<>> ELSE Carry(t[i - 1], lines[i])
  IN t[Len(lines)]

FinishOf(lines, before) ==
  LET reasons == {i \in DOMAIN lines : lines[i].line = "finish"}
  IN IF reasons = {} THEN before ELSE lines[Max(reasons)].data

Has(lines, kind) == \E i \in DOMAIN lines : lines[i].line = kind

-----------------------------------------------------------------------------
\* Broken variant: the number of frames is not looked at.
WindowByTextOnly == Len(text) < MaxChars /\ finish = NoFinish /\ ~ended

\* The loop of lookahead goes on.
Window ==
  /\ Len(text) < MaxChars
  /\ finish = NoFinish
  /\ Len(frames) < FrameCap
  /\ ~ended

\* What the next chunk may complete: some of the lines to come.
Chunks == {SubSeq(script, pos + 1, pos + n) : n \in 0 .. Len(script) - pos}

\* Broken variant: a line is lost between two chunks.
ArriveSkipping(lines) ==
  /\ up = "open" /\ Len(got) < MaxChunks
  /\ pos' = pos + Len(lines) + 1
  /\ got' = Append(got, lines)
  /\ UNCHANGED <<esc, script, up>>

\* A chunk of the stream arrives, with the lines that end in it.
Arrive(lines) ==
  /\ up = "open" /\ Len(got) < MaxChunks
  /\ pos' = pos + Len(lines)
  /\ got' = Append(got, lines)
  /\ UNCHANGED <<esc, script, up>>

\* Broken variant: each chunk is looked at by itself.
PeekChunkAlone(lines) ==
  /\ phase = "peek" /\ Window /\ Arrive(lines)
  /\ frames' = Append(frames, lines)
  /\ text' = Payload(lines)
  /\ finish' = FinishOf(lines, finish)
  /\ tools' = (tools \/ Has(lines, "tool"))
  /\ ended' = Has(lines, "done")
  /\ peeked' = peeked + 1
  /\ UNCHANGED <<phase, sent>>

PeekChunk(lines) ==
  /\ phase = "peek" /\ Window /\ Arrive(lines)
  /\ frames' = Append(frames, lines)
  /\ text' = text \o Payload(lines)
  /\ finish' = FinishOf(lines, finish)
  /\ tools' = (tools \/ Has(lines, "tool"))
  /\ ended' = Has(lines, "done")
  /\ peeked' = peeked + 1
  /\ UNCHANGED <<phase, sent>>

\* The upstream ends, or breaks off, which is taken for an end.
UpstreamEnds ==
  /\ up = "open"
  /\ \/ pos = Len(script) /\ up' = "eof"
     \/ up' = "error"
  /\ UNCHANGED <<esc, script, pos, got>>

\* Broken variant: a break closes the window, but is not noted as the end.
PeekEndUnmarked ==
  /\ phase = "peek" /\ Window /\ UpstreamEnds
  /\ ended' = (up' = "eof")
  /\ phase' = IF up' = "eof" \/ PrefixIsDegenerate(Prefix, esc) THEN "peek" ELSE "replay"
  /\ UNCHANGED <<frames, text, finish, tools, peeked, sent>>

PeekEnd ==
  /\ phase = "peek" /\ Window /\ UpstreamEnds
  /\ ended' = TRUE
  /\ UNCHANGED <<phase, frames, text, finish, tools, peeked, sent>>

\* forward judges the prefix: the stream is dropped, or replayed.
Judge ==
  /\ phase = "peek" /\ ~Window
  /\ phase' = IF PrefixIsDegenerate(Prefix, esc) THEN "rejected" ELSE "replay"
  /\ UNCHANGED <<esc, script, pos, up, frames, parsed, peeked, got, sent>>

\* Broken variant: the held-back frames go out last one first.
ReplayLast ==
  /\ phase = "replay"
  /\ \/ frames # <<>> /\ sent' = Append(sent, Last(frames)) /\ frames' = Front(frames)
        /\ UNCHANGED phase
     \/ frames = <<>> /\ phase' = "live" /\ UNCHANGED <<frames, sent>>
  /\ UNCHANGED <<esc, script, pos, up, parsed, peeked, got>>

\* The held-back frames go out first, in order, ...
Replay ==
  /\ phase = "replay"
  /\ \/ frames # <<>> /\ sent' = Append(sent, Head(frames)) /\ frames' = Tail(frames)
        /\ UNCHANGED phase
     \/ frames = <<>> /\ phase' = "live" /\ UNCHANGED <<frames, sent>>
  /\ UNCHANGED <<esc, script, pos, up, parsed, peeked, got>>

\* ... and then the rest of the stream as it comes.
LiveChunk(lines) ==
  /\ phase = "live" /\ Arrive(lines)
  /\ sent' = Append(sent, lines)
  /\ UNCHANGED <<phase, frames, parsed, peeked>>

\* An error reaches the client; a stream that is over stays over.
LiveEnd ==
  /\ phase = "live"
  /\ \/ UpstreamEnds /\ phase' = IF up' = "eof" THEN "closed" ELSE "failed"
     \/ up # "open" /\ phase' = "closed" /\ UNCHANGED <<esc, script, pos, up, got>>
  /\ UNCHANGED <<frames, parsed, peeked, sent>>

Over == phase \in {"rejected", "closed", "failed"} /\ UNCHANGED vars

Next ==
  \/ \E lines \in Chunks : PeekChunk(lines) \/ LiveChunk(lines)
  \/ PeekEnd \/ Judge \/ Replay \/ LiveEnd \/ Over

Spec == Init /\ [][Next]_vars

-----------------------------------------------------------------------------
Phases == {"peek", "rejected", "replay", "live", "closed", "failed"}

\* Every variable has its type.
TypeOK ==
  /\ esc \in Escs /\ script \in Scripts /\ pos \in 0 .. Len(script)
  /\ up \in {"open", "eof", "error"} /\ phase \in Phases
  /\ text \in Seq(Chars) /\ finish \in Reasons \cup {NoFinish}
  /\ tools \in BOOLEAN /\ ended \in BOOLEAN
  /\ peeked \in Nat

\* Whatever is held back goes out unchanged, once and in order, with the rest of
\* the stream behind it; and a stream that is rejected leaves no trace with the
\* client.
Verbatim == IF phase = "rejected" THEN sent = <<>> ELSE sent \o frames = got

\* No more chunks are held back than the cap allows.
HoldBackBound == peeked <= FrameCap

\* An answer with nothing against it: visible text without a refusal phrase, or
\* a tool call, and a normal end.
SoundScript ==
  /\ FinishOf(script, NoFinish) \in {"stop", "tool_calls"}
  /\ ~Refuses(Payload(script))
  /\ Trim(Payload(script)) # <<>> \/ Has(script, "tool")

\* A sound answer that arrives whole is never rejected, however it is cut into
\* chunks and whatever part of it the window shows.
SoundStreamKept == phase = "rejected" /\ up # "error" => ~SoundScript

\* Within the window, a filtered answer, or a short one with a refusal phrase.
BadHead ==
  LET all == Payload(script)
      head == SubSeq(all, 1, Min({MaxChars, Len(all)}))
  IN \/ FinishOf(script, NoFinish) = "content_filter" /\ Len(all) < MaxChars
     \/ esc.onRefusal /\ Len(all) <= RefusalCap /\ Refuses(head)

\* A stream that is bad within the window never reaches the client, however it is
\* cut, unless the cap on chunks closed the window first or the upstream broke.
BadHeadCaught ==
  phase \in {"replay", "live", "closed"} /\ peeked < FrameCap /\ up # "error" => ~BadHead

\* The window's verdict is the one the whole stream deserves.
VerdictIsRight == SoundStreamKept /\ BadHeadCaught

\* What the checks for empty answers and for refusals hold against an answer.
Fails(answer) ==
  \/ esc.onEmptyResponse /\ Trim(Payload(answer)) = <<>> /\ ~Has(answer, "tool")
  \/ esc.onRefusal /\ TextOf(Payload(answer)) = "refusal"

\* A client that sees its stream end normally has all of it.  Only a break behind
\* which nothing was sent but what was held back is passed off as an end, and what
\* arrived before it was then judged as a whole answer is.
CleanEndIsWhole ==
  phase = "closed" =>
    \/ pos = Len(script)
    \/ up = "error" /\ Len(sent) = peeked /\ ~Fails(SubSeq(script, 1, pos))

\* The configuration's comment says that an empty answer is escalated before
\* anything reaches the client.
EmptyStreamCaught ==
  /\ phase = "closed" /\ up = "eof" /\ esc.onEmptyResponse /\ peeked < FrameCap
  /\ Len(Payload(script)) < MaxChars
  => \/ Trim(Payload(script)) # <<>>
     \/ Has(script, "tool") \/ FinishOf(script, NoFinish) = "tool_calls"
=============================================================================
