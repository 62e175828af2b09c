-------------------------- MODULE AnthropicStream --------------------------
(***************************************************************************)
(* translate (src/anthropic_stream.rs): the adapter that reads an OpenAI   *)
(* chunk stream and is polled for Anthropic events.                        *)
(*                                                                         *)
(* handle_chunk treats the parts of a chunk one after the other - content, *)
(* each tool call, finish_reason, usage - and each is as good as a chunk   *)
(* of its own; so the input is a sequence of such parts, and the model     *)
(* takes one per step.  A part counts as arrived with the newline that     *)
(* ends its line: ingest leaves an unfinished line in its buffer.  Lines   *)
(* that are not data, or not JSON, do nothing and are left out.            *)
(***************************************************************************)
EXTENDS SequencesExt, Filter

CONSTANTS Texts,       \* non-empty content strings
          Tools,       \* the index of a tool call in the OpenAI stream
          Fragments,   \* non-empty fragments of a tool call's arguments
          Reasons,     \* OpenAI finish_reasons
          Counts,      \* completion_tokens of a usage chunk
          MaxParts     \* bound on the parts the upstream sends

ASSUME StreamAssumption ==
  /\ Counts \subseteq Nat /\ MaxParts \in Nat
  /\ \A x \in Texts \cup Fragments \cup Reasons \cup Tools : x # ""

VARIABLES mode,         \* "poll", inside "ingest", "closed" (None) or "dropped"
          done,         \* [DONE] was among the lines of this read
          started, finished,
          open,         \* the open block: its kind and index
          nextIndex,
          toolBlocks,   \* tool_blocks: the block of each tool seen
          stopReason, outputTokens,
          out,          \* the queue of events not yet pulled
          parts,        \* history: the parts that arrived
          sent,         \* history: the events the client pulled
          client        \* history: the client's parser

state == <<done, started, finished, open, nextIndex, toolBlocks, stopReason, outputTokens>>
vars == <<mode, state, out, parts, sent, client>>

P == INSTANCE AnthropicProtocol WITH taken <- sent

NoOpen == [kind |-> "none", index |-> P!NoBlock]

Init ==
  /\ mode = "poll"
  /\ done = FALSE /\ started = FALSE /\ finished = FALSE
  /\ open = NoOpen
  /\ nextIndex = 0
  /\ toolBlocks = [t \in Tools |-> P!NoBlock]
  /\ stopReason = "end_turn"
  /\ outputTokens = 0
  /\ out = <<>> /\ parts = <<>>
  /\ P!Init

-----------------------------------------------------------------------------
\* The events each helper queues.

EmitStart == IF started THEN <<>> ELSE <<P!MessageStart>>

CloseOpenBlock == IF open = NoOpen THEN <<>> ELSE <<P!BlockStop(open.index)>>

OpenBlock(kind, t) == CloseOpenBlock \o <<P!BlockStart(nextIndex, kind, t)>>

\* map_stop_reason.
MapStopReason(reason) ==
  CASE reason = "length" -> "max_tokens"
    [] reason \in {"tool_calls", "function_call"} -> "tool_use"
    [] OTHER -> "end_turn"

Arrive(part) ==
  /\ mode = "ingest"
  /\ Len(parts) < MaxParts
  /\ parts' = Append(parts, part)
  /\ UNCHANGED <<mode, finished, sent, client>>

-----------------------------------------------------------------------------
\* handle_chunk, by the part of the chunk.

\* A chunk that carries none of the parts below, such as the role chunk.
Blank ==
  /\ Arrive([part |-> "blank"])
  /\ out' = out \o EmitStart
  /\ started' = TRUE
  /\ UNCHANGED <<done, open, nextIndex, toolBlocks, stopReason, outputTokens>>

\* Broken variant: the content that opens a block is left out of it.
ContentOpensOnly(x) ==
  /\ Arrive([part |-> "text", data |-> x])
  /\ started' = TRUE
  /\ \/ /\ open.kind = "text"
        /\ out' = out \o EmitStart \o <<P!BlockDelta(open.index, "text", x)>>
        /\ UNCHANGED <<open, nextIndex>>
     \/ /\ open.kind # "text"
        /\ out' = out \o EmitStart \o OpenBlock("text", "")
        /\ open' = [kind |-> "text", index |-> nextIndex]
        /\ nextIndex' = nextIndex + 1
  /\ UNCHANGED <<done, toolBlocks, stopReason, outputTokens>>

\* delta.content: into the open text block, or into a new one.
Content(x) ==
  /\ Arrive([part |-> "text", data |-> x])
  /\ started' = TRUE
  /\ \/ /\ open.kind = "text"
        /\ out' = out \o EmitStart \o <<P!BlockDelta(open.index, "text", x)>>
        /\ UNCHANGED <<open, nextIndex>>
     \/ /\ open.kind # "text"
        /\ out' = out \o EmitStart \o OpenBlock("text", "")
                      \o <<P!BlockDelta(nextIndex, "text", x)>>
        /\ open' = [kind |-> "text", index |-> nextIndex]
        /\ nextIndex' = nextIndex + 1
  /\ UNCHANGED <<done, toolBlocks, stopReason, outputTokens>>

\* The first fragment of a tool call opens its block; arguments "" are not sent.
NewTool(t, args) ==
  /\ Arrive([part |-> "tool", tool |-> t, data |-> args])
  /\ toolBlocks[t] = P!NoBlock
  /\ started' = TRUE
  /\ out' = out \o EmitStart \o OpenBlock("tool_use", t)
                \o (IF args = "" THEN <<>> ELSE <<P!BlockDelta(nextIndex, "tool_use", args)>>)
  /\ open' = [kind |-> "tool_use", index |-> nextIndex]
  /\ nextIndex' = nextIndex + 1
  /\ toolBlocks' = [toolBlocks EXCEPT ![t] = nextIndex]
  /\ UNCHANGED <<done, stopReason, outputTokens>>

\* Broken variant: a fragment goes into whichever tool block is open.
MoreToolIntoOpen(t, args) ==
  /\ Arrive([part |-> "tool", tool |-> t, data |-> args])
  /\ toolBlocks[t] # P!NoBlock
  /\ out' = IF args # "" /\ open.kind = "tool_use"
            THEN Append(out, P!BlockDelta(open.index, "tool_use", args))
            ELSE out
  /\ UNCHANGED <<done, started, open, nextIndex, toolBlocks, stopReason, outputTokens>>

\* A further fragment is sent only while the block of its tool is the open one.
MoreTool(t, args) ==
  /\ Arrive([part |-> "tool", tool |-> t, data |-> args])
  /\ toolBlocks[t] # P!NoBlock
  /\ out' = IF args # "" /\ open = [kind |-> "tool_use", index |-> toolBlocks[t]]
            THEN Append(out, P!BlockDelta(toolBlocks[t], "tool_use", args))
            ELSE out
  /\ UNCHANGED <<done, started, open, nextIndex, toolBlocks, stopReason, outputTokens>>

\* Broken variants: the block is closed but still taken for open; the first
\* reason wins.
FinishReasonStillOpen(reason) ==
  /\ Arrive([part |-> "finish", data |-> reason])
  /\ started' = TRUE
  /\ out' = out \o EmitStart \o CloseOpenBlock
  /\ stopReason' = MapStopReason(reason)
  /\ UNCHANGED <<done, open, nextIndex, toolBlocks, outputTokens>>

FinishReasonFirst(reason) ==
  /\ Arrive([part |-> "finish", data |-> reason])
  /\ started' = TRUE
  /\ out' = out \o EmitStart \o CloseOpenBlock
  /\ open' = NoOpen
  /\ stopReason' = IF stopReason = "end_turn" THEN MapStopReason(reason) ELSE stopReason
  /\ UNCHANGED <<done, nextIndex, toolBlocks, outputTokens>>

FinishReason(reason) ==
  /\ Arrive([part |-> "finish", data |-> reason])
  /\ started' = TRUE
  /\ out' = out \o EmitStart \o CloseOpenBlock
  /\ open' = NoOpen
  /\ stopReason' = MapStopReason(reason)
  /\ UNCHANGED <<done, nextIndex, toolBlocks, outputTokens>>

Usage(n) ==
  /\ Arrive([part |-> "usage", data |-> n])
  /\ started' = TRUE
  /\ out' = out \o EmitStart
  /\ outputTokens' = n
  /\ UNCHANGED <<done, open, nextIndex, toolBlocks, stopReason>>

\* The [DONE] sentinel: ingest goes on with the lines after it.
DoneLine ==
  /\ Arrive([part |-> "done"])
  /\ done' = TRUE
  /\ UNCHANGED <<out, started, open, nextIndex, toolBlocks, stopReason, outputTokens>>

-----------------------------------------------------------------------------
\* One iteration of the polling loop: pop an event, or end, or read on.

\* The terminal events; called once, so the guard on stopped never matters.
Finalize ==
  /\ out' = out \o EmitStart \o CloseOpenBlock
                \o <<P!MessageDelta(stopReason, outputTokens), P!MessageStop>>
  /\ started' = TRUE
  /\ finished' = TRUE
  /\ open' = NoOpen
  /\ UNCHANGED <<done, nextIndex, toolBlocks, stopReason, outputTokens>>

Pull ==
  /\ mode = "poll" /\ out # <<>>
  /\ sent' = Append(sent, Head(out))
  /\ out' = Tail(out)
  /\ client' = P!After(client, Head(out))
  /\ UNCHANGED <<mode, state, parts>>

Close ==
  /\ mode = "poll" /\ out = <<>> /\ finished
  /\ mode' = "closed"
  /\ UNCHANGED <<state, out, parts, sent, client>>

\* upstream.next() returned bytes: ingest goes through their lines ...
Read ==
  /\ mode = "poll" /\ out = <<>> /\ ~finished
  /\ Len(parts) < MaxParts
  /\ mode' = "ingest"
  /\ UNCHANGED <<state, out, parts, sent, client>>

\* ... and, once they are used up, reports whether [DONE] was among them.
EndIngest ==
  /\ mode = "ingest"
  /\ mode' = "poll"
  /\ \/ done /\ Finalize
     \/ ~done /\ UNCHANGED <<state, out>>
  /\ UNCHANGED <<parts, sent, client>>

\* Broken variant: the terminal events are only sent on [DONE].
UpstreamEndsSilently ==
  /\ mode = "poll" /\ out = <<>> /\ ~finished
  /\ finished' = TRUE
  /\ UNCHANGED <<done, started, open, nextIndex, toolBlocks, stopReason, outputTokens,
                 out, mode, parts, sent, client>>

\* upstream.next() returned an error or the end.
UpstreamEnds ==
  /\ mode = "poll" /\ out = <<>> /\ ~finished
  /\ Finalize
  /\ UNCHANGED <<mode, parts, sent, client>>

\* The client goes away and the server drops the stream.
Drop ==
  /\ mode = "poll"
  /\ mode' = "dropped"
  /\ UNCHANGED <<state, out, parts, sent, client>>

Ended == mode \in {"closed", "dropped"} /\ UNCHANGED vars

Ingest ==
  \/ Blank
  \/ \E x \in Texts : Content(x)
  \/ \E t \in Tools, a \in Fragments \cup {""} : NewTool(t, a) \/ MoreTool(t, a)
  \/ \E reason \in Reasons : FinishReason(reason)
  \/ \E n \in Counts : Usage(n)
  \/ DoneLine

Next == Ingest \/ Pull \/ Close \/ Read \/ EndIngest \/ UpstreamEnds \/ Drop \/ Ended

Spec == Init /\ [][Next]_vars

\* The client keeps pulling until it leaves, a read has finitely many lines,
\* and the HTTP client's 300 s timeout, which covers the body, ends any stream.
Fairness == WF_vars(Pull) /\ WF_vars(Close) /\ WF_vars(EndIngest) /\ SF_vars(UpstreamEnds)

FairSpec == Spec /\ Fairness

-----------------------------------------------------------------------------
Part == [part: {"blank", "done"}]
        \cup [part: {"text"}, data: Texts] \cup [part: {"finish"}, data: Reasons]
        \cup [part: {"usage"}, data: Counts]
        \cup [part: {"tool"}, tool: Tools, data: Fragments \cup {""}]

Blocks == Nat \cup {P!NoBlock}

\* Every variable has its type.
TypeOK ==
  /\ mode \in {"poll", "ingest", "closed", "dropped"}
  /\ done \in BOOLEAN /\ started \in BOOLEAN /\ finished \in BOOLEAN
  /\ open \in [kind: P!Kinds, index: Nat] \cup {NoOpen}
  /\ nextIndex \in Nat
  /\ toolBlocks \in [Tools -> Blocks]
  /\ stopReason \in {"end_turn", "max_tokens", "tool_use"}
  /\ outputTokens \in Counts \cup {0}
  /\ parts \in Seq(Part)
  /\ client \in [phase: {"waiting", "content", "ending", "over"}, block: Blocks,
                 kind: P!Kinds \cup {"none"}, next: Nat]

\* Whatever the upstream sends, however it is cut into reads and wherever it
\* breaks off, each event the client receives is a legal one where it comes.
SpeaksAnthropic == P!Spec

\* The events put out so far, pulled or not, and what they are told apart by.
Emitted == sent \o out

TextDeltas == [type: {"content_block_delta"}, index: Nat, kind: {"text"}, data: Texts]
DeltasOf(i) ==
  [type: {"content_block_delta"}, index: {i}, kind: P!Kinds, data: Texts \cup Fragments]
ToolStarts == [type: {"content_block_start"}, index: Nat, kind: {"tool_use"}, tool: Tools]

TextParts == [part: {"text"}, data: Texts]
FragmentsOf(t) == [part: {"tool"}, tool: {t}, data: Fragments]
Finishes == [part: {"finish"}, data: Reasons]
Usages == [part: {"usage"}, data: Counts]

Data(events) == [k \in DOMAIN events |-> events[k].data]

\* The text arrives whole and in order, across all the blocks it is spread over.
TextInOrder == Data(Kept(Emitted, TextDeltas)) = Data(Kept(parts, TextParts))

Calls(i, t) == parts[i].part = "tool" /\ parts[i].tool = t

\* A tool has one block from its first fragment on, and the blocks of the tools
\* come in the order in which the tools first appear.
ToolBlocksInOrder ==
  LET starts == Kept(Emitted, ToolStarts)
  IN /\ \A t \in Tools :
          (\E i \in DOMAIN parts : Calls(i, t)) <=> (\E k \in DOMAIN starts : starts[k].tool = t)
     /\ \A j, k \in DOMAIN starts : j < k =>
          \E i \in DOMAIN parts :
            /\ Calls(i, starts[j].tool)
            /\ \A h \in DOMAIN parts : Calls(h, starts[k].tool) => i < h

\* A part that closes the block of tool t: a text, a finish_reason, another tool.
Breaks(i, t) ==
  parts[i].part \in {"text", "finish"} \/ (parts[i].part = "tool" /\ parts[i].tool # t)

\* Nothing like that between two fragments of tool t.
Uninterrupted(t) ==
  \A i, j, k \in DOMAIN parts : i < j /\ j < k /\ Calls(i, t) /\ Calls(k, t) => ~Breaks(j, t)

SentArguments(t) == Data(Kept(Emitted, DeltasOf(toolBlocks[t])))
ArgumentsOf(t) == Data(Kept(parts, FragmentsOf(t)))      \* what arrived for tool t

\* The arguments a tool's block carries are a prefix of those that arrived, so
\* never reordered, repeated or another tool's; and all of them when nothing
\* came in between.
ToolArgumentsPrefix ==
  \A t \in Tools : toolBlocks[t] # P!NoBlock =>
    /\ IsPrefix(SentArguments(t), ArgumentsOf(t))
    /\ Uninterrupted(t) => SentArguments(t) = ArgumentsOf(t)

\* Tool calls reach the client as they came: one block each, in order, with no
\* argument that is not theirs.
ToolCallsArrive == ToolBlocksInOrder /\ ToolArgumentsPrefix

\* The module's comment promises that each streamed tool call becomes a tool_use
\* block with its argument fragments.
AllToolArgumentsSent ==
  \A t \in Tools : toolBlocks[t] # P!NoBlock => SentArguments(t) = ArgumentsOf(t)

\* The last finish_reason and usage that arrived, or the defaults.
LastReason ==
  LET finishes == Kept(parts, Finishes)
  IN IF finishes = <<>> THEN "end_turn" ELSE MapStopReason(Last(finishes).data)

LastCount ==
  LET usages == Kept(parts, Usages) IN IF usages = <<>> THEN 0 ELSE Last(usages).data

\* The closing message_delta reports the last finish_reason and usage that
\* arrived before the end, however late the usage came.
ClosingIsTrue ==
  \A i \in DOMAIN Emitted : Emitted[i].type = "message_delta" =>
    Emitted[i].reason = LastReason /\ Emitted[i].tokens = LastCount

\* A client that stays gets a whole message: its stream is closed, and only
\* after message_stop.
MessageEnds == <>(mode = "dropped" \/ (mode = "closed" /\ client.phase = "over"))
=============================================================================
