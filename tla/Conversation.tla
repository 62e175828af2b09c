---------------------------- MODULE Conversation ----------------------------
(***************************************************************************)
(* An agent that talks to /v1/messages, turn after turn, and what becomes  *)
(* of its history on the way: convert_anthropic_to_openai, the explore     *)
(* stage (is_fresh_task, explore_query, inject_evidence) and               *)
(* convert_openai_to_anthropic of main.rs, over the types of models.rs.    *)
(*                                                                         *)
(* A text is a sequence of words, so that joining texts joins sequences;   *)
(* the word " " is white space and an image is a part whose one word names *)
(* it.  The arguments of a tool call are "{}", other JSON or no JSON.      *)
(***************************************************************************)
EXTENDS Naturals, SequencesExt

CONSTANTS Vocabulary,   \* the words of texts and arguments
          Ids,          \* the ids of tool calls
          Systems,      \* system prompts: NoSystem, or a sequence of texts
          Says,         \* what a user says: messages of text and images
          Asides,       \* texts a user adds to the results of tools
          Replies,      \* what the upstream answers
          Streams,      \* what the stream adapter makes of an answer: blocks
          MaxMessages   \* bound on the messages of a history

NoSystem == <<<<"absent">>>>
NoId == "no id"

Word == Vocabulary \cup {"absent", "context", "out", "{}"}
Id == Ids \cup {NoId}

BlockType == [type: {"text", "image", "tool_use", "tool_result", "thinking", "image_url"},
              words: Seq(Word), id: Id]
SaidType == [role: {"user", "assistant"}, form: {"text", "blocks"}, blocks: Seq(BlockType)]
PartType == [type: {"text", "image"}, words: Seq(Word)]
CallType == [id: Id, args: Seq(Word)]
ReplyType == [content: Seq(PartType), calls: Seq(CallType),
              finish: {"stop", "length", "tool_calls", "function_call"}]

\* A user says texts and images; an answer that is streamed is texts and calls, and
\* blocks without words.
ASSUME ConversationAssumption ==
  /\ Systems \subseteq Seq(Seq(Word)) /\ Asides \subseteq Seq(Word)
  /\ Replies \subseteq ReplyType
  /\ \A said \in Says :
       /\ said \in SaidType /\ said.role = "user"
       /\ \A i \in DOMAIN said.blocks : said.blocks[i].type \in {"text", "image"}
  /\ \A blocks \in Streams :
       /\ blocks \in Seq(BlockType)
       /\ \A i \in DOMAIN blocks :
            \/ blocks[i].type \in {"text", "tool_use"}
            \/ blocks[i].type = "thinking" /\ blocks[i].words = <<>>

\* What the gateway counts on: an upstream that calls tools says so when it stops.
ASSUME RepliesAssumption ==
  \A r \in Replies : r.calls # <<>> <=> r.finish = "tool_calls"

VARIABLES system, explorer,   \* the agent's prompt; is exploration enabled?
          history,            \* the agent's messages, resent with each request
          turn,               \* "agent", "gateway" or "upstream"
          request, evidence,  \* what upstream was sent last; was it enriched?
          reply, stop           \* what upstream answered last; its stop_reason

conversation == <<system, explorer, history, turn, request, evidence, reply, stop>>

Block(type, words, id) == [type |-> type, words |-> words, id |-> id]
Said(role, form, blocks) == [role |-> role, form |-> form, blocks |-> blocks]
Message(role, content) == [role |-> role, content |-> content, calls |-> <<>>, id |-> NoId]
Part(type, words) == [type |-> type, words |-> words]
Text(words) == <<Part("text", words)>>
NoReply == [content |-> Text(<<>>), calls |-> <<>>, finish |-> "none"]

MapSeq(Op(_), s) == [i \in DOMAIN s |-> Op(s[i])]
FlatMap(Op(_), s) == FlattenSeq(MapSeq(Op, s))
Only(test, x) == IF test THEN <<x>> ELSE <<>>

OfType(type, s) == FlatMap(LAMBDA b : Only(b.type = type, b), s)
Words(s) == FlatMap(LAMBDA b : b.words, s)
Blank(words) == \A i \in DOMAIN words : words[i] = " "

ConversationInit ==
  /\ system \in Systems /\ explorer \in BOOLEAN
  /\ history = <<>> /\ turn = "agent"
  /\ request = <<>> /\ evidence = FALSE /\ reply = NoReply /\ stop = "end_turn"

-----------------------------------------------------------------------------
\* convert_anthropic_to_openai, block by block.  An image without a source and a
\* block of any other type, such as thinking, are dropped.
Parts(blocks) ==
  FlatMap(LAMBDA b : Only(b.type = "text" \/ (b.type = "image" /\ b.words # <<>>),
                          Part(b.type, b.words)),
          blocks)

\* Broken variant: a message is its text, images or not.
TextOnly(parts) == Text(Words(OfType("text", parts)))

\* Parts are kept apart only if there is an image among them.
PartsToContent(parts) ==
  IF OfType("image", parts) # <<>> THEN parts ELSE Text(Words(parts))

ToolCalls(blocks) ==
  MapSeq(LAMBDA b : [id |-> b.id, args |-> b.words], OfType("tool_use", blocks))

ToolResults(blocks) ==
  MapSeq(LAMBDA b : [Message("tool", Text(b.words)) EXCEPT !.id = b.id],
         OfType("tool_result", blocks))

HasContent(parts) == \E i \in DOMAIN parts : parts[i].words # <<>>

\* Broken variant: results and talk in the order in which the turn has them.
TurnAsSaid(said) ==
  LET first == IF said.blocks = <<>> THEN "none" ELSE said.blocks[1].type
      results == ToolResults(said.blocks)
      rest == [Message(said.role, PartsToContent(Parts(said.blocks)))
                 EXCEPT !.calls = ToolCalls(said.blocks)]
      talk == IF rest.calls # <<>> \/ HasContent(Parts(said.blocks)) THEN <<rest>> ELSE <<>>
  IN IF first = "tool_result" THEN results \o talk ELSE talk \o results

\* The results of a turn go first, as messages of their own; what else it says is
\* one more message, if it says anything.
Turn(said) ==
  LET blocks == said.blocks
      rest == [Message(said.role, PartsToContent(Parts(blocks)))
                 EXCEPT !.calls = ToolCalls(blocks)]
  IN IF said.form = "text" THEN <<Message(said.role, Text(Words(blocks)))>>
     ELSE ToolResults(blocks)
          \o IF rest.calls # <<>> \/ HasContent(Parts(blocks)) THEN <<rest>> ELSE <<>>

Prompt == IF system = NoSystem THEN <<>>
          ELSE <<Message("system", Text(FlattenSeq(system)))>>

Convert(messages) == Prompt \o FlatMap(Turn, messages)

\* Broken variant: a task is fresh when a user spoke last.
FreshByLast(messages) == messages # <<>> => Last(messages).role = "user"

\* is_fresh_task, over the converted messages: what the conversion drops does not
\* count as a turn.
IsFreshTask(messages) ==
  \A i \in DOMAIN messages : messages[i].role \notin {"assistant", "tool"}

\* explore_query: the text of the latest user message, unless it is blank.
HasQuery(messages) ==
  LET asked == SelectSeq(messages, LAMBDA m : m.role = "user")
  IN asked # <<>> /\ ~Blank(Words(OfType("text", Last(asked).content)))

Context == Message("system", Text(<<"context">>))

\* Before the first message that is not a system message.
InjectEvidence(messages) ==
  LET lead == SelectInSeq(messages, LAMBDA m : m.role # "system")
  IN InsertAt(messages, IF lead = 0 THEN Len(messages) + 1 ELSE lead, Context)

\* convert_openai_to_anthropic.
MapFinish(finish) ==
  CASE finish \in {"tool_calls", "function_call"} -> "tool_use"
    [] finish = "length" -> "max_tokens"
    [] OTHER -> "end_turn"

Input(args) == IF args = <<"no json">> THEN <<"{}">> ELSE args

\* Broken variant: the text beside a call is forgotten.
CallsOrText(r) ==
  IF r.calls = <<>> THEN MapSeq(LAMBDA p : Block("text", p.words, NoId), r.content)
  ELSE MapSeq(LAMBDA c : Block("tool_use", Input(c.args), c.id), r.calls)

ReplyBlocks(r) ==
  LET one == OfType("image", r.content) = <<>>
      texts == IF one THEN FlatMap(LAMBDA p : Only(p.words # <<>>, p), r.content) ELSE r.content
  IN MapSeq(LAMBDA p : IF p.type = "text" THEN Block("text", p.words, NoId)
                       ELSE Block("image_url", <<>>, NoId), texts)
     \o MapSeq(LAMBDA c : Block("tool_use", Input(c.args), c.id), r.calls)

-----------------------------------------------------------------------------
Calls(said) == OfType("tool_use", said.blocks)

\* The agent resumes its loop when the stop_reason is "tool_use".
Pending == stop = "tool_use"

Send(said) ==
  /\ turn = "agent" /\ Len(history) < MaxMessages
  /\ history' = Append(history, said)
  /\ turn' = "gateway"
  /\ UNCHANGED <<system, explorer, request, evidence, reply, stop>>

Ask == ~Pending /\ \E said \in Says : Send(said)

\* The agent answers every call of the last turn, in any order and with or
\* without a remark of its own.
Answer ==
  /\ Pending
  /\ LET calls == Calls(Last(history))
     IN \E order \in SetToSeqs(DOMAIN calls), aside \in Asides, first \in BOOLEAN :
          LET results == MapSeq(LAMBDA i : Block("tool_result", <<"out">>, calls[i].id), order)
              text == <<Block("text", aside, NoId)>>
          IN Send(Said("user", "blocks", IF first THEN text \o results ELSE results \o text))

\* The gateway converts the history and may enrich it: the explorer finds
\* something, finds nothing or fails.
Forward ==
  /\ turn = "gateway"
  /\ \E found \in BOOLEAN :
       /\ found => explorer /\ IsFreshTask(Convert(history)) /\ HasQuery(Convert(history))
       /\ evidence' = found
       /\ request' = IF found THEN InjectEvidence(Convert(history)) ELSE Convert(history)
  /\ turn' = "upstream"
  /\ UNCHANGED <<system, explorer, history, reply, stop>>

Receive(r, blocks, reason) ==
  /\ Len(history) < MaxMessages
  /\ reply' = r /\ stop' = reason
  /\ history' = Append(history, Said("assistant", "blocks", blocks))
  /\ turn' = "agent"
  /\ UNCHANGED <<system, explorer, request, evidence>>

Reply ==
  /\ turn = "upstream"
  /\ \E r \in Replies : Receive(r, ReplyBlocks(r), MapFinish(r.finish))

\* An answer that was streamed: its texts and calls in any order.
Stream ==
  /\ turn = "upstream"
  /\ \E blocks \in Streams :
       Receive(NoReply, blocks,
               IF OfType("tool_use", blocks) # <<>> THEN "tool_use" ELSE "end_turn")

\* The request fails, and the agent sends its history again.
Fail ==
  /\ turn = "upstream"
  /\ turn' = "gateway"
  /\ UNCHANGED <<system, explorer, history, request, evidence, reply, stop>>

ConversationNext == Ask \/ Answer \/ Forward \/ Reply \/ Stream \/ Fail

ConversationSpec == ConversationInit /\ [][ConversationNext]_conversation

-----------------------------------------------------------------------------
\* The chat protocol: every call of an assistant message is answered, once, by
\* the tool messages right behind it, and no tool message stands anywhere else.
Legal(ms) ==
  \A i \in DOMAIN ms :
    LET m == ms[i]
        answers == i + 1 .. i + Len(m.calls)
    IN /\ m.role = "assistant" /\ m.calls # <<>> =>
            /\ answers \subseteq DOMAIN ms
            /\ {ms[k].id : k \in answers} = {m.calls[k].id : k \in DOMAIN m.calls}
            /\ \A k \in answers : ms[k].role = "tool"
       /\ m.role = "tool" =>
            \E j \in 1 .. i - 1 : ms[j].role = "assistant" /\ i \in j + 1 .. j + Len(ms[j].calls)

\* What is sent upstream is legal.
UpstreamLegal == Legal(request)

\* What a message, or what the agent said, holds: the words and images of a turn
\* under its role, the calls it makes and the results it reports.
Spoken(role, words) == MapSeq(LAMBDA w : <<role, w>>, words)
CallIds(s) == MapSeq(LAMBDA c : c.id, s)
IsTurn(m) == m.role \in {"user", "assistant"}

SpokenIn(m) == IF IsTurn(m) THEN Spoken(m.role, Words(m.content)) ELSE <<>>
CallsIn(m) == IF IsTurn(m) THEN CallIds(m.calls) ELSE <<>>
ResultsIn(m) == Only(m.role = "tool", <<m.id, Words(m.content)>>)

SpokenBy(said) ==
  Spoken(said.role, FlatMap(LAMBDA b : IF b.type \in {"text", "image"} THEN b.words ELSE <<>>,
                            said.blocks))
CallsBy(said) == CallIds(Calls(said))
ResultsBy(said) ==
  MapSeq(LAMBDA b : <<b.id, b.words>>, OfType("tool_result", said.blocks))

\* Everything the agent's history holds reaches the upstream once, under the role
\* it was said in and in order among its kind: words and images, calls, results.
NothingLost ==
  turn = "upstream" =>
    /\ FlatMap(SpokenIn, request) = FlatMap(SpokenBy, history)
    /\ FlatMap(CallsIn, request) = FlatMap(CallsBy, history)
    /\ FlatMap(ResultsIn, request) = FlatMap(ResultsBy, history)

\* Evidence stands once, behind the agent's own prompt and before its first turn,
\* with nothing else changed; and only while the upstream has said nothing yet.
EvidencePlaced ==
  turn = "upstream" =>
    LET at == Len(Prompt) + 1
    IN IF evidence
       THEN /\ request[at] = Context
            /\ RemoveAt(request, at) = Convert(history)
            /\ \A i \in DOMAIN history :
                 history[i].role = "assistant" => Blank(Words(history[i].blocks))
       ELSE request = Convert(history)

\* An answer of text that is not streamed comes back, with the next request, as the
\* message the upstream wrote: its text and its calls, under their ids, with the
\* arguments it gave if they are JSON; or not at all if it was empty.
RoundTrip ==
  turn = "agent" /\ reply # NoReply /\ reply.content = Text(Words(reply.content)) =>
    LET back == Turn(Last(history))
        empty == reply.calls = <<>> /\ ~HasContent(reply.content)
    IN IF empty THEN back = <<>>
       ELSE /\ Len(back) = 1
            /\ back[1].role = "assistant" /\ back[1].content = reply.content
            /\ Len(back[1].calls) = Len(reply.calls)
            /\ \A i \in DOMAIN reply.calls :
                 /\ back[1].calls[i].id = reply.calls[i].id
                 /\ \/ reply.calls[i].args = <<"no json">>
                    \/ back[1].calls[i].args = reply.calls[i].args
=============================================================================
