---------------------------- MODULE ExploreLoop ----------------------------
(***************************************************************************)
(* run_loop and flush_final (src/explore/client.rs): the turns of the      *)
(* FastContext explorer.  The model asks for a batch of tool calls, the    *)
(* tools run side by side on blocking threads, and their observations go   *)
(* back in the order of the calls.  A tool task that was started runs on   *)
(* even when the request that wanted it is gone.                           *)
(***************************************************************************)
EXTENDS Integers, FiniteSets, SequencesExt

CONSTANTS MaxTurns,     \* explore.max_turns
          Ids,          \* the ids the model gives its tool calls, repeated or not
          Batches       \* the tool calls of one turn, as sequences of ids

ASSUME ExploreAssumption == MaxTurns \in Nat /\ Batches \subseteq Seq(Ids)

\* content: absent, blank, prose, or prose with a <final_answer> block.
Contents == {"absent", "blank", "prose", "final"}

VARIABLES pc,        \* "chat", "tools", "flush", "done" or "gone"
          turn,
          messages,  \* the history sent with each request
          lastText,  \* last_text: what it says and the turn that said it
          total,     \* total_tool_calls
          tasks,     \* the state of each tool task of the current batch
          cap,       \* the loop ran to its end
          outcome,   \* LoopOutcome
          asked      \* history: requests the model was sent

vars == <<pc, turn, messages, lastText, total, tasks, cap, outcome, asked>>

System == [role |-> "system"]
User(prompt) == [role |-> "user", prompt |-> prompt]
Assistant(t, says, calls) == [role |-> "assistant", turn |-> t, says |-> says, calls |-> calls]
\* An observation: of which call, in which turn, and whether its task panicked.
Observation(id, t, j, ok) == [role |-> "tool", id |-> id, turn |-> t, of |-> j, ok |-> ok]

NoText == [says |-> "blank", turn |-> 0]
NoOutcome == [text |-> NoText, turns |-> 0, toolCalls |-> 0, cap |-> FALSE]

Turns == IF MaxTurns = 0 THEN 1 ELSE MaxTurns

Init ==
  /\ pc = "chat" /\ turn = 1
  /\ messages = <<System, User("query")>>
  /\ lastText = NoText /\ total = 0 /\ tasks = <<>> /\ cap = FALSE
  /\ outcome = NoOutcome
  /\ asked = 0

Finish(text, turns) ==
  /\ pc' = "done"
  /\ outcome' = [text |-> text, turns |-> turns, toolCalls |-> total, cap |-> cap]

\* A failed turn ends the loop with what it has.
ChatFails ==
  /\ pc = "chat"
  /\ asked' = asked + 1
  /\ Finish(lastText, turn)
  /\ UNCHANGED <<turn, messages, lastText, total, tasks, cap>>

\* The assistant's message joins the history, and its text the last text.
Hear(says, calls) ==
  /\ pc = "chat"
  /\ asked' = asked + 1
  /\ lastText' = IF says = "absent" THEN lastText ELSE [says |-> says, turn |-> turn]

\* A final answer ends the loop, whatever else the turn asks for.
FinalAnswer(calls) ==
  /\ Hear("final", calls)
  /\ messages' = Append(messages, Assistant(turn, "final", calls))
  /\ Finish(lastText', turn)
  /\ UNCHANGED <<turn, total, tasks, cap>>

\* Neither an answer nor tool calls: ask once more, without tools.
StopsCalling(says) ==
  /\ says # "final" /\ Hear(says, <<>>)
  /\ messages' = messages \o <<Assistant(turn, says, <<>>), User("flush")>>
  /\ pc' = "flush"
  /\ UNCHANGED <<turn, total, tasks, cap, outcome>>

CallTools(says, calls) ==
  /\ says # "final" /\ calls # <<>> /\ Hear(says, calls)
  /\ messages' = Append(messages, Assistant(turn, says, calls))
  /\ total' = total + Len(calls)
  /\ tasks' = [j \in DOMAIN calls |-> "running"]
  /\ pc' = "tools"
  /\ UNCHANGED <<turn, cap, outcome>>

\* spawn_blocking: the tasks end in any order, each by itself.
RunTool(j) ==
  /\ tasks[j] = "running"
  /\ \E s \in {"ok", "panicked"} : tasks' = [tasks EXCEPT ![j] = s]
  /\ UNCHANGED <<pc, turn, messages, lastText, total, cap, outcome, asked>>

Calls == Last(messages).calls

\* Broken variant: a task that panicked leaves no observation.
ObservationsOfTheLiving ==
  LET alive == SelectSeq([j \in DOMAIN Calls |-> j], LAMBDA j : tasks[j] = "ok")
  IN [k \in DOMAIN alive |-> Observation(Calls[alive[k]], turn, alive[k], TRUE)]

Observations == [j \in DOMAIN Calls |-> Observation(Calls[j], turn, j, tasks[j] = "ok")]

\* Broken variant: the batch is only done when every task succeeded.
JoinNeedsAll ==
  /\ pc = "tools"
  /\ \A j \in DOMAIN tasks : tasks[j] = "ok"
  /\ tasks' = <<>>
  /\ \/ /\ turn < Turns
        /\ messages' = messages \o Observations
        /\ turn' = turn + 1 /\ pc' = "chat"
        /\ UNCHANGED cap
     \/ /\ turn >= Turns
        /\ messages' = messages \o Observations \o <<User("flush")>>
        /\ pc' = "flush" /\ cap' = TRUE
        /\ UNCHANGED turn
  /\ UNCHANGED <<lastText, total, outcome, asked>>

\* join_all: the observations in the order of the calls; then the next turn, or
\* after the last one the flush.
Join ==
  /\ pc = "tools"
  /\ \A j \in DOMAIN tasks : tasks[j] # "running"
  /\ tasks' = <<>>
  /\ \/ /\ turn < Turns
        /\ messages' = messages \o Observations
        /\ turn' = turn + 1 /\ pc' = "chat"
        /\ UNCHANGED cap
     \/ /\ turn >= Turns
        /\ messages' = messages \o Observations \o <<User("flush")>>
        /\ pc' = "flush" /\ cap' = TRUE
        /\ UNCHANGED turn
  /\ UNCHANGED <<lastText, total, outcome, asked>>

\* Broken variant: whatever the flush says is the answer.
FlushVerbatim(says) ==
  /\ pc = "flush"
  /\ asked' = asked + 1
  /\ Finish([says |-> says, turn |-> turn + 1], turn)
  /\ UNCHANGED <<turn, messages, lastText, total, tasks, cap>>

\* flush_final: the forced answer if it says anything, else the last text; a
\* failed call is one that says nothing.
Flush(says) ==
  /\ pc = "flush"
  /\ asked' = asked + 1
  /\ Finish(IF says \in {"absent", "blank"} THEN lastText
            ELSE [says |-> says, turn |-> turn + 1], turn)
  /\ UNCHANGED <<turn, messages, lastText, total, tasks, cap>>

\* The client leaves; the tool tasks are not cancelled.
Drop ==
  /\ pc \in {"chat", "tools", "flush"}
  /\ pc' = "gone"
  /\ UNCHANGED <<turn, messages, lastText, total, tasks, cap, outcome, asked>>

\* The loop is over, and so are its tasks.
Over ==
  /\ pc \in {"done", "gone"} /\ \A j \in DOMAIN tasks : tasks[j] # "running"
  /\ UNCHANGED vars

Chat ==
  \/ ChatFails
  \/ \E calls \in Batches : FinalAnswer(calls)
  \/ \E says \in Contents : StopsCalling(says)
  \/ \E says \in Contents, calls \in Batches : CallTools(says, calls)

Next ==
  \/ Chat
  \/ \E j \in DOMAIN tasks : RunTool(j)
  \/ Join
  \/ \E says \in Contents : Flush(says)
  \/ Drop \/ Over

Spec == Init /\ [][Next]_vars

\* The model answers or its 120 s timeout does; a tool reads a local tree, which
\* is finite; and the runtime polls the loop when either is ready.
Fairness ==
  /\ WF_vars(Chat) /\ WF_vars(Join)
  /\ WF_vars(\E says \in Contents : Flush(says))
  /\ WF_vars(\E j \in DOMAIN tasks : RunTool(j))

FairSpec == Spec /\ Fairness

-----------------------------------------------------------------------------
Messages ==
  {System} \cup [role: {"user"}, prompt: {"query", "flush"}]
  \cup [role: {"assistant"}, turn: Nat, says: Contents, calls: Seq(Ids)]
  \cup [role: {"tool"}, id: Ids, turn: Nat, of: Nat, ok: BOOLEAN]

TextType == [says: Contents \ {"absent"}, turn: Nat]

\* Every variable has its type.
TypeOK ==
  /\ pc \in {"chat", "tools", "flush", "done", "gone"}
  /\ turn \in 1 .. Turns
  /\ messages \in Seq(Messages)
  /\ lastText \in TextType
  /\ total \in Nat /\ asked \in Nat /\ cap \in BOOLEAN
  /\ tasks \in Seq({"running", "ok", "panicked"})
  /\ outcome \in [text: TextType, turns: Nat, toolCalls: Nat, cap: BOOLEAN]

\* Every request the model is sent has, after each assistant message and in the
\* order of its calls, one observation for each call, under the call's own id
\* and of the call's own task: what the chat protocol asks for, whatever the
\* order in which the tools finish and even if one of them panics.
EveryCallAnswered ==
  pc \in {"chat", "flush"} =>
    \A i \in DOMAIN messages : messages[i].role = "assistant" =>
      \A j \in DOMAIN messages[i].calls :
        /\ i + j <= Len(messages)
        /\ LET m == messages[i + j]
           IN m.role = "tool" /\ m.id = messages[i].calls[j]
                /\ m.turn = messages[i].turn /\ m.of = j

Count(ms, role) == Cardinality({i \in DOMAIN ms : ms[i].role = role})
CountOf(role) == Count(messages, role)

\* The statistics are those of the run: the turns taken and the tools run, the
\* cap reported exactly when the last turn still called tools; and the model is
\* never sent more than the turns allowed and one flush.
StatsTrue ==
  pc = "done" =>
    /\ outcome.toolCalls = CountOf("tool")
    /\ outcome.turns \in CountOf("assistant") .. CountOf("assistant") + 1
    /\ outcome.turns >= 1 /\ outcome.turns <= Turns
    /\ asked <= Turns + 1
    /\ outcome.cap <=> /\ outcome.turns = Turns
                       /\ CountOf("user") = 2
                       /\ messages[Len(messages) - 1].role = "tool"

Speaks(m) == m.role = "assistant" /\ m.says # "absent"

\* text is what the model last said in the history, if it said anything.
LastSaid(ms, text) ==
  \/ text = NoText /\ \A i \in DOMAIN ms : ~Speaks(ms[i])
  \/ \E i \in DOMAIN ms :
       /\ Speaks(ms[i]) /\ text = [says |-> ms[i].says, turn |-> ms[i].turn]
       /\ \A k \in DOMAIN ms : Speaks(ms[k]) => k <= i

\* The answer is the flush's or the last thing the model said; and the loop is
\* only left without a final answer after a flush or a failed request.
AnswerIsLastWord ==
  pc = "done" =>
    \/ LastSaid(messages, outcome.text)
    \/ /\ CountOf("user") = 2
       /\ outcome.text.says \in {"prose", "final"} /\ outcome.text.turn > outcome.turns

\* What the loop hands on is true of the run that led there: its figures and its
\* text.
OutcomeIsTrue == StatsTrue /\ AnswerIsLastWord

\* The exploration comes to an end.
ExploreEnds == <>(pc \in {"done", "gone"})
=============================================================================
