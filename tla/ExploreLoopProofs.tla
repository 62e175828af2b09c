------------------------- MODULE ExploreLoopProofs -------------------------
(***************************************************************************)
(* The history the explorer's model is sent is well formed, and what the   *)
(* loop reports of itself is true of that history, for every number of     *)
(* turns and every batch of calls it may ask for.                          *)
(***************************************************************************)
EXTENDS ExploreLoop, SequenceTheorems, FiniteSetTheorems, TLAPS

\* Message m answers call j of message a.
Answers(m, a, j) == m.role = "tool" /\ m.id = a.calls[j] /\ m.turn = a.turn /\ m.of = j

\* Every call in the history has its observation where it belongs.
Answered(ms) ==
  \A i \in DOMAIN ms : ms[i].role = "assistant" =>
    \A j \in DOMAIN ms[i].calls : i + j <= Len(ms) /\ Answers(ms[i + j], ms[i], j)

\* While the tools run, the last message holds the calls of the batch.
Waiting(ms) ==
  \E front \in Seq(Messages), says \in Contents, calls \in Seq(Ids) :
    /\ ms = Append(front, Assistant(turn, says, calls))
    /\ Answered(front)
    /\ Len(tasks) = Len(calls)

IInv ==
  /\ TypeOK
  /\ pc \in {"chat", "flush"} => Answered(messages)
  /\ pc = "tools" => Waiting(messages)

LEMMA AssistantCalls ==
  ASSUME NEW m \in Messages, m.role = "assistant"
  PROVE  m.calls \in Seq(Ids) /\ m.turn \in Nat
  BY DEF Messages, System

\* Histories that are well formed may be put one behind the other.
LEMMA AnsweredConcat ==
  ASSUME NEW a \in Seq(Messages), NEW b \in Seq(Messages), Answered(a), Answered(b)
  PROVE  Answered(a \o b)
<1> DEFINE c == a \o b
           m == Len(a)
           n == Len(b)
<1>1. /\ m \in Nat /\ n \in Nat /\ DOMAIN a = 1 .. m /\ DOMAIN b = 1 .. n
      /\ c \in Seq(Messages) /\ Len(c) = m + n /\ DOMAIN c = 1 .. m + n
      /\ \A i \in 1 .. m + n : c[i] = IF i <= m THEN a[i] ELSE b[i - m]
  <2>1. c \in Seq(Messages) /\ Len(c) = m + n
        /\ \A i \in 1 .. m + n : c[i] = IF i <= m THEN a[i] ELSE b[i - m]
    BY ConcatProperties
  <2> QED
    BY <2>1, LenProperties
<1> HIDE DEF c, m, n
<1>2. ASSUME NEW i \in 1 .. m + n, c[i].role = "assistant", NEW j \in DOMAIN c[i].calls
      PROVE  i + j <= m + n /\ Answers(c[i + j], c[i], j)
  <2>1. CASE i <= m
    <3>1. c[i] = a[i] /\ i \in DOMAIN a
      BY <1>1, <2>1
    <3>2. i + j <= m /\ Answers(a[i + j], a[i], j)
      BY <1>2, <3>1 DEF Answered, m
    <3>3. a[i] \in Messages /\ a[i].calls \in Seq(Ids)
      BY <1>2, <3>1, ElementOfSeq, <1>1, AssistantCalls
    <3>4. j \in Nat /\ j >= 1
      BY <1>2, <3>1, <3>3, LenProperties
    <3>5. c[i + j] = a[i + j]
      BY <1>1, <3>2, <3>4, <2>1
    <3> QED
      BY <1>1, <3>1, <3>2, <3>4, <3>5
  <2>2. CASE i > m
    <3>1. c[i] = b[i - m] /\ i - m \in DOMAIN b
      BY <1>1, <2>2
    <3>2. (i - m) + j <= n /\ Answers(b[(i - m) + j], b[i - m], j)
      BY <1>2, <3>1 DEF Answered, n
    <3>3. b[i - m] \in Messages /\ b[i - m].calls \in Seq(Ids)
      BY <1>2, <3>1, ElementOfSeq, <1>1, AssistantCalls
    <3>4. j \in Nat /\ j >= 1
      BY <1>2, <3>1, <3>3, LenProperties
    <3>5. i + j \in 1 .. m + n /\ i + j > m /\ (i + j) - m = (i - m) + j
      BY <1>1, <3>2, <3>4, <2>2
    <3>6. c[i + j] = b[(i - m) + j]
      BY <1>1, <3>5
    <3> QED
      BY <1>1, <3>1, <3>2, <3>4, <3>5, <3>6
  <2> QED
    BY <1>1, <2>1, <2>2
<1> QED
  BY <1>1, <1>2 DEF Answered, c

\* A message that calls no tool, a prompt, and a batch with its observations are
\* well formed.
LEMMA AnsweredPlain ==
  ASSUME NEW m \in Messages, m.role # "assistant"
  PROVE  <<m>> \in Seq(Messages) /\ Answered(<<m>>)
  BY DEF Answered

LEMMA AnsweredSilent ==
  ASSUME NEW t \in Nat, NEW says \in Contents
  PROVE  /\ <<Assistant(t, says, <<>>)>> \in Seq(Messages)
         /\ Answered(<<Assistant(t, says, <<>>)>>)
<1> DEFINE m == Assistant(t, says, <<>>)
<1>1. m \in Messages /\ m.calls = <<>>
  BY DEF Messages, Assistant
<1> HIDE DEF m
<1>2. <<m>> \in Seq(Messages) /\ Answered(<<m>>)
  BY <1>1 DEF Answered
<1> QED
  BY <1>2 DEF m

\* A batch with one observation for each of its calls, in their order.
LEMMA AnsweredBatch ==
  ASSUME NEW t \in Nat, NEW says \in Contents, NEW calls \in Seq(Ids), NEW obs,
         obs \in [DOMAIN calls -> Messages],
         \A j \in DOMAIN calls : Answers(obs[j], Assistant(t, says, calls), j)
  PROVE  /\ obs \in Seq(Messages) /\ <<Assistant(t, says, calls)>> \in Seq(Messages)
         /\ Answered(<<Assistant(t, says, calls)>> \o obs)
<1> DEFINE a == Assistant(t, says, calls)
           n == Len(calls)
           b == <<a>> \o obs
<1>1. n \in Nat /\ DOMAIN calls = 1 .. n
  BY LenProperties
<1>2. obs \in Seq(Messages) /\ Len(obs) = n /\ DOMAIN obs = 1 .. n
  BY <1>1
<1>3. a \in Messages /\ a.role = "assistant" /\ a.calls = calls
  BY DEF Messages, Assistant
<1>4. <<a>> \in Seq(Messages) /\ Len(<<a>>) = 1 /\ <<a>>[1] = a
  BY <1>3
<1>5. /\ b \in Seq(Messages) /\ Len(b) = 1 + n
      /\ \A i \in 1 .. 1 + n : b[i] = IF i <= 1 THEN <<a>>[i] ELSE obs[i - 1]
  BY <1>2, <1>4, ConcatProperties
<1>6. b[1] = a /\ \A j \in 1 .. n : b[1 + j] = obs[j]
  <2>1. b[1] = a
    BY <1>1, <1>4, <1>5
  <2>2. ASSUME NEW j \in 1 .. n PROVE b[1 + j] = obs[j]
    <3>1. 1 + j \in 1 .. 1 + n /\ ~(1 + j <= 1) /\ (1 + j) - 1 = j
      BY <1>1
    <3> QED
      BY <1>5, <3>1
  <2> QED
    BY <2>1, <2>2
<1>7. DOMAIN b = 1 .. 1 + n
  BY <1>5, LenProperties
<1> HIDE DEF a, n, b
<1>8. ASSUME NEW i \in 1 .. 1 + n, b[i].role = "assistant", NEW j \in DOMAIN b[i].calls
      PROVE  i + j <= 1 + n /\ Answers(b[i + j], b[i], j)
  <2>1. CASE i = 1
    <3>1. b[i] = a /\ j \in DOMAIN calls
      BY <1>3, <1>6, <1>8, <2>1
    <3>2. j \in 1 .. n /\ i + j = 1 + j /\ b[i + j] = obs[j]
      BY <1>1, <1>6, <2>1, <3>1
    <3>3. Answers(obs[j], a, j)
      BY <3>1 DEF a
    <3> QED
      BY <1>1, <2>1, <3>1, <3>2, <3>3
  <2>2. CASE i # 1
    <3>1. i - 1 \in 1 .. n /\ 1 + (i - 1) = i
      BY <1>1, <2>2
    <3>2. b[i] = obs[i - 1]
      BY <1>6, <3>1
    <3>3. obs[i - 1].role = "tool"
      BY <1>1, <3>1 DEF Answers
    <3> QED
      BY <1>8, <3>2, <3>3
  <2> QED
    BY <2>1, <2>2
<1> QED
  BY <1>2, <1>4, <1>5, <1>7, <1>8 DEF Answered, a, b

-----------------------------------------------------------------------------
LEMMA InitIInv == Init => IInv
<1> SUFFICES ASSUME Init PROVE IInv
  OBVIOUS
<1>1. System \in Messages /\ User("query") \in Messages
  BY DEF Messages, User
<1>2. messages \in Seq(Messages) /\ Answered(messages)
  <2>1. messages = <<System, User("query")>>
    BY DEF Init
  <2>2. System.role # "assistant" /\ User("query").role # "assistant"
    BY DEF System, User
  <2> QED
    BY <1>1, <2>1, <2>2 DEF Answered
<1>3. turn \in 1 .. Turns
  BY ExploreAssumption DEF Init, Turns
<1>4. lastText \in TextType /\ outcome \in [text: TextType, turns: Nat, toolCalls: Nat, cap: BOOLEAN]
  BY DEF Init, NoText, NoOutcome, TextType, Contents
<1>5. tasks \in Seq({"running", "ok", "panicked"})
  BY DEF Init
<1> QED
  BY <1>2, <1>3, <1>4, <1>5 DEF Init, IInv, TypeOK

\* What the loop's end leaves: the type of the outcome.
LEMMA FinishTyped ==
  ASSUME TypeOK, NEW text \in TextType, Finish(text, turn)
  PROVE  outcome' \in [text: TextType, turns: Nat, toolCalls: Nat, cap: BOOLEAN]
  BY ExploreAssumption DEF TypeOK, Finish, Turns

LEMMA HearTyped ==
  ASSUME TypeOK, NEW says \in Contents, NEW calls, Hear(says, calls)
  PROVE  asked' \in Nat /\ lastText' \in TextType
<1>1. turn \in Nat /\ asked \in Nat /\ lastText \in TextType
  BY ExploreAssumption DEF TypeOK, Turns
<1> QED
  BY <1>1 DEF Hear, TextType

LEMMA PairIsConcat == ASSUME NEW x, NEW y PROVE <<x>> \o <<y>> = <<x, y>>
<1> DEFINE S == {x, y}
<1>1. <<x>> \in Seq(S) /\ <<y>> \in Seq(S) /\ <<x, y>> \in Seq(S)
  OBVIOUS
<1>2. /\ <<x>> \o <<y>> \in Seq(S) /\ Len(<<x>> \o <<y>>) = 2
      /\ (<<x>> \o <<y>>)[1] = x /\ (<<x>> \o <<y>>)[2] = y
  BY <1>1, ConcatProperties
<1>3. Len(<<x, y>>) = 2 /\ <<x, y>>[1] = x /\ <<x, y>>[2] = y
  OBVIOUS
<1> DEFINE s == <<x>> \o <<y>>
           t == <<x, y>>
<1>4. s \in Seq(S) /\ t \in Seq(S) /\ Len(s) = Len(t) /\ \A i \in 1 .. Len(s) : s[i] = t[i]
  <2>1. s \in Seq(S) /\ t \in Seq(S) /\ Len(s) = 2 /\ Len(t) = 2
    BY <1>1, <1>2, <1>3
  <2>2. s[1] = t[1] /\ s[2] = t[2]
    BY <1>2, <1>3
  <2> HIDE DEF s, t
  <2>3. ASSUME NEW i \in 1 .. Len(s) PROVE i = 1 \/ i = 2
    BY <2>1
  <2> QED
    BY <2>1, <2>2, <2>3
<1> HIDE DEF s, t, S
<1>5. s = t
  BY <1>4, SeqEqual
<1> QED
  BY <1>5 DEF s, t

LEMMA JoinKeeps == ASSUME IInv, Join PROVE IInv'
<1>1. /\ TypeOK /\ turn \in 1 .. Turns /\ turn \in Nat /\ Turns \in Nat
      /\ messages \in Seq(Messages)
  BY ExploreAssumption DEF IInv, TypeOK, Turns
<1>2. pc = "tools" /\ tasks' = <<>> /\ UNCHANGED <<lastText, total, outcome, asked>>
  BY DEF Join
<1>3. PICK front \in Seq(Messages), says \in Contents, calls \in Seq(Ids) :
        /\ messages = Append(front, Assistant(turn, says, calls))
        /\ Answered(front)
        /\ Len(tasks) = Len(calls)
  BY <1>2 DEF IInv, Waiting
<1> DEFINE a == Assistant(turn, says, calls)
           o == Observations
<1>4. a \in Messages /\ a.calls = calls
  BY <1>1 DEF Messages, Assistant
<1>5. Calls = calls /\ messages = front \o <<a>>
  <2>1. Last(messages) = a
    <3>1. Len(messages) = Len(front) + 1 /\ messages[Len(front) + 1] = a
      BY <1>3, <1>4, AppendProperties
    <3> QED
      BY <3>1 DEF Last
  <2>2. messages = front \o <<a>>
    BY <1>3, <1>4, AppendIsConcat
  <2> QED
    BY <1>4, <2>1, <2>2 DEF Calls
<1>6. /\ o \in [DOMAIN calls -> Messages]
      /\ \A j \in DOMAIN calls : Answers(o[j], a, j)
  <2>1. o = [j \in DOMAIN calls |-> Observation(calls[j], turn, j, tasks[j] = "ok")]
    BY <1>5 DEF Observations
  <2>2. DOMAIN calls = 1 .. Len(calls) /\ Len(calls) \in Nat
    BY LenProperties
  <2>3. ASSUME NEW j \in DOMAIN calls
        PROVE  /\ Observation(calls[j], turn, j, tasks[j] = "ok") \in Messages
               /\ Answers(Observation(calls[j], turn, j, tasks[j] = "ok"), a, j)
    <3>1. calls[j] \in Ids /\ j \in Nat
      BY <2>2, ElementOfSeq
    <3>2. (tasks[j] = "ok") \in BOOLEAN
      OBVIOUS
    <3>3. a.calls = calls /\ a.turn = turn
      BY DEF Assistant
    <3> QED
      BY <1>1, <3>1, <3>2, <3>3 DEF Observation, Messages, Answers
  <2> QED
    BY <2>1, <2>3
<1>7. /\ o \in Seq(Messages) /\ <<a>> \in Seq(Messages)
      /\ Answered(<<a>> \o o) /\ <<a>> \o o \in Seq(Messages)
  BY <1>1, <1>6, AnsweredBatch, ConcatProperties
<1> HIDE DEF a, o
<1>8. messages \o o = front \o (<<a>> \o o)
  BY <1>5, <1>7, ConcatAssociative
<1>9. messages \o o \in Seq(Messages) /\ Answered(messages \o o)
  BY <1>3, <1>7, <1>8, AnsweredConcat, ConcatProperties
<1>10. CASE /\ turn < Turns /\ messages' = messages \o o
            /\ turn' = turn + 1 /\ pc' = "chat" /\ UNCHANGED cap
  BY <1>1, <1>2, <1>9, <1>10 DEF IInv, TypeOK
<1>11. CASE /\ messages' = messages \o o \o <<User("flush")>>
            /\ pc' = "flush" /\ cap' = TRUE /\ UNCHANGED turn
  <2>1. User("flush") \in Messages /\ User("flush").role # "assistant"
    BY DEF Messages, User
  <2>2. <<User("flush")>> \in Seq(Messages) /\ Answered(<<User("flush")>>)
    BY <2>1, AnsweredPlain
  <2>3. messages' \in Seq(Messages) /\ Answered(messages')
    BY <1>9, <1>11, <2>2, AnsweredConcat, ConcatProperties
  <2> QED
    BY <1>1, <1>2, <1>11, <2>3 DEF IInv, TypeOK
<1> QED
  BY <1>10, <1>11 DEF Join, o

LEMMA NextIInv == ASSUME IInv, [Next]_vars PROVE IInv'
<1>1. /\ TypeOK /\ turn \in 1 .. Turns /\ turn \in Nat /\ Turns \in Nat
      /\ messages \in Seq(Messages) /\ total \in Nat /\ asked \in Nat
  BY ExploreAssumption DEF IInv, TypeOK, Turns
<1>2. CASE ChatFails
  <2>1. Finish(lastText, turn) /\ lastText \in TextType
    BY <1>1, <1>2 DEF ChatFails, TypeOK
  <2>2. outcome' \in [text: TextType, turns: Nat, toolCalls: Nat, cap: BOOLEAN] /\ pc' = "done"
    BY <1>1, <2>1, FinishTyped DEF Finish
  <2> QED
    BY <1>1, <1>2, <2>2 DEF ChatFails, IInv, TypeOK
<1>3. ASSUME NEW calls \in Batches, FinalAnswer(calls) PROVE IInv'
  <2>1. "final" \in Contents /\ Hear("final", calls)
    BY <1>3 DEF Contents, FinalAnswer
  <2>2. asked' \in Nat /\ lastText' \in TextType
    BY <1>1, <2>1, HearTyped
  <2>3. Finish(lastText', turn)
    BY <1>3 DEF FinalAnswer
  <2>4. outcome' \in [text: TextType, turns: Nat, toolCalls: Nat, cap: BOOLEAN] /\ pc' = "done"
    BY <1>1, <2>2, <2>3, FinishTyped DEF Finish
  <2>5. Assistant(turn, "final", calls) \in Messages
    BY <1>1, <2>1, ExploreAssumption DEF Messages, Assistant
  <2>6. messages' \in Seq(Messages)
    BY <1>1, <1>3, <2>5, AppendProperties DEF FinalAnswer
  <2> QED
    BY <1>1, <1>3, <2>2, <2>4, <2>6 DEF FinalAnswer, IInv, TypeOK
<1>4. ASSUME NEW says \in Contents, StopsCalling(says) PROVE IInv'
  <2> DEFINE a == Assistant(turn, says, <<>>)
             u == User("flush")
  <2>1. asked' \in Nat /\ lastText' \in TextType
    BY <1>1, <1>4, HearTyped DEF StopsCalling
  <2>2. u \in Messages /\ u.role # "assistant"
    BY DEF Messages, User
  <2>3. <<a>> \in Seq(Messages) /\ Answered(<<a>>)
    BY <1>1, AnsweredSilent
  <2>4. <<u>> \in Seq(Messages) /\ Answered(<<u>>)
    BY <2>2, AnsweredPlain
  <2>5. pc = "chat" /\ messages' = messages \o <<a, u>> /\ pc' = "flush"
        /\ UNCHANGED <<turn, total, tasks, cap, outcome>>
    BY <1>4 DEF StopsCalling, Hear
  <2> HIDE DEF a, u
  <2>6. <<a, u>> = <<a>> \o <<u>>
    BY <2>3, <2>4, PairIsConcat
  <2>7. <<a, u>> \in Seq(Messages) /\ Answered(<<a, u>>)
    BY <2>3, <2>4, <2>6, AnsweredConcat, ConcatProperties
  <2>8. messages' \in Seq(Messages) /\ Answered(messages')
    BY <1>1, <2>5, <2>7, AnsweredConcat, ConcatProperties DEF IInv
  <2> QED
    BY <1>1, <2>1, <2>5, <2>8 DEF IInv, TypeOK
<1>5. ASSUME NEW says \in Contents, NEW calls \in Batches, CallTools(says, calls) PROVE IInv'
  <2>1. asked' \in Nat /\ lastText' \in TextType
    BY <1>1, <1>5, HearTyped DEF CallTools
  <2>2. calls \in Seq(Ids) /\ Len(calls) \in Nat /\ DOMAIN calls = 1 .. Len(calls)
    BY ExploreAssumption, LenProperties
  <2>3. pc = "chat" /\ pc' = "tools" /\ messages' = Append(messages, Assistant(turn, says, calls))
        /\ total' = total + Len(calls) /\ tasks' = [j \in DOMAIN calls |-> "running"]
        /\ UNCHANGED <<turn, cap, outcome>>
    BY <1>5 DEF CallTools, Hear
  <2>4. tasks' \in Seq({"running", "ok", "panicked"}) /\ Len(tasks') = Len(calls)
    BY <2>2, <2>3
  <2>5. Assistant(turn, says, calls) \in Messages
    BY <1>1, <2>2 DEF Messages, Assistant
  <2>6. messages' \in Seq(Messages)
    BY <1>1, <2>3, <2>5, AppendProperties
  <2>7. Waiting(messages)'
    <3>1. Answered(messages) /\ messages' = Append(messages, Assistant(turn', says, calls))
      BY <2>3 DEF IInv
    <3> QED
      BY <1>1, <2>2, <2>4, <3>1 DEF Waiting
  <2> QED
    BY <1>1, <2>1, <2>2, <2>3, <2>4, <2>6, <2>7 DEF IInv, TypeOK
<1>6. ASSUME NEW j \in DOMAIN tasks, RunTool(j) PROVE IInv'
  <2>1. PICK s \in {"ok", "panicked"} : tasks' = [tasks EXCEPT ![j] = s]
    BY <1>6 DEF RunTool
  <2>2. UNCHANGED <<pc, turn, messages, lastText, total, cap, outcome, asked>>
    BY <1>6 DEF RunTool
  <2>3. tasks' \in Seq({"running", "ok", "panicked"}) /\ Len(tasks') = Len(tasks)
    <3>1. tasks \in Seq({"running", "ok", "panicked"}) /\ j \in 1 .. Len(tasks)
      BY <1>1, LenProperties DEF TypeOK
    <3> QED
      BY <2>1, <3>1, ExceptSeq
  <2>4. Waiting(messages) => Waiting(messages)'
    BY <2>2, <2>3 DEF Waiting
  <2> QED
    BY <1>1, <2>2, <2>3, <2>4 DEF IInv, TypeOK
<1>7. CASE Join
  BY <1>1, <1>7, JoinKeeps
<1>8. ASSUME NEW says \in Contents, Flush(says) PROVE IInv'
  <2> DEFINE text == IF says \in {"absent", "blank"} THEN lastText
                     ELSE [says |-> says, turn |-> turn + 1]
  <2>1. text \in TextType
    BY <1>1 DEF TypeOK, TextType
  <2>2. Finish(text, turn)
    BY <1>8 DEF Flush
  <2> HIDE DEF text
  <2>3. outcome' \in [text: TextType, turns: Nat, toolCalls: Nat, cap: BOOLEAN] /\ pc' = "done"
    BY <1>1, <2>1, <2>2, FinishTyped DEF Finish
  <2> QED
    BY <1>1, <1>8, <2>3 DEF Flush, IInv, TypeOK
<1>9. CASE Drop
  BY <1>1, <1>9 DEF Drop, IInv, TypeOK
<1>10. CASE UNCHANGED vars
  BY <1>10 DEF vars, IInv, TypeOK, Waiting
<1> QED
  BY <1>2, <1>3, <1>4, <1>5, <1>6, <1>7, <1>8, <1>9, <1>10 DEF Next, Chat, Over

-----------------------------------------------------------------------------
\* Between two batches the history is well formed; while the tools of a batch
\* run it ends in the message that asked for them.
THEOREM Invariance == Spec => []IInv
<1>1. Init => IInv
  BY InitIInv
<1>2. IInv /\ [Next]_vars => IInv'
  BY NextIInv
<1> QED
  BY <1>1, <1>2, PTL DEF Spec

\* Every variable keeps its type.
THEOREM TypeCorrect == Spec => []TypeOK
<1>1. IInv => TypeOK
  BY DEF IInv
<1> QED
  BY <1>1, Invariance, PTL

\* Whatever the tools do and in whichever order they end, each request the
\* explorer's model is sent answers every call it made, in order.
THEOREM CallsAnswered == Spec => []EveryCallAnswered
<1>1. IInv => EveryCallAnswered
  <2> SUFFICES ASSUME IInv, pc \in {"chat", "flush"}, NEW i \in DOMAIN messages,
                      messages[i].role = "assistant", NEW j \in DOMAIN messages[i].calls
               PROVE  /\ i + j <= Len(messages)
                      /\ Answers(messages[i + j], messages[i], j)
    BY DEF EveryCallAnswered, Answers
  <2> QED
    BY DEF IInv, Answered
<1> QED
  BY <1>1, Invariance, PTL

-----------------------------------------------------------------------------
\* The figures, at each place of the loop: of the turn under way, only the
\* request, the answer or the calls have been counted.
Figures ==
  /\ pc = "chat" => /\ CountOf("assistant") = turn - 1 /\ asked = turn - 1
                    /\ CountOf("user") = 1 /\ ~cap
                    /\ total = CountOf("tool")
  /\ pc = "tools" => /\ CountOf("assistant") = turn /\ asked = turn
                     /\ CountOf("user") = 1 /\ ~cap
                     /\ total = CountOf("tool") + Len(tasks) /\ Len(tasks) > 0
  /\ pc = "flush" => /\ CountOf("assistant") = turn /\ asked = turn
                     /\ CountOf("user") = 2
                     /\ cap <=> turn = Turns /\ messages[Len(messages) - 1].role = "tool"
                     /\ total = CountOf("tool")

\* With them, the outcome once there is one, and until then the last text.
OutcomeInv ==
  /\ Figures /\ OutcomeIsTrue
  /\ pc \in {"chat", "tools", "flush"} => LastSaid(messages, lastText)

\* A count grows by the messages of its role that are put behind, and by no others.
LEMMA CountConcat ==
  ASSUME NEW a \in Seq(Messages), NEW b \in Seq(Messages), NEW role
  PROVE  /\ Count(a, role) \in Nat /\ a \o b \in Seq(Messages)
         /\ (\A j \in 1 .. Len(b) : b[j].role = role)
              => Count(a \o b, role) = Count(a, role) + Len(b)
         /\ (\A j \in 1 .. Len(b) : b[j].role # role) => Count(a \o b, role) = Count(a, role)
<1> DEFINE c == a \o b
           A == {i \in DOMAIN a : a[i].role = role}
           C == {i \in DOMAIN c : c[i].role = role}
<1>0. PICK m \in Nat, n \in Nat : m = Len(a) /\ n = Len(b)
  BY LenProperties
<1>1. /\ DOMAIN a = 1 .. m /\ DOMAIN b = 1 .. n
      /\ c \in Seq(Messages) /\ Len(c) = m + n /\ DOMAIN c = 1 .. m + n
      /\ \A i \in 1 .. m : c[i] = a[i]
      /\ \A j \in 1 .. n : c[m + j] = b[j]
  <2>1. c \in Seq(Messages) /\ Len(c) = m + n
        /\ \A i \in 1 .. m + n : c[i] = IF i <= m THEN a[i] ELSE b[i - m]
    BY <1>0, ConcatProperties
  <2>2. ASSUME NEW i \in 1 .. m PROVE c[i] = a[i]
    BY <2>1
  <2>3. ASSUME NEW j \in 1 .. n PROVE c[m + j] = b[j]
    <3>1. m + j \in 1 .. m + n /\ ~(m + j <= m) /\ (m + j) - m = j
      OBVIOUS
    <3> QED
      BY <2>1, <3>1
  <2> QED
    BY <1>0, <2>1, <2>2, <2>3, LenProperties
<1>2. (1 .. m + n) = (1 .. m) \cup {m + j : j \in 1 .. n}
  <2>1. ASSUME NEW i \in 1 .. m + n, i \notin 1 .. m PROVE i \in {m + j : j \in 1 .. n}
    <3>1. i - m \in 1 .. n /\ i = m + (i - m)
      BY <2>1
    <3> QED
      BY <3>1
  <2>2. (1 .. m) \subseteq (1 .. m + n) /\ \A j \in 1 .. n : m + j \in 1 .. m + n
    OBVIOUS
  <2> QED
    BY <2>1, <2>2
<1> HIDE DEF c
<1>3. A \subseteq 1 .. m /\ IsFiniteSet(1 .. m)
  BY <1>1, FS_Interval
<1>4. IsFiniteSet(A) /\ Cardinality(A) \in Nat
  BY <1>3, FS_Subset, FS_CardinalityType
<1>5. Count(a, role) = Cardinality(A) /\ Count(c, role) = Cardinality(C)
  BY DEF Count
<1>6. C = A \cup {m + j : j \in {k \in 1 .. n : b[k].role = role}}
  <2>1. C = {i \in (1 .. m) \cup {m + j : j \in 1 .. n} : c[i].role = role}
    BY <1>1, <1>2, Zenon
  <2> HIDE DEF C
  <2>2. \A i \in 1 .. m : i \in C <=> i \in A
    BY <1>1, <2>1, Zenon
  <2>3. \A j \in 1 .. n : m + j \in C <=> b[j].role = role
    BY <1>1, <2>1, Zenon
  <2>4. \A i \in A : i \in 1 .. m
    BY <1>1, Zenon
  <2>5. \A i \in C : i \in 1 .. m \/ \E j \in 1 .. n : i = m + j
    BY <2>1, Zenon
  <2> HIDE DEF A
  <2> QED
    BY <2>2, <2>3, <2>4, <2>5, Zenon
<1>7. ASSUME \A j \in 1 .. n : b[j].role # role PROVE Cardinality(C) = Cardinality(A)
  <2>1. C = A
    BY <1>6, <1>7
  <2> QED
    BY <2>1
<1>8. ASSUME \A j \in 1 .. n : b[j].role = role PROVE Cardinality(C) = Cardinality(A) + n
  <2> DEFINE B == (m + 1) .. (m + n)
  <2>1. B = {m + j : j \in 1 .. n}
    <3>1. \A i \in B : i - m \in 1 .. n /\ i = m + (i - m)
      OBVIOUS
    <3>2. \A j \in 1 .. n : m + j \in B
      OBVIOUS
    <3> HIDE DEF B
    <3> QED
      BY <3>1, <3>2
  <2>2. C = A \cup {m + j : j \in 1 .. n}
    BY <1>6, <1>8
  <2>3. IsFiniteSet(B) /\ Cardinality(B) = n
    <3>1. m + 1 \in Int /\ m + n \in Int /\ (m + 1 > m + n <=> n = 0) /\ (m + n) - (m + 1) + 1 = n
      OBVIOUS
    <3> QED
      BY <3>1, FS_Interval
  <2>4. A \cap B = {}
    <3>1. \A i \in 1 .. m : i \notin B
      OBVIOUS
    <3> HIDE DEF A, B
    <3> QED
      BY <1>3, <3>1
  <2>5. Cardinality({}) = 0
    BY FS_EmptySet
  <2> HIDE DEF A, B, C
  <2>6. Cardinality(A \cup B) = Cardinality(A) + Cardinality(B) - Cardinality(A \cap B)
    BY <1>4, <2>3, FS_Union
  <2>7. Cardinality(A \cup B) = Cardinality(A) + n
    <3>1. Cardinality(A \cap B) = 0 /\ Cardinality(B) = n
      BY <2>3, <2>4, <2>5
    <3>2. \A x \in Nat : x + n - 0 = x + n
      OBVIOUS
    <3> QED
      BY <1>4, <2>6, <3>1, <3>2
  <2> QED
    BY <2>1, <2>2, <2>7
<1> HIDE DEF A, C
<1> QED
  BY <1>0, <1>1, <1>4, <1>5, <1>7, <1>8 DEF c

\* One message behind the others.
LEMMA CountAppend ==
  ASSUME NEW a \in Seq(Messages), NEW m \in Messages, NEW role
  PROVE  /\ Append(a, m) \in Seq(Messages)
         /\ m.role = role => Count(Append(a, m), role) = Count(a, role) + 1
         /\ m.role # role => Count(Append(a, m), role) = Count(a, role)
<1> DEFINE b == <<m>>
<1>1. b \in Seq(Messages) /\ Len(b) = 1 /\ \A j \in 1 .. 1 : b[j] = m
  OBVIOUS
<1>2. Append(a, m) = a \o b
  BY AppendIsConcat
<1> HIDE DEF b
<1> QED
  BY <1>1, <1>2, CountConcat

\* What is put behind without saying anything leaves the last word as it was.
LEMMA SaidConcat ==
  ASSUME NEW a \in Seq(Messages), NEW b \in Seq(Messages), NEW text, LastSaid(a, text),
         \A j \in 1 .. Len(b) : ~Speaks(b[j])
  PROVE  LastSaid(a \o b, text)
<1> DEFINE c == a \o b
<1>0. PICK m \in Nat, n \in Nat : m = Len(a) /\ n = Len(b)
  BY LenProperties
<1>1. /\ DOMAIN a = 1 .. m /\ DOMAIN c = 1 .. m + n
      /\ \A i \in 1 .. m : i \in 1 .. m + n /\ c[i] = a[i]
      /\ \A i \in 1 .. m + n : i \notin 1 .. m => ~Speaks(c[i])
  <2>1. c \in Seq(Messages) /\ Len(c) = m + n
        /\ \A i \in 1 .. m + n : c[i] = IF i <= m THEN a[i] ELSE b[i - m]
    BY <1>0, ConcatProperties
  <2>2. ASSUME NEW i \in 1 .. m PROVE i \in 1 .. m + n /\ c[i] = a[i]
    BY <2>1
  <2>3. ASSUME NEW i \in 1 .. m + n, i \notin 1 .. m PROVE ~Speaks(c[i])
    <3>1. i - m \in 1 .. n /\ ~(i <= m)
      BY <2>3
    <3> QED
      BY <1>0, <2>1, <3>1
  <2> QED
    BY <1>0, <2>1, <2>2, <2>3, LenProperties
<1> HIDE DEF c
<1>2. CASE text = NoText /\ \A i \in DOMAIN a : ~Speaks(a[i])
  BY <1>1, <1>2 DEF LastSaid, c
<1>3. ASSUME NEW i \in 1 .. m, Speaks(a[i]), text = [says |-> a[i].says, turn |-> a[i].turn],
             \A k \in 1 .. m : Speaks(a[k]) => k <= i
      PROVE  LastSaid(c, text)
  <2>1. Speaks(c[i]) /\ text = [says |-> c[i].says, turn |-> c[i].turn] /\ i \in DOMAIN c
    BY <1>1, <1>3
  <2>2. \A k \in DOMAIN c : Speaks(c[k]) => k <= i
    BY <1>1, <1>3
  <2> QED
    BY <2>1, <2>2 DEF LastSaid
<1> QED
  BY <1>1, <1>2, <1>3 DEF LastSaid, c

\* What speaks last is the last word.
LEMMA SaidAppend ==
  ASSUME NEW a \in Seq(Messages), NEW m \in Messages, Speaks(m)
  PROVE  LastSaid(Append(a, m), [says |-> m.says, turn |-> m.turn])
<1> DEFINE c == Append(a, m)
<1>0. PICK n \in Nat : n = Len(a)
  BY LenProperties
<1>1. c \in Seq(Messages) /\ DOMAIN c = 1 .. n + 1 /\ c[n + 1] = m
  BY <1>0, AppendProperties, LenProperties
<1>2. n + 1 \in 1 .. n + 1 /\ \A k \in 1 .. n + 1 : k <= n + 1
  OBVIOUS
<1> HIDE DEF c
<1>3. LastSaid(c, [says |-> m.says, turn |-> m.turn])
  BY <1>1, <1>2 DEF LastSaid
<1> QED
  BY <1>3 DEF c

\* An assistant's message becomes the last text exactly if it has any.
LEMMA HearSaid ==
  ASSUME TypeOK, NEW says \in Contents, NEW calls \in Seq(Ids), Hear(says, calls),
         LastSaid(messages, lastText)
  PROVE  /\ Assistant(turn, says, calls) \in Messages
         /\ LastSaid(Append(messages, Assistant(turn, says, calls)), lastText')
<1> DEFINE a == Assistant(turn, says, calls)
<1>1. turn \in Nat /\ messages \in Seq(Messages)
  BY ExploreAssumption DEF TypeOK, Turns
<1>2. a \in Messages /\ a.role = "assistant" /\ a.says = says /\ a.turn = turn
  BY <1>1 DEF Messages, Assistant
<1> HIDE DEF a
<1>3. CASE says = "absent"
  <2> DEFINE b == <<a>>
  <2>1. b \in Seq(Messages) /\ Len(b) = 1 /\ \A j \in 1 .. 1 : b[j] = a
    BY <1>2
  <2>2. lastText' = lastText /\ ~Speaks(a)
    BY <1>2, <1>3 DEF Hear, Speaks
  <2>3. Append(messages, a) = messages \o b
    BY <1>1, <1>2, AppendIsConcat
  <2> HIDE DEF b
  <2>4. LastSaid(messages \o b, lastText)
    BY <1>1, <2>1, <2>2, SaidConcat
  <2> QED
    BY <1>2, <2>2, <2>3, <2>4 DEF a
<1>4. CASE says # "absent"
  <2>1. Speaks(a) /\ lastText' = [says |-> a.says, turn |-> a.turn]
    BY <1>2, <1>4 DEF Hear, Speaks
  <2>2. LastSaid(Append(messages, a), [says |-> a.says, turn |-> a.turn])
    BY <1>1, <1>2, <2>1, SaidAppend
  <2> QED
    BY <1>2, <2>1, <2>2 DEF a
<1> QED
  BY <1>3, <1>4

\* The observations of a batch, one for each of its tasks.
LEMMA BatchObserved ==
  ASSUME IInv, pc = "tools"
  PROVE  /\ Observations \in Seq(Messages) /\ Len(Observations) = Len(tasks)
         /\ \A j \in 1 .. Len(Observations) : Observations[j].role = "tool"
<1>1. turn \in Nat
  BY ExploreAssumption DEF IInv, TypeOK, Turns
<1>2. PICK front \in Seq(Messages), says \in Contents, calls \in Seq(Ids) :
        messages = Append(front, Assistant(turn, says, calls)) /\ Len(tasks) = Len(calls)
  BY DEF IInv, Waiting
<1> DEFINE a == Assistant(turn, says, calls)
           o == Observations
<1>3. a \in Messages /\ a.calls = calls
  BY <1>1 DEF Messages, Assistant
<1>4. Calls = calls
  <2>1. Len(messages) = Len(front) + 1 /\ messages[Len(front) + 1] = a
    BY <1>2, <1>3, AppendProperties
  <2> QED
    BY <1>3, <2>1 DEF Last, Calls
<1>5. Len(calls) \in Nat /\ DOMAIN calls = 1 .. Len(calls)
  BY LenProperties
<1>6. o = [j \in 1 .. Len(calls) |-> Observation(calls[j], turn, j, tasks[j] = "ok")]
  BY <1>4, <1>5 DEF Observations
<1>7. ASSUME NEW j \in 1 .. Len(calls)
      PROVE  /\ Observation(calls[j], turn, j, tasks[j] = "ok") \in Messages
             /\ Observation(calls[j], turn, j, tasks[j] = "ok").role = "tool"
  <2>1. calls[j] \in Ids /\ j \in Nat
    BY <1>5, ElementOfSeq
  <2>2. (tasks[j] = "ok") \in BOOLEAN
    OBVIOUS
  <2> QED
    BY <1>1, <2>1, <2>2 DEF Observation, Messages
<1>8. o \in [1 .. Len(calls) -> Messages] /\ \A j \in 1 .. Len(calls) : o[j].role = "tool"
  BY <1>6, <1>7
<1> HIDE DEF o
<1>9. o \in Seq(Messages) /\ Len(o) = Len(calls)
  BY <1>5, <1>8
<1> QED
  BY <1>2, <1>8, <1>9 DEF o

\* A turn counts its request, its message, its calls and their observations each once.
LEMMA OutcomeStep == IInv /\ OutcomeInv /\ [Next]_vars => OutcomeInv'
<1> SUFFICES ASSUME IInv, OutcomeInv, [Next]_vars PROVE OutcomeInv'
  OBVIOUS
<1>1. /\ TypeOK /\ turn \in 1 .. Turns /\ turn \in Nat /\ Turns \in Nat
      /\ messages \in Seq(Messages) /\ total \in Nat /\ asked \in Nat
  BY ExploreAssumption DEF IInv, TypeOK, Turns
<1>2. \A role : CountOf(role) \in Nat
  BY <1>1, CountConcat DEF CountOf
<1>3. Figures /\ OutcomeIsTrue
      /\ (pc \in {"chat", "tools", "flush"} => LastSaid(messages, lastText))
  BY DEF OutcomeInv
\* The end of the loop in the turn under way, by an answer or a failed request.
<1>4. ASSUME pc = "chat", pc' = "done", asked' = asked + 1, NEW text,
             outcome' = [text |-> text, turns |-> turn, toolCalls |-> total, cap |-> cap],
             LastSaid(messages', text), CountOf("user")' = CountOf("user"),
             CountOf("tool")' = CountOf("tool"),
             CountOf("assistant")' \in CountOf("assistant") .. CountOf("assistant") + 1
      PROVE  OutcomeInv'
  <2>1. /\ outcome'.toolCalls = CountOf("tool")' /\ outcome'.cap = cap /\ outcome'.text = text
        /\ outcome'.turns = turn
    BY <1>3, <1>4 DEF Figures
  <2>2. turn \in CountOf("assistant")' .. CountOf("assistant")' + 1 /\ asked' <= Turns + 1
    BY <1>1, <1>2, <1>3, <1>4 DEF Figures
  <2>3. cap = FALSE /\ CountOf("user")' = 1
    BY <1>1, <1>3, <1>4 DEF Figures, TypeOK
  <2>4. StatsTrue'
    BY <1>1, <2>1, <2>2, <2>3 DEF StatsTrue
  <2>5. AnswerIsLastWord'
    BY <1>4, <2>1 DEF AnswerIsLastWord
  <2> QED
    BY <1>4, <2>4, <2>5 DEF OutcomeInv, Figures, OutcomeIsTrue
<1>5. CASE ChatFails
  <2>1. /\ pc = "chat" /\ pc' = "done" /\ asked' = asked + 1 /\ messages' = messages
        /\ outcome' = [text |-> lastText, turns |-> turn, toolCalls |-> total, cap |-> cap]
    BY <1>5 DEF ChatFails, Finish
  <2>2. \A role : CountOf(role)' = CountOf(role)
    BY <2>1 DEF CountOf
  <2> QED
    BY <1>2, <1>3, <1>4, <2>1, <2>2
<1>6. ASSUME NEW says \in Contents, NEW calls \in Seq(Ids), Hear(says, calls),
             messages' = Append(messages, Assistant(turn, says, calls))
      PROVE  /\ LastSaid(messages', lastText')
             /\ CountOf("assistant")' = CountOf("assistant") + 1
             /\ CountOf("user")' = CountOf("user") /\ CountOf("tool")' = CountOf("tool")
  <2> DEFINE a == Assistant(turn, says, calls)
  <2>1. a \in Messages /\ LastSaid(messages', lastText')
    BY <1>1, <1>3, <1>6, HearSaid DEF Hear
  <2>2. a.role = "assistant" /\ messages' = Append(messages, a)
    BY <1>6 DEF Assistant
  <2> HIDE DEF a
  <2> QED
    BY <1>1, <2>1, <2>2, CountAppend DEF CountOf
<1>7. ASSUME NEW calls \in Batches, FinalAnswer(calls) PROVE OutcomeInv'
  <2>1. /\ Hear("final", calls) /\ messages' = Append(messages, Assistant(turn, "final", calls))
        /\ "final" \in Contents /\ calls \in Seq(Ids)
        /\ outcome' = [text |-> lastText', turns |-> turn, toolCalls |-> total, cap |-> cap]
        /\ pc = "chat" /\ pc' = "done" /\ asked' = asked + 1
    BY <1>7, ExploreAssumption DEF FinalAnswer, Finish, Hear, Contents
  <2>2. /\ LastSaid(messages', lastText')
        /\ CountOf("assistant")' = CountOf("assistant") + 1
        /\ CountOf("user")' = CountOf("user") /\ CountOf("tool")' = CountOf("tool")
    BY <1>6, <2>1
  <2>3. CountOf("assistant")' \in CountOf("assistant") .. CountOf("assistant") + 1
    BY <1>2, <2>2
  <2> QED
    BY <1>4, <2>1, <2>2, <2>3
<1>8. ASSUME NEW says \in Contents, StopsCalling(says) PROVE OutcomeInv'
  <2> DEFINE a == Assistant(turn, says, <<>>)
             u == User("flush")
             ms == Append(messages, a)
  <2>1. /\ Hear(says, <<>>) /\ messages' = messages \o <<a, u>> /\ pc' = "flush" /\ pc = "chat"
        /\ UNCHANGED <<turn, total, tasks, cap, outcome>> /\ asked' = asked + 1
        /\ <<>> \in Seq(Ids)
    BY <1>8 DEF StopsCalling, Hear
  <2>2. a \in Messages /\ LastSaid(ms, lastText')
    BY <1>1, <1>3, <2>1, HearSaid
  <2>3. u \in Messages /\ u.role = "user" /\ a.role = "assistant"
    BY DEF Messages, User, Assistant
  <2> HIDE DEF a, u
  <2>4. ms \in Seq(Messages) /\ messages' = ms \o <<u>>
    <3> DEFINE p == <<a>>
               q == <<u>>
    <3>1. p \in Seq(Messages) /\ q \in Seq(Messages) /\ messages \in Seq(Messages)
      BY <1>1, <2>2, <2>3
    <3>5. p \o q = <<a, u>>
      BY PairIsConcat
    <3>2. ms = messages \o p
      BY <1>1, <2>2, AppendIsConcat
    <3> HIDE DEF p, q
    <3>3. messages \o (p \o q) = (messages \o p) \o q
      BY <3>1, ConcatAssociative
    <3>4. ms \in Seq(Messages)
      BY <1>1, <2>2, AppendProperties
    <3> QED
      BY <2>1, <3>2, <3>3, <3>4, <3>5 DEF q
  <2>5. /\ Count(ms, "assistant") = CountOf("assistant") + 1
        /\ Count(ms, "user") = CountOf("user") /\ Count(ms, "tool") = CountOf("tool")
    BY <1>1, <2>2, <2>3, CountAppend DEF CountOf
  <2>6. Len(ms) = Len(messages) + 1 /\ ms[Len(messages) + 1] = a /\ Len(messages) \in Nat
    BY <1>1, <2>2, AppendProperties, LenProperties
  <2> HIDE DEF ms
  <2>7. messages' = Append(ms, u)
    BY <2>3, <2>4, AppendIsConcat
  <2>8. /\ CountOf("assistant")' = CountOf("assistant") + 1
        /\ CountOf("user")' = CountOf("user") + 1 /\ CountOf("tool")' = CountOf("tool")
    <3>1. /\ Count(messages', "assistant") = Count(ms, "assistant")
          /\ Count(messages', "user") = Count(ms, "user") + 1
          /\ Count(messages', "tool") = Count(ms, "tool")
      <4>1. ms \in Seq(Messages) /\ u \in Messages /\ u.role = "user"
        BY <2>3, <2>4
      <4> QED
        BY <2>7, <4>1, CountAppend
    <3> QED
      BY <2>5, <3>1 DEF CountOf
  <2>9. LastSaid(messages', lastText')
    <3> DEFINE q == <<u>>
    <3>1. q \in Seq(Messages) /\ \A j \in 1 .. Len(q) : ~Speaks(q[j])
      BY <2>3 DEF Speaks
    <3> HIDE DEF q
    <3>2. LastSaid(ms \o q, lastText')
      BY <2>2, <2>4, <3>1, SaidConcat
    <3> QED
      BY <2>4, <3>2 DEF q
  <2>10. messages'[Len(messages') - 1] = a
    <3>1. Len(messages') = Len(ms) + 1 /\ \A i \in 1 .. Len(ms) : messages'[i] = ms[i]
      BY <2>3, <2>4, <2>7, AppendProperties
    <3>2. Len(messages') - 1 = Len(messages) + 1 /\ Len(messages) + 1 \in 1 .. Len(ms)
      BY <2>6, <3>1
    <3> QED
      BY <2>6, <3>1, <3>2
  <2>11. Figures'
    <3>1. /\ CountOf("assistant")' = turn' /\ asked' = turn' /\ CountOf("user")' = 2
          /\ total' = CountOf("tool")' /\ ~cap'
      BY <1>1, <1>2, <1>3, <2>1, <2>8 DEF Figures
    <3> QED
      BY <2>1, <2>3, <2>10, <3>1 DEF Figures
  <2> QED
    BY <2>1, <2>9, <2>11 DEF OutcomeInv, OutcomeIsTrue, StatsTrue, AnswerIsLastWord
<1>9. ASSUME NEW says \in Contents, NEW calls \in Batches, CallTools(says, calls) PROVE OutcomeInv'
  <2>1. /\ Hear(says, calls) /\ messages' = Append(messages, Assistant(turn, says, calls))
        /\ calls \in Seq(Ids) /\ calls # <<>> /\ total' = total + Len(calls)
        /\ tasks' = [j \in DOMAIN calls |-> "running"]
        /\ pc = "chat" /\ pc' = "tools" /\ asked' = asked + 1 /\ UNCHANGED <<turn, cap, outcome>>
    BY <1>9, ExploreAssumption DEF CallTools, Hear
  <2>2. /\ LastSaid(messages', lastText')
        /\ CountOf("assistant")' = CountOf("assistant") + 1
        /\ CountOf("user")' = CountOf("user") /\ CountOf("tool")' = CountOf("tool")
    BY <1>6, <2>1
  <2>3. Len(calls) \in Nat /\ Len(calls) > 0 /\ Len(tasks') = Len(calls)
    <3>1. Len(calls) \in Nat /\ Len(calls) > 0 /\ DOMAIN calls = 1 .. Len(calls)
      BY <2>1, LenProperties, EmptySeq
    <3> QED
      BY <2>1, <3>1
  <2>4. /\ CountOf("assistant")' = turn' /\ asked' = turn' /\ CountOf("user")' = 1 /\ ~cap'
        /\ total' = CountOf("tool")' + Len(tasks')
    BY <1>1, <1>2, <1>3, <2>1, <2>2, <2>3 DEF Figures
  <2> QED
    BY <2>1, <2>2, <2>3, <2>4 DEF OutcomeInv, Figures, OutcomeIsTrue, StatsTrue, AnswerIsLastWord
<1>10. ASSUME NEW j \in DOMAIN tasks, RunTool(j) PROVE OutcomeInv'
  <2>1. UNCHANGED <<pc, turn, messages, lastText, total, cap, outcome, asked>>
    BY <1>10 DEF RunTool
  <2>2. Len(tasks') = Len(tasks)
    <3>1. PICK s \in {"ok", "panicked"} : tasks' = [tasks EXCEPT ![j] = s]
      BY <1>10 DEF RunTool
    <3>2. tasks \in Seq({"running", "ok", "panicked"}) /\ j \in 1 .. Len(tasks)
      BY <1>1, LenProperties DEF TypeOK
    <3> QED
      BY <3>1, <3>2, ExceptSeq
  <2> QED
    BY <1>3, <2>1, <2>2
       DEF OutcomeInv, Figures, OutcomeIsTrue, StatsTrue, AnswerIsLastWord, CountOf
<1>11. CASE Join
  <2> DEFINE o == Observations
             ms == messages \o o
             u == User("flush")
  <2>1. /\ pc = "tools" /\ UNCHANGED <<lastText, total, outcome, asked>>
        /\ \/ /\ turn < Turns /\ messages' = ms
              /\ turn' = turn + 1 /\ pc' = "chat" /\ UNCHANGED cap
           \/ /\ turn >= Turns /\ messages' = ms \o <<u>>
              /\ pc' = "flush" /\ cap' = TRUE /\ UNCHANGED turn
    BY <1>11 DEF Join
  <2>2. /\ o \in Seq(Messages) /\ Len(o) = Len(tasks)
        /\ \A j \in 1 .. Len(o) : o[j].role = "tool"
    BY <2>1, BatchObserved
  <2> HIDE DEF o
  <2>3. /\ ms \in Seq(Messages)
        /\ Count(ms, "tool") = Count(messages, "tool") + Len(tasks)
        /\ Count(ms, "user") = Count(messages, "user")
        /\ Count(ms, "assistant") = Count(messages, "assistant")
    BY <1>1, <2>2, CountConcat
  <2>4. LastSaid(ms, lastText)
    BY <1>1, <1>3, <2>1, <2>2, SaidConcat DEF Speaks
  <2>5. Len(ms) \in Nat /\ Len(ms) > 0 /\ ms[Len(ms)].role = "tool"
    <3>1. Len(tasks) > 0 /\ Len(tasks) \in Nat
      BY <1>1, <1>3, <2>1, LenProperties DEF Figures, TypeOK
    <3>2. /\ Len(ms) = Len(messages) + Len(o) /\ Len(messages) \in Nat
          /\ \A i \in 1 .. Len(ms) : ms[i] = IF i <= Len(messages) THEN messages[i]
                                                 ELSE o[i - Len(messages)]
      <4>1. messages \in Seq(Messages) /\ o \in Seq(Messages) /\ Len(messages) \in Nat
        BY <1>1, <2>2, LenProperties
      <4> QED
        BY <4>1, ConcatProperties
    <3> HIDE DEF ms
    <3>3. /\ Len(ms) \in 1 .. Len(ms) /\ ~(Len(ms) <= Len(messages))
          /\ Len(ms) - Len(messages) = Len(o) /\ Len(o) \in 1 .. Len(o)
      BY <2>2, <3>1, <3>2
    <3>4. ms[Len(ms)] = o[Len(o)]
      BY <3>2, <3>3
    <3> QED
      BY <2>2, <3>1, <3>2, <3>3, <3>4
  <2> HIDE DEF ms, u
  <2>6. /\ Count(ms, "assistant") = turn /\ asked' = turn /\ Count(ms, "user") = 1 /\ cap = FALSE
        /\ total' = Count(ms, "tool")
    BY <1>1, <1>3, <2>1, <2>3 DEF Figures, CountOf, TypeOK
  <2>7. CASE /\ messages' = ms /\ turn' = turn + 1 /\ pc' = "chat" /\ UNCHANGED cap
    <3>1. Figures'
      BY <1>1, <2>6, <2>7 DEF Figures, CountOf
    <3> QED
      BY <2>1, <2>4, <2>7, <3>1 DEF OutcomeInv, OutcomeIsTrue, StatsTrue, AnswerIsLastWord
  <2>8. CASE /\ turn >= Turns /\ messages' = ms \o <<u>>
             /\ pc' = "flush" /\ cap' = TRUE /\ UNCHANGED turn
    <3>1. u \in Messages /\ u.role = "user"
      BY DEF Messages, User, u
    <3>2. messages' = Append(ms, u)
      BY <2>3, <2>8, <3>1, AppendIsConcat
    <3>3. /\ Count(messages', "assistant") = Count(ms, "assistant")
          /\ Count(messages', "user") = Count(ms, "user") + 1
          /\ Count(messages', "tool") = Count(ms, "tool")
      BY <2>3, <3>1, <3>2, CountAppend
    <3>4. messages'[Len(messages') - 1].role = "tool"
      <4>1. Len(messages') = Len(ms) + 1 /\ \A i \in 1 .. Len(ms) : messages'[i] = ms[i]
        BY <2>3, <3>1, <3>2, AppendProperties
      <4>2. Len(messages') - 1 = Len(ms) /\ Len(ms) \in 1 .. Len(ms)
        BY <2>5, <4>1
      <4> QED
        BY <2>5, <4>1, <4>2
    <3>5. LastSaid(messages', lastText')
      <4> DEFINE q == <<u>>
      <4>1. q \in Seq(Messages) /\ \A j \in 1 .. Len(q) : ~Speaks(q[j])
        BY <3>1 DEF Speaks
      <4> HIDE DEF q
      <4>2. LastSaid(ms \o q, lastText)
        BY <2>3, <2>4, <4>1, SaidConcat
      <4> QED
        BY <2>1, <2>8, <4>2 DEF q
    <3>6. turn' = Turns
      BY <1>1, <2>8
    <3>7. /\ CountOf("assistant")' = turn' /\ asked' = turn' /\ CountOf("user")' = 2
          /\ total' = CountOf("tool")'
      BY <2>6, <2>8, <3>3 DEF CountOf
    <3>8. Figures'
      BY <2>8, <3>4, <3>6, <3>7 DEF Figures
    <3> QED
      BY <2>8, <3>5, <3>8 DEF OutcomeInv, OutcomeIsTrue, StatsTrue, AnswerIsLastWord
  <2> QED
    BY <2>1, <2>7, <2>8
<1>12. ASSUME NEW says \in Contents, Flush(says) PROVE OutcomeInv'
  <2> DEFINE text == IF says \in {"absent", "blank"} THEN lastText
                     ELSE [says |-> says, turn |-> turn + 1]
  <2>1. /\ pc = "flush" /\ pc' = "done" /\ asked' = asked + 1 /\ messages' = messages
        /\ outcome' = [text |-> text, turns |-> turn, toolCalls |-> total, cap |-> cap]
    BY <1>12 DEF Flush, Finish
  <2>2. text = lastText \/ (text.says \in {"prose", "final"} /\ text.turn > turn)
    <3>1. CASE says \in {"absent", "blank"}
      BY <3>1
    <3>2. CASE says \notin {"absent", "blank"}
      BY <1>1, <3>2 DEF Contents
    <3> QED
      BY <3>1, <3>2
  <2> HIDE DEF text
  <2>3. /\ outcome'.toolCalls = total /\ outcome'.cap = cap /\ outcome'.text = text
        /\ outcome'.turns = turn
    BY <2>1
  <2>4. \A role : CountOf(role)' = CountOf(role)
    BY <2>1 DEF CountOf
  <2>5. StatsTrue'
    <3>1. turn \in CountOf("assistant") .. CountOf("assistant") + 1 /\ asked' <= Turns + 1
      BY <1>1, <1>2, <1>3, <2>1 DEF Figures
    <3> QED
      BY <1>1, <1>3, <2>1, <2>3, <2>4, <3>1 DEF StatsTrue, Figures
  <2>6. AnswerIsLastWord'
    BY <1>3, <2>1, <2>2, <2>3, <2>4 DEF AnswerIsLastWord, Figures
  <2> QED
    BY <2>1, <2>5, <2>6 DEF OutcomeInv, Figures, OutcomeIsTrue
<1>13. CASE Drop \/ UNCHANGED vars
  <2>1. UNCHANGED <<turn, messages, lastText, total, tasks, cap, outcome, asked>>
        /\ (pc' = pc \/ pc' = "gone")
    BY <1>13 DEF Drop, vars
  <2> QED
    BY <1>3, <2>1 DEF OutcomeInv, Figures, OutcomeIsTrue, StatsTrue, AnswerIsLastWord, CountOf
<1> QED
  BY <1>5, <1>7, <1>8, <1>9, <1>10, <1>11, <1>12, <1>13 DEF Next, Chat, Over

\* The figures and the text the loop hands on are true of the run that led there.
THEOREM OutcomeTrue == Spec => []OutcomeIsTrue
<1>1. Init => OutcomeInv
  <2> SUFFICES ASSUME Init PROVE OutcomeInv
    OBVIOUS
  <2> DEFINE q == User("query")
             e == <<System>>
  <2>1. /\ pc = "chat" /\ turn = 1 /\ messages = <<System, q>> /\ lastText = NoText
        /\ total = 0 /\ cap = FALSE /\ asked = 0
    BY DEF Init
  <2>2. q \in Messages /\ q.role = "user" /\ System \in Messages /\ System.role = "system"
    BY DEF Messages, User, System
  <2>3. e \in Seq(Messages) /\ Count(e, "assistant") = 0 /\ Count(e, "user") = 0 /\ Count(e, "tool") = 0
    <3>1. e \in Seq(Messages) /\ DOMAIN e = {1} /\ e[1].role = "system"
      BY <2>2
    <3> HIDE DEF e
    <3>2. ASSUME NEW role, role # "system" PROVE Count(e, role) = 0
      <4>1. {i \in DOMAIN e : e[i].role = role} = {}
        BY <3>1, <3>2
      <4> QED
        BY <4>1, FS_EmptySet DEF Count
    <3> QED
      BY <3>1, <3>2
  <2>4. messages = Append(e, q) /\ \A i \in DOMAIN messages : ~Speaks(messages[i])
    <3>1. messages = Append(e, q)
      BY <2>1
    <3>2. DOMAIN messages = {1, 2} /\ messages[1] = System /\ messages[2] = q
      BY <2>1
    <3> QED
      BY <2>2, <3>1, <3>2 DEF Speaks
  <2> HIDE DEF q, e
  <2>5. CountOf("assistant") = 0 /\ CountOf("user") = 1 /\ CountOf("tool") = 0
    BY <2>2, <2>3, <2>4, CountAppend DEF CountOf
  <2>6. Figures
    BY <2>1, <2>5 DEF Figures
  <2>7. LastSaid(messages, lastText)
    BY <2>1, <2>4 DEF LastSaid
  <2> QED
    BY <2>1, <2>6, <2>7 DEF OutcomeInv, OutcomeIsTrue, StatsTrue, AnswerIsLastWord
<1>2. OutcomeInv => OutcomeIsTrue
  BY DEF OutcomeInv
<1> QED
  BY <1>1, <1>2, OutcomeStep, Invariance, PTL DEF Spec

-----------------------------------------------------------------------------
\* What the loop may still do: a turn is a request and a batch, the last thing the
\* flush.  Beside it, the tool tasks that have not ended.
WorkAt(p, t) ==
  IF p = "chat" THEN 2 * (Turns - t) + 3
  ELSE IF p = "tools" THEN 2 * (Turns - t) + 2
  ELSE IF p = "flush" THEN 1 ELSE 0

Work == WorkAt(pc, turn)
Running == {j \in DOMAIN tasks : tasks[j] = "running"}

LoopAdvances == Work \in Nat /\ Work' \in Nat /\ Work' < Work
TaskEnds == Work' = Work /\ \E j \in Running : Running' = Running \ {j}

\* With every step the loop comes nearer to its end, or one more of its finitely
\* many tasks is over: nothing it does can be repeated for ever.
EveryStepAdvances == [][LoopAdvances \/ TaskEnds]_vars

\* What is left to do is a number.
LEMMA WorkNat ==
  ASSUME NEW p, NEW t \in 1 .. Turns
  PROVE  /\ WorkAt(p, t) \in Nat
         /\ p = "chat" => WorkAt(p, t) = 2 * (Turns - t) + 3
         /\ p = "tools" => WorkAt(p, t) = 2 * (Turns - t) + 2
         /\ p = "flush" => WorkAt(p, t) = 1
         /\ p \in {"done", "gone"} => WorkAt(p, t) = 0
<1>1. Turns \in Nat
  BY ExploreAssumption DEF Turns
<1> QED
  BY <1>1 DEF WorkAt

\* Every step of an exploration brings it nearer to its end, for any number of
\* turns and any batches; and the tasks it leaves behind are finitely many.
THEOREM StepsRunOut == Spec => EveryStepAdvances /\ []IsFiniteSet(Running)
<1>1. ASSUME TypeOK, TypeOK', Next, ~UNCHANGED vars PROVE LoopAdvances \/ TaskEnds
  <2>1. /\ turn \in 1 .. Turns /\ turn' \in 1 .. Turns /\ Turns \in Nat
        /\ Work \in Nat /\ Work' \in Nat
    BY <1>1, WorkNat, ExploreAssumption DEF TypeOK, Work, Turns
  <2>2. /\ pc = "chat" => Work = 2 * (Turns - turn) + 3
        /\ pc = "tools" => Work = 2 * (Turns - turn) + 2
        /\ pc = "flush" => Work = 1
    BY <2>1, WorkNat DEF Work
  <2>3. /\ pc' = "chat" => Work' = 2 * (Turns - turn') + 3
        /\ pc' = "tools" => Work' = 2 * (Turns - turn') + 2
        /\ pc' = "flush" => Work' = 1
        /\ pc' \in {"done", "gone"} => Work' = 0
    BY <2>1, WorkNat DEF Work
  <2>4. CASE Chat
    <3>1. pc = "chat" /\ turn' = turn /\ pc' \in {"tools", "flush", "done"}
      BY <2>4 DEF Chat, ChatFails, FinalAnswer, StopsCalling, CallTools, Hear, Finish
    <3> QED
      BY <2>1, <2>2, <2>3, <3>1 DEF LoopAdvances
  <2>5. ASSUME NEW j \in DOMAIN tasks, RunTool(j) PROVE TaskEnds
    <3>1. PICK s \in {"ok", "panicked"} : tasks' = [tasks EXCEPT ![j] = s]
      BY <2>5 DEF RunTool
    <3>2. tasks[j] = "running" /\ pc' = pc /\ turn' = turn
      BY <2>5 DEF RunTool
    <3>3. DOMAIN tasks' = DOMAIN tasks /\ tasks'[j] = s
          /\ \A k \in DOMAIN tasks \ {j} : tasks'[k] = tasks[k]
      BY <1>1, <2>5, <3>1 DEF TypeOK
    <3>4. j \in Running /\ Running' = Running \ {j}
      BY <2>5, <3>2, <3>3 DEF Running
    <3>5. Work' = Work
      BY <3>2 DEF Work, WorkAt
    <3> QED
      BY <3>4, <3>5 DEF TaskEnds
  <2>6. CASE Join
    <3>1. pc = "tools" /\ Work = 2 * (Turns - turn) + 2
      BY <2>2, <2>6 DEF Join
    <3>2. CASE turn < Turns /\ turn' = turn + 1 /\ pc' = "chat"
      <4>1. Work' = 2 * (Turns - (turn + 1)) + 3
        BY <2>3, <3>2
      <4> QED
        BY <2>1, <3>1, <4>1 DEF LoopAdvances
    <3>3. CASE pc' = "flush"
      <4>1. Work' = 1 /\ Turns - turn >= 0
        BY <2>1, <2>3, <3>3
      <4> QED
        BY <2>1, <3>1, <4>1 DEF LoopAdvances
    <3> QED
      BY <2>6, <3>2, <3>3 DEF Join
  <2>7. CASE \E says \in Contents : Flush(says)
    <3>1. pc = "flush" /\ pc' = "done"
      BY <2>7 DEF Flush, Finish
    <3> QED
      BY <2>1, <2>2, <2>3, <3>1 DEF LoopAdvances
  <2>8. CASE Drop
    <3>1. pc \in {"chat", "tools", "flush"} /\ pc' = "gone"
      BY <2>8 DEF Drop
    <3> QED
      BY <2>1, <2>2, <2>3, <3>1 DEF LoopAdvances
  <2> QED
    BY <1>1, <2>4, <2>5, <2>6, <2>7, <2>8 DEF Next, Over
<1>2. TypeOK /\ TypeOK' /\ [Next]_vars => [LoopAdvances \/ TaskEnds]_vars
  BY <1>1
<1>3. TypeOK => IsFiniteSet(Running)
  <2> SUFFICES ASSUME TypeOK PROVE IsFiniteSet(Running)
    OBVIOUS
  <2>1. DOMAIN tasks = 1 .. Len(tasks) /\ Len(tasks) \in Nat
    BY DEF TypeOK
  <2>2. IsFiniteSet(DOMAIN tasks)
    BY <2>1, FS_Interval
  <2> QED
    BY <2>2, FS_Subset DEF Running
<1> QED
  BY <1>2, <1>3, TypeCorrect, PTL DEF Spec, EveryStepAdvances
=============================================================================
