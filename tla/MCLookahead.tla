---------------------------- MODULE MCLookahead ----------------------------
(***************************************************************************)
(* Lookahead for TLC: well-formed OpenAI streams, with up to three lines of*)
(* text or tools, a finish_reason, a usage chunk and [DONE].               *)
(***************************************************************************)
EXTENDS Lookahead

Text(x) == [line |-> "text", data |-> x]
Tool == [line |-> "tool", data |-> ""]
Finish(r) == [line |-> "finish", data |-> r]
UsageLine == [line |-> "other", data |-> ""]
Done == [line |-> "done", data |-> ""]

Bodies == UNION {[1 .. n -> {Text("a"), Text("_"), Text("r1"), Text("r2"), Tool}] : n \in 0 .. 3}
Ends == {<<Finish(r), Done>> : r \in {"stop", "tool_calls", "content_filter", "length"}}
          \cup {<<>>, <<Done>>, <<Finish("stop"), UsageLine, Done>>}

AllScripts == {b \o e : b \in Bodies, e \in Ends}

OnOff == {[onEmptyResponse |-> TRUE, onTruncation |-> FALSE, onRefusal |-> TRUE],
          [onEmptyResponse |-> TRUE, onTruncation |-> TRUE, onRefusal |-> FALSE]}
=============================================================================
