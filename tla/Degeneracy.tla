----------------------------- MODULE Degeneracy -----------------------------
(***************************************************************************)
(* The checks an answer is put through (src/proxy.rs), on what they can    *)
(* tell apart: the kind and status of an error, the finish_reason, whether *)
(* the text is blank, a refusal or an answer, and whether tools are called.*)
(* esc is the EscalationConfig.                                            *)
(***************************************************************************)
EXTENDS Naturals

NoFinish == "none"       \* no choice in a body, no finish_reason in a prefix

\* Broken variant: every HTTP error is taken for an overload.
ShouldEscalateAnyStatus(e) == e.error \in {"RequestFailed", "ParseError", "ProviderError"}

ShouldEscalateError(e) ==
  \/ e.error \in {"RequestFailed", "ParseError"}
  \/ e.error = "ProviderError" /\ (e.status >= 500 \/ e.status = 429)

ResponseIsDegenerate(c, esc) ==
  \/ c.finish = NoFinish
  \/ c.finish = "content_filter"
  \/ esc.onTruncation /\ c.finish = "length"
  \/ esc.onEmptyResponse /\ c.text = "empty" /\ ~c.tools /\ c.finish # "tool_calls"
  \/ esc.onRefusal /\ c.text = "refusal"

PrefixIsDegenerate(p, esc) ==
  \/ p.finish = "content_filter"
  \/ esc.onTruncation /\ p.ended /\ p.finish = "length"
  \/ /\ esc.onEmptyResponse /\ p.ended /\ p.text = "empty"
     /\ ~p.tools /\ p.finish # "tool_calls"
  \/ esc.onRefusal /\ p.text = "refusal"
=============================================================================
