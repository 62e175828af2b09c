------------------------- MODULE MCAnthropicStream -------------------------
(***************************************************************************)
(* AnthropicStream for TLC.  Two tools are enough for one to interrupt the *)
(* other, two strings to tell a lost or repeated piece from a good one;    *)
(* two counts, given in the cfg, tell the last usage from an earlier one.  *)
(***************************************************************************)
EXTENDS AnthropicStream

TwoTexts == {"a", "b"}
TwoTools == {"t0", "t1"}
TwoFragments == {"p", "q"}
OneText == {"a"}
OneFragment == {"p"}
TwoReasons == {"stop", "tool_calls"}
=============================================================================
