------------------------------ MODULE MCRouter ------------------------------
(***************************************************************************)
(* Router for TLC: sizes below, between and above the thresholds 2 and 4,  *)
(* with and without a system message.                                      *)
(***************************************************************************)
EXTENDS Router

Msg(role, words, refs, tokens) ==
  [role |-> role, words |-> words, refs |-> refs, tokens |-> tokens]
Ask(messages, tools) ==
  [messages |-> messages, tools |-> tools, toolTokens |-> IF tools THEN 1 ELSE 0]

UserWords == {{}, {"tier1"}, {"tier2", "tier1"}, {"tier3", "tier2"}, {"complexity", "tier3"}}

\* Every list of words, every size and more files than the threshold.
Alone == {<<Msg("user", w, 0, n)>> : w \in UserWords, n \in {1, 3, 5}}
           \cup {<<Msg("user", {"tier1"}, 3, 1)>>}
\* A prompt that says nothing, something of its own, or names the files.
WithSystem == {<<Msg("system", w, f, 1), Msg("user", {"tier1"}, 0, n)>> :
                 w \in {{}, {"complexity", "tier3"}}, f \in {0, 3}, n \in {1, 2}}
\* Later messages, of the assistant and of the user.
Followed == {<<Msg("user", {}, 0, 1), Msg("assistant", {"complexity", "tier2"}, 0, 0),
               Msg("user", w, 0, 1)>> : w \in {{}, {"complexity"}}}

ManyAsks == {Ask(a, FALSE) : a \in Alone \cup WithSystem \cup Followed}
              \cup {Ask(<<Msg("user", {"tier1"}, 0, n)>>, TRUE) : n \in {1, 2}}

Conf(gate, semantic, cluster) ==
  [tier1Threshold |-> 2, tier2Threshold |-> 4,
   complexRequiresExplicit |-> gate, semantic |-> semantic, cluster |-> cluster]

AllConfigs == {Conf(g, s, c) : g, s, c \in BOOLEAN}
=============================================================================
