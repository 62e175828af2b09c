--------------------------- MODULE MCExploreLoop ---------------------------
(***************************************************************************)
(* ExploreLoop for TLC: batches of up to two calls, whose ids may be equal.*)
(***************************************************************************)
EXTENDS ExploreLoop

UpToTwo == {<<>>} \cup {<<i>> : i \in Ids} \cup {<<i, j>> : i, j \in Ids}
=============================================================================
