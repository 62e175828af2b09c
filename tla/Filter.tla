------------------------------- MODULE Filter -------------------------------
(***************************************************************************)
(* The elements of a sequence that are in a set, in their order: what      *)
(* SelectSeq does, as a recursive function, which a proof can unfold.      *)
(***************************************************************************)
EXTENDS Naturals, Sequences

Keep(v, x, T) == IF x \in T THEN Append(v, x) ELSE v

Kept(s, T) ==
  LET kept[i \in 0 .. Len(s)] == IF i = 0 THEN <<>> ELSE Keep(kept[i - 1], s[i], T)
  IN kept[Len(s)]
=============================================================================
