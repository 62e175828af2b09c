----------------------------- MODULE MCEvidence -----------------------------
(***************************************************************************)
(* Evidence for TLC: a file of short lines, one that begins with a line    *)
(* longer than a read may return, one with such a line inside, and one     *)
(* that cannot be read; every answer of up to three lines.                 *)
(***************************************************************************)
EXTENDS Evidence

Files == {"short", "long", "mixed", "secret"}
CanRead == Files \ {"secret"}
Length == [short |-> 5, long |-> 2, mixed |-> 3, secret |-> 1]
Bytes == [short |-> <<0, 1, 2, 3, 4, 5>>, long |-> <<0, 9, 10>>,
          mixed |-> <<0, 1, 10, 11>>, secret |-> <<0, 1>>]
Offsets == [p \in Files |-> [i \in 0 .. Length[p] |-> Bytes[p][i + 1]]]

\* Two tokens a line, one less for every third block, one for a marker: counts
\* need not grow with the text.
Tokens(b) ==
  (IF b.lines > 0 /\ (b.start + b.lines) % 3 = 0 THEN 2 * b.lines - 1 ELSE 2 * b.lines)
  + (IF b.mark = "none" THEN 0 ELSE 1)

SmallCaps == [lines: {0, 2, 4, 9}, tokens: {0, 3, 6, 20}]

Cite(p, a, b) == [kind |-> "cite", path |-> p, from |-> a, to |-> b]
Tag(k) == [kind |-> k]

Cites == {Cite("short", 0, 0), Cite("short", 1, NoEnd), Cite("short", 1, 9), Cite("short", 3, 2),
          Cite("short", 2, 5), Cite("short", 8, 9), Cite("long", 1, 2), Cite("mixed", 1, 3),
          Cite("secret", 1, 1)}

UpToThree ==
  LET some == Cites \cup {Tag("open"), Tag("close"), Tag("noise")}
  IN UNION {[1 .. n -> some] : n \in 0 .. 3}
=============================================================================
