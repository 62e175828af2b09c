------------------------------- MODULE Tiers -------------------------------
(***************************************************************************)
(* The model tiers of the router (src/router.rs) and the ladder that       *)
(* quality escalation climbs: Free, then Standard, then Complex.           *)
(***************************************************************************)
EXTENDS Naturals

Tier == {"Free", "Standard", "Complex"}

NoTier == "none"        \* Option<Tier>::None

\* The height of a tier on the ladder: the order of the enum's variants.
Rank == [Free |-> 0, Standard |-> 1, Complex |-> 2]

\* Tier::escalate: the next tier up, none at the top.
Escalate(t) == CASE t = "Free"     -> "Standard"
                 [] t = "Standard" -> "Complex"
                 [] t = "Complex"  -> NoTier
=============================================================================
