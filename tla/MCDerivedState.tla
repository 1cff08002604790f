--------------------------- MODULE MCDerivedState ---------------------------
(* DerivedState for TLC.  The selector does not tell versions 1 and 2 apart, *)
(* so a recomputation can yield the value already cached.                    *)
EXTENDS DerivedState

Selector == [n \in 0 .. MaxMutations |-> CASE n = 0 -> "a" [] n \in 1 .. 2 -> "b" [] OTHER -> "c"]
=============================================================================
