--------------------------- MODULE MCMandateBudget ---------------------------
(* Small instances of MandateBudget for TLC. *)
EXTENDS MandateBudget, TLC

CONSTANTS a1, a2, p1, p2

Symmetric == Permutations({p1, p2}) \union Permutations({a1, a2})
=============================================================================
