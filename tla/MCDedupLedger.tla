--------------------------- MODULE MCDedupLedger ---------------------------
(* Small instances of DedupLedger for TLC. *)
EXTENDS DedupLedger, TLC

CONSTANTS c1, c2, c3, x1, x2, x3, x4, x5

Symmetric ==
  Permutations({c1, c2, c3}) \union Permutations({x1, x2, x3, x4, x5})
=============================================================================
