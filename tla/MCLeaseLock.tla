---------------------------- MODULE MCLeaseLock ----------------------------
(* Small instances of LeaseLock for TLC. *)
EXTENDS LeaseLock, TLC

CONSTANTS h1, h2, h3, t1, t2, t3, t4

Symmetric == Permutations({h1, h2, h3}) \union Permutations({t1, t2, t3, t4})
=============================================================================
