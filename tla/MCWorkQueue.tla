---------------------------- MODULE MCWorkQueue ----------------------------
(* Small instances of WorkQueue for TLC. *)
EXTENDS WorkQueue, TLC

CONSTANTS j1, j2, j3, w1, w2, r1, r2, t1, t2, t3, t4

\* Two jobs under one name and a third under another; one job.
TwoNames == j1 :> 1 @@ j2 :> 1 @@ j3 :> 2
OneName  == j1 :> 1

Symmetric == Permutations({w1, w2}) \union Permutations({t1, t2})
=============================================================================
