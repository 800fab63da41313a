---------------------------- MODULE MCGoalLedger ----------------------------
(* Small instances of GoalLedger for TLC: the second sub-goal waits for the *)
(* first.                                                                   *)
EXTENDS GoalLedger, TLC

CONSTANTS s1, s2, d1, d2, o1, o2, c1

Chain == [s \in Subs |-> IF s = s2 THEN s1 ELSE None]
=============================================================================
