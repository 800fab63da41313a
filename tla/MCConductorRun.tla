--------------------------- MODULE MCConductorRun ---------------------------
(* Small instances of ConductorRun for TLC: playbooks of two stages, a gate   *)
(* and a stage in one run, in the other the other way round, both gates with  *)
(* the same conflict key.                                                     *)
EXTENDS ConductorRun, TLC

CONSTANTS c1, c2, r1, r2, key

MCGates == [r \in Runs |-> IF r = r1 THEN {1} ELSE {2}]
MCKeys  == [r \in Runs |-> [s \in Stages |-> IF s \in MCGates[r] THEN {key} ELSE {}]]

Symmetric == Permutations({c1, c2})
=============================================================================
