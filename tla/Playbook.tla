------------------------------ MODULE Playbook ------------------------------
(***************************************************************************)
(* What the conductor promises of its runs (docs/spec/50-conductor.md):    *)
(* the stages of a run are done one after the other and none is done       *)
(* again, a gate waits for its answer, and a run that was halted at a gate *)
(* goes on only when the operator puts the gate back.                      *)
(***************************************************************************)
EXTENDS Naturals

CONSTANTS Runs, Length, Gates

VARIABLES
  place,   \* run -> the first stage that is not done
  phase    \* run -> "ready", "asked", "halted"

Init == place = [r \in Runs |-> 1] /\ phase = [r \in Runs |-> "ready"]

Moves(r, from, to, next) ==
  /\ phase[r] = from /\ phase' = [phase EXCEPT ![r] = to]
  /\ place' = [place EXCEPT ![r] = next]

Stage(r)   == /\ place[r] \in (1..Length) \ Gates[r]
              /\ Moves(r, "ready", "ready", place[r] + 1)
Ask(r)     == place[r] \in Gates[r] /\ Moves(r, "ready", "asked", place[r])
Proceed(r) == Moves(r, "asked", "ready", place[r] + 1)
Halt(r)    == Moves(r, "asked", "halted", place[r])
Requeue(r) == Moves(r, "halted", "ready", place[r])

Next == \E r \in Runs :
  Stage(r) \/ Ask(r) \/ Proceed(r) \/ Halt(r) \/ Requeue(r)

Spec == Init /\ [][Next]_<<place, phase>>
=============================================================================
