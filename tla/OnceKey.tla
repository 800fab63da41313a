------------------------------- MODULE OnceKey -------------------------------
(***************************************************************************)
(* What spec/45 promises of one idempotency key: one run at a time works   *)
(* under it, a run that fails gives it back, a run that succeeds completes *)
(* it, and a completed key keeps the run that completed it for ever.       *)
(***************************************************************************)
CONSTANTS Runs, NoRun

VARIABLE state

Fresh        == [phase |-> "fresh", run |-> NoRun]
Running(r)   == [phase |-> "running", run |-> r]
Completed(r) == [phase |-> "completed", run |-> r]

Init == state = Fresh

Begin(r)  == state = Fresh /\ state' = Running(r)
Abort     == state.phase = "running" /\ state' = Fresh
Commit    == state.phase = "running" /\ state' = Completed(state.run)

Next == (\E r \in Runs : Begin(r)) \/ Abort \/ Commit

Spec == Init /\ [][Next]_state
=============================================================================
