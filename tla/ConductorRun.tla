---------------------------- MODULE ConductorRun ----------------------------
(***************************************************************************)
(* Runs of a playbook (conductor/run.py): callers of run() and resume(),   *)
(* the goal ledger of each run, the idempotency ledger and the stored      *)
(* results that a restart relies on, and gates that hold conflict keys.    *)
(*                                                                         *)
(* goal.md is written before the history line that goes with it, both      *)
(* under the goal lock, and a caller may die between any two writes.  The  *)
(* three locks (of a run, of the conflict scan, of a goal) go with their   *)
(* process, so they are read off the callers.  Playbooks are not edited.   *)
(***************************************************************************)
EXTENDS Naturals, FiniteSets

CONSTANTS
  Callers,     \* processes that call run() or resume()
  Runs,        \* conductor_run_ids
  Length,      \* number of stages
  Gates,       \* run -> its gate stages
  Keys,        \* run -> stage -> its conflict_keys
  Cap,         \* run_cap_usd, in units of money
  Iteration,   \* what one iteration of a stage costs at most
  Requeued,    \* runs whose halted gates the operator puts back
  MaxRounds,   \* bound: how often a gate is suspended
  MaxFaults,   \* bound on crashes, failing dispatches and lock timeouts
  None         \* no run, no decision, no ruling

Stages       == 1..Length
Dispositions == {"continue", "skip", "halt"}
Decisions    == Runs \X Stages \X (1..MaxRounds)  \* each is minted once

ASSUME PlaybookAssumption ==
  /\ Length \in Nat /\ MaxRounds \in Nat /\ MaxFaults \in Nat
  /\ Cap \in Nat /\ Iteration \in Nat \ {0}
  /\ Gates \in [Runs -> SUBSET Stages]
  /\ None \notin Runs \union Dispositions \union Decisions

Open   == {"pending", "in_progress", "blocked"}
Done   == {"complete", "skipped"}
Status == Open \union Done \union {"awaiting_decision", "abandoned"}

VARIABLES
  created,    \* runs whose goal exists
  status,     \* run -> stage -> status of its sub-goal
  round,      \* run -> stage -> decision_ids minted for it
  output,     \* <<run, stage>>: sub_goal.output points to a stored result
  committed,  \* <<run, stage>>: its idempotency record is COMPLETED
  spent,      \* run -> sum over its sub_goal_outcome_dispatched lines
  pending,    \* decisions with a conductor_gate_pending line
  rulings,    \* <<decision, disposition>>: conductor_gate_answered lines
  queued,     \* run -> decision of its last conductor_run_queued line, until
              \* conductor_queue_released
  finished,   \* runs with a conductor_run_completed line
  cut,        \* <<run, stage>> whose caller died after the status was written
              \* and before its result or ruling was (history)
  faults,     \* faults so far
  pc,         \* where each caller is
  run,        \* caller -> the run it works on
  stage,      \* caller -> the stage, 0 before there is one
  num,        \* caller -> headroom, cost or round, as the step needs
  ruling      \* caller -> the disposition it was called with

ledger == <<created, status, round, spent, pending, rulings, queued, finished>>
caller == <<pc, run, stage, num, ruling>>
vars   == <<ledger, output, committed, cut, faults, caller>>

Body == {"enter", "look", "heal", "append", "scan", "scanned", "claim",
         "suspend", "start", "dispatch", "account", "commit", "point"}

TypeOK ==
  /\ created \subseteq Runs /\ finished \subseteq Runs
  /\ status \in [Runs -> [Stages -> Status]]
  /\ round \in [Runs -> [Stages -> 0..MaxRounds]]
  /\ output \subseteq Runs \X Stages /\ committed \subseteq Runs \X Stages
  /\ cut \subseteq Runs \X Stages
  /\ spent \in [Runs -> Nat] /\ faults \in 0..MaxFaults
  /\ pending \subseteq Decisions /\ rulings \subseteq Decisions \X Dispositions
  /\ queued \in [Runs -> Decisions \union {None}]
  /\ pc \in [Callers -> {"idle", "answer", "answered"} \union Body]
  /\ run \in [Callers -> Runs \union {None}]
  /\ stage \in [Callers -> 0..Length] /\ num \in [Callers -> Nat]
  /\ ruling \in [Callers -> Dispositions \union {None}]
  /\ \A c \in Callers : pc[c] = "idle" <=> run[c] = None

Init ==
  /\ created = {} /\ output = {} /\ committed = {} /\ finished = {} /\ cut = {}
  /\ status = [r \in Runs |-> [s \in Stages |-> "pending"]]
  /\ round = [r \in Runs |-> [s \in Stages |-> 0]]
  /\ spent = [r \in Runs |-> 0] /\ faults = 0
  /\ pending = {} /\ rulings = {}
  /\ queued = [r \in Runs |-> None]
  /\ pc = [c \in Callers |-> "idle"]
  /\ run = [c \in Callers |-> None]
  /\ stage = [c \in Callers |-> 0]
  /\ num = [c \in Callers |-> 0]
  /\ ruling = [c \in Callers |-> None]
-----------------------------------------------------------------------------
\* The locks: of a run, for the body of run(); of a goal, between the write of
\* goal.md and the history line; of the conflict scan, from before the scan
\* until the gate with conflict keys is suspended.
Running(r)  == {c \in Callers : run[c] = r /\ pc[c] \in Body}
GoalFree(r) == \A c \in Callers :
                 run[c] = r => pc[c] \notin {"suspend", "account", "answered"}
Scanning    == {c \in Callers : \/ pc[c] = "scanned"
                                \/ /\ pc[c] \in {"claim", "suspend"}
                                   /\ Keys[run[c]][stage[c]] # {}}

\* Where a caller stands, and the end of its call.
Goes(c, l) == pc' = [pc EXCEPT ![c] = l]
Turns(c, s, n, l) ==
  /\ stage' = [stage EXCEPT ![c] = s] /\ num' = [num EXCEPT ![c] = n]
  /\ Goes(c, l) /\ UNCHANGED <<run, ruling>>
\* Bug variant of Returns: the run stays with the caller.
Returns_KeepsRun(c) ==
  /\ Goes(c, "idle") /\ UNCHANGED run
  /\ stage' = [stage EXCEPT ![c] = 0] /\ num' = [num EXCEPT ![c] = 0]
  /\ ruling' = [ruling EXCEPT ![c] = None]
Returns(c) ==
  /\ Goes(c, "idle")
  /\ run' = [run EXCEPT ![c] = None] /\ stage' = [stage EXCEPT ![c] = 0]
  /\ num' = [num EXCEPT ![c] = 0] /\ ruling' = [ruling EXCEPT ![c] = None]
OnlyReturns(c) == Returns(c) /\ UNCHANGED <<ledger, output, committed, cut, faults>>

Sets(r, s, to) == status' = [status EXCEPT ![r][s] = to]

Awaits(d) == status[d[1]][d[2]] = "awaiting_decision" /\ round[d[1]][d[2]] = d[3]
Skipped(r, s) == \E n \in 1..MaxRounds : <<<<r, s, n>>, "skip">> \in rulings

\* Bug variant of Passed: the loop passes over a halted stage too.
Passed_Abandoned(r, s) ==
  \/ status[r][s] = "complete" /\ (s \in Gates[r] \/ <<r, s>> \in output \union committed)
  \/ status[r][s] = "skipped" /\ Skipped(r, s)
  \/ status[r][s] = "abandoned"

\* A stage that the loop passes over: a gate that was answered, or a result that
\* the pointer or the idempotency record leads to.
Passed(r, s) ==
  \/ /\ status[r][s] = "complete"
     /\ s \in Gates[r] \/ <<r, s>> \in output \union committed
  \/ status[r][s] = "skipped" /\ Skipped(r, s)

\* The caller has loaded the goal and come to this stage.
Here(c, s) == /\ pc[c] = "look" /\ ~Passed(run[c], s)
              /\ \A t \in 1..(s - 1) : Passed(run[c], t)
-----------------------------------------------------------------------------
\* The goal of a new run and its conductor_run_started line.
Create(r) ==
  /\ r \notin created /\ created' = created \union {r}
  /\ UNCHANGED <<status, round, spent, pending, rulings, queued, finished,
                 output, committed, cut, faults, caller>>

\* Bug variant of Call: without the lock of the run.
Call_Unlocked(c, r) ==
  /\ pc[c] = "idle" /\ r \in created
  /\ run' = [run EXCEPT ![c] = r] /\ Goes(c, "enter")
  /\ UNCHANGED <<ledger, output, committed, cut, faults, stage, num, ruling>>

\* run(): the caller that finds the run locked gets LockBusy.
Call(c, r) ==
  /\ pc[c] = "idle" /\ r \in created /\ Running(r) = {}
  /\ run' = [run EXCEPT ![c] = r] /\ Goes(c, "enter")
  /\ UNCHANGED <<ledger, output, committed, cut, faults, stage, num, ruling>>

\* Bug variant of Deferred: the decision is compared, its status is not.
Deferred_RoundOnly(r) ==
  LET d == queued[r] IN d # None /\ round[d[1]][d[2]] = d[3]

\* A deferred run looks at the gate it waits for.
Deferred(r) == queued[r] # None /\ Awaits(queued[r])
StaysDeferred(c) == pc[c] = "enter" /\ Deferred(run[c]) /\ OnlyReturns(c)

Enter(c) ==
  /\ pc[c] = "enter" /\ ~Deferred(run[c])
  /\ queued' = [queued EXCEPT ![run[c]] = None] /\ Goes(c, "look")
  /\ UNCHANGED <<created, status, round, spent, pending, rulings, finished,
                 output, committed, cut, faults, run, stage, num, ruling>>

\* A suspended gate: its GateDecision is returned again, and its line written
\* again if a crash lost it, unless the gate was answered meanwhile.
Resurface(c, s) ==
  /\ Here(c, s) /\ status[run[c]][s] = "awaiting_decision"
  /\ <<run[c], s, round[run[c]][s]>> \in pending
  /\ OnlyReturns(c)

MissingLine(c, s) ==
  /\ Here(c, s) /\ status[run[c]][s] = "awaiting_decision"
  /\ <<run[c], s, round[run[c]][s]>> \notin pending
  /\ Turns(c, s, round[run[c]][s], "heal")
  /\ UNCHANGED <<ledger, output, committed, cut, faults>>

Reread(c) ==
  /\ pc[c] = "heal" /\ status[run[c]][stage[c]] = "awaiting_decision"
  /\ Goes(c, "append")
  /\ UNCHANGED <<ledger, output, committed, cut, faults, run, stage, num, ruling>>

SkipHeal(c) ==
  /\ pc[c] = "heal" /\ status[run[c]][stage[c]] # "awaiting_decision"
  /\ OnlyReturns(c)

Heal(c) ==
  /\ pc[c] = "append" /\ GoalFree(run[c])
  /\ pending' = pending \union {<<run[c], stage[c], num[c]>>}
  /\ Returns(c)
  /\ UNCHANGED <<created, status, round, spent, rulings, queued, finished,
                 output, committed, cut, faults>>

\* GoalCorrupted: a complete stage without a result, a skipped gate without a
\* ruling.
Lost(r, s) == status[r][s] \in Done /\ ~Passed(r, s)
FailsClosed(c, s) == Here(c, s) /\ Lost(run[c], s) /\ OnlyReturns(c)

\* _resolve_completed_stage_ref repairs a pointer on the way; a write that
\* fails is swallowed, so the step may be left out.
Repair(c, s) ==
  /\ pc[c] = "look" /\ status[run[c]][s] = "complete" /\ GoalFree(run[c])
  /\ <<run[c], s>> \in committed \ output
  /\ \A t \in 1..s : Passed(run[c], t)
  /\ output' = output \union {<<run[c], s>>}
  /\ UNCHANGED <<ledger, committed, cut, faults, caller>>

\* The halts that write nothing but their line: an abandoned stage, the cap.
\* (A spend that cannot be read halts the run as well: a Crash at this place.)
Halts(c, s) ==
  /\ Here(c, s)
  /\ \/ status[run[c]][s] = "abandoned"
     \/ status[run[c]][s] \in Open /\ spent[run[c]] >= Cap
  /\ OnlyReturns(c)

Finishes(c) ==
  /\ pc[c] = "look" /\ \A s \in Stages : Passed(run[c], s)
  /\ finished' = finished \union {run[c]} /\ Returns(c)
  /\ UNCHANGED <<created, status, round, spent, pending, rulings, queued,
                 output, committed, cut, faults>>
-----------------------------------------------------------------------------
\* The first suspension of a gate.  With conflict keys, the scan of the other
\* goals and the claim are under the scan lock.
ToGate(c, s) ==
  /\ Here(c, s) /\ s \in Gates[run[c]]
  /\ status[run[c]][s] \in Open /\ spent[run[c]] < Cap
  /\ Turns(c, s, 0, IF Keys[run[c]][s] = {} THEN "claim" ELSE "scan")
  /\ UNCHANGED <<ledger, output, committed, cut, faults>>

\* Bug variant of ScanLock: the scan and the claim are not serialised.
ScanLock_Unlocked(c) ==
  /\ pc[c] = "scan" /\ Goes(c, "scanned")
  /\ UNCHANGED <<ledger, output, committed, cut, faults, run, stage, num, ruling>>

ScanLock(c) ==
  /\ pc[c] = "scan" /\ Scanning = {} /\ Goes(c, "scanned")
  /\ UNCHANGED <<ledger, output, committed, cut, faults, run, stage, num, ruling>>

\* held_conflict_keys is written and cleared with the status.
Holders(c) ==
  {d \in Decisions : /\ d[1] \in created \ {run[c]} /\ Awaits(d)
                     /\ Keys[d[1]][d[2]] \intersect Keys[run[c]][stage[c]] # {}}

Queues(c) ==
  /\ pc[c] = "scanned" /\ GoalFree(run[c])
  /\ \E d \in Holders(c) : queued' = [queued EXCEPT ![run[c]] = d]
  /\ Returns(c)
  /\ UNCHANGED <<created, status, round, spent, pending, rulings, finished,
                 output, committed, cut, faults>>

NoConflict(c) ==
  /\ pc[c] = "scanned" /\ Holders(c) = {} /\ Goes(c, "claim")
  /\ UNCHANGED <<ledger, output, committed, cut, faults, run, stage, num, ruling>>

Claim(c) ==
  LET r == run[c]  s == stage[c]  n == round[r][s] + 1 IN
  /\ pc[c] = "claim" /\ GoalFree(r)
  /\ status[r][s] \in Open /\ n <= MaxRounds
  /\ Sets(r, s, "awaiting_decision")
  /\ round' = [round EXCEPT ![r][s] = n]
  /\ Turns(c, s, n, "suspend")
  /\ UNCHANGED <<created, spent, pending, rulings, queued, finished,
                 output, committed, cut, faults>>

Suspend(c) ==
  /\ pc[c] = "suspend"
  /\ pending' = pending \union {<<run[c], stage[c], num[c]>>}
  /\ Returns(c)
  /\ UNCHANGED <<created, status, round, spent, rulings, queued, finished,
                 output, committed, cut, faults>>
-----------------------------------------------------------------------------
\* Bug variant of ToStage: what the earlier calls of the run spent is forgotten.
ToStage_NoCarry(c, s) ==
  /\ Here(c, s) /\ s \notin Gates[run[c]]
  /\ status[run[c]][s] \in Open /\ Cap > 0
  /\ Turns(c, s, Cap, "start")
  /\ UNCHANGED <<ledger, output, committed, cut, faults>>

\* An automated stage.  The lease that begin() takes is left out: a lease found
\* in flight is ignored.
ToStage(c, s) ==
  /\ Here(c, s) /\ s \notin Gates[run[c]]
  /\ status[run[c]][s] \in Open /\ spent[run[c]] < Cap
  /\ Turns(c, s, Cap - spent[run[c]], "start")
  /\ UNCHANGED <<ledger, output, committed, cut, faults>>

Normalize(c) ==
  /\ pc[c] = "start" /\ GoalFree(run[c]) /\ status[run[c]][stage[c]] = "blocked"
  /\ Sets(run[c], stage[c], "in_progress")
  /\ UNCHANGED <<created, round, spent, pending, rulings, queued, finished,
                 output, committed, cut, faults, caller>>

\* dispatch_sub_goal_as_outcome: the start transition compares nothing.
Start(c) ==
  /\ pc[c] = "start" /\ GoalFree(run[c]) /\ status[run[c]][stage[c]] # "blocked"
  /\ Sets(run[c], stage[c], "in_progress") /\ Goes(c, "dispatch")
  /\ UNCHANGED <<created, round, spent, pending, rulings, queued, finished,
                 output, committed, cut, faults, run, stage, num, ruling>>

\* The outcome is satisfied, not satisfied, or interrupted.  A gate before each
\* iteration wants some headroom left, so the last one may exceed it; one that
\* breaks off before its verdict is not recorded, so the cost may be nothing.
Finish(c, to) ==
  LET r == run[c]  s == stage[c] IN
  /\ pc[c] = "dispatch" /\ GoalFree(r) /\ status[r][s] = "in_progress"
  /\ Sets(r, s, to)
  /\ \E n \in 0..(num[c] + Iteration - 1) : Turns(c, s, n, "account")
  /\ UNCHANGED <<created, round, spent, pending, rulings, queued, finished,
                 output, committed, cut, faults>>

\* Bug variant of Account: a stage that is not complete is committed too.
Account_AnyStatus(c) ==
  /\ pc[c] = "account"
  /\ spent' = [spent EXCEPT ![run[c]] = @ + num[c]]
  /\ Goes(c, "commit")
  /\ UNCHANGED <<created, status, round, pending, rulings, queued, finished,
                 output, committed, cut, faults, run, stage, num, ruling>>

\* The line of the terminal transition carries the cost.
Account(c) ==
  LET r == run[c] IN
  /\ pc[c] = "account"
  /\ spent' = [spent EXCEPT ![r] = @ + num[c]]
  /\ IF status[r][stage[c]] = "complete"
     THEN Goes(c, "commit") /\ UNCHANGED <<run, stage, num, ruling>>
     ELSE Returns(c)
  /\ UNCHANGED <<created, status, round, pending, rulings, queued, finished,
                 output, committed, cut, faults>>

\* Bug variant of Commit: a failing write is swallowed.
Commit_Swallows(c) ==
  /\ pc[c] = "commit" /\ Goes(c, "point")
  /\ \/ committed' = committed \union {<<run[c], stage[c]>>}
     \/ UNCHANGED committed
  /\ UNCHANGED <<ledger, output, cut, faults, run, stage, num, ruling>>

Commit(c) ==
  /\ pc[c] = "commit" /\ Goes(c, "point")
  /\ committed' = committed \union {<<run[c], stage[c]>>}
  /\ UNCHANGED <<ledger, output, cut, faults, run, stage, num, ruling>>

\* _store_outcome_pointer swallows a failure.
Point(c) ==
  /\ pc[c] = "point" /\ GoalFree(run[c])
  /\ \/ output' = output \union {<<run[c], stage[c]>>}
     \/ UNCHANGED output
  /\ Turns(c, 0, 0, "look")
  /\ UNCHANGED <<ledger, committed, cut, faults>>
-----------------------------------------------------------------------------
\* resume(): the decision is found without a lock, and ruled on under the goal
\* lock if the gate still awaits that decision.  The call of run() that follows
\* is a Call.
Resume(c, r, s, d) ==
  /\ pc[c] = "idle" /\ r \in created /\ status[r][s] = "awaiting_decision"
  /\ run' = [run EXCEPT ![c] = r] /\ ruling' = [ruling EXCEPT ![c] = d]
  /\ stage' = [stage EXCEPT ![c] = s] /\ num' = [num EXCEPT ![c] = round[r][s]]
  /\ Goes(c, "answer")
  /\ UNCHANGED <<ledger, output, committed, cut, faults>>

Decision(c) == <<run[c], stage[c], num[c]>>
Outcome(d)  == CASE d = "continue" -> "complete"
                 [] d = "skip"     -> "skipped"
                 [] d = "halt"     -> "abandoned"

\* Bug variant of Rule: the gate's status is compared, the decision is not.
Rule_StatusOnly(c) ==
  /\ pc[c] = "answer" /\ GoalFree(run[c])
  /\ status[run[c]][stage[c]] = "awaiting_decision"
  /\ Sets(run[c], stage[c], Outcome(ruling[c])) /\ Goes(c, "answered")
  /\ UNCHANGED <<created, round, spent, pending, rulings, queued, finished,
                 output, committed, cut, faults, run, stage, num, ruling>>

Rule(c) ==
  /\ pc[c] = "answer" /\ GoalFree(run[c]) /\ Awaits(Decision(c))
  /\ Sets(run[c], stage[c], Outcome(ruling[c])) /\ Goes(c, "answered")
  /\ UNCHANGED <<created, round, spent, pending, rulings, queued, finished,
                 output, committed, cut, faults, run, stage, num, ruling>>

Stale(c) == pc[c] = "answer" /\ ~Awaits(Decision(c)) /\ OnlyReturns(c)

Record(c) ==
  /\ pc[c] = "answered"
  /\ rulings' = rulings \union {<<Decision(c), ruling[c]>>} /\ Returns(c)
  /\ UNCHANGED <<created, status, round, spent, pending, queued, finished,
                 output, committed, cut, faults>>

\* The operator puts a halted gate back, by hand.
Requeue(r, s) ==
  /\ r \in Requeued /\ status[r][s] = "abandoned" /\ round[r][s] < MaxRounds
  /\ Sets(r, s, "pending")
  /\ UNCHANGED <<created, round, spent, pending, rulings, queued, finished,
                 output, committed, cut, faults, caller>>

\* The status of the caller's stage is written, and not yet its result or ruling.
Written(c) == /\ pc[c] \in {"account", "commit", "answered"}
              /\ status[run[c]][stage[c]] \in Done

\* A caller dies; or its call ends with an exception: a write fails, a dispatch
\* raises, the scan lock cannot be had in time.
Crash(c) ==
  /\ pc[c] # "idle" /\ faults < MaxFaults /\ faults' = faults + 1
  /\ cut' = IF Written(c) THEN cut \union {<<run[c], stage[c]>>} ELSE cut
  /\ Returns(c) /\ UNCHANGED <<ledger, output, committed>>
-----------------------------------------------------------------------------
Looks(c, s) ==
  \/ Resurface(c, s) \/ MissingLine(c, s) \/ FailsClosed(c, s) \/ Repair(c, s)
  \/ Halts(c, s) \/ ToGate(c, s) \/ ToStage(c, s)

Step(c) ==
  \/ StaysDeferred(c) \/ Enter(c) \/ Finishes(c)
  \/ \E s \in Stages : Looks(c, s)
  \/ Reread(c) \/ SkipHeal(c) \/ Heal(c)
  \/ ScanLock(c) \/ Queues(c) \/ NoConflict(c) \/ Claim(c) \/ Suspend(c)
  \/ Normalize(c) \/ Start(c) \/ Account(c) \/ Commit(c) \/ Point(c)
  \/ \E to \in {"complete", "blocked", "in_progress"} : Finish(c, to)
  \/ Rule(c) \/ Stale(c) \/ Record(c)

Next ==
  \/ \E r \in Runs : Create(r)
  \/ \E r \in Runs, s \in Stages : Requeue(r, s)
  \/ \E c \in Callers, r \in Runs : Call(c, r)
  \/ \E c \in Callers, r \in Runs, s \in Stages, d \in Dispositions :
       Resume(c, r, s, d)
  \/ \E c \in Callers : Step(c) \/ Crash(c)

Spec == Init /\ [][Next]_vars

\* A process runs; a run is called again and again, whoever is in its way; a
\* human comes to answer a gate.
FairSpec ==
  /\ Spec
  /\ \A c \in Callers : WF_vars(Step(c))
  /\ \A r \in Runs : SF_vars(\E c \in Callers : Call(c, r))
  /\ \A r \in Runs, s \in Stages :
       SF_vars(\E c \in Callers, d \in Dispositions : Resume(c, r, s, d))
-----------------------------------------------------------------------------
\* No two runs are suspended on one conflict key: the scan and the claim are one
\* step to other runs (conductor/run.py, _scan_active_conflicts).
GateExclusion ==
  \A r, q \in Runs, s, t \in Stages :
    r # q /\ status[r][s] = "awaiting_decision"
          /\ status[q][t] = "awaiting_decision"
    => Keys[r][s] \intersect Keys[q][t] = {}

\* However many callers, crashes and reruns, what the lines of a run add up to
\* exceeds its cap by less than one iteration (spec/50, C6 and C10: "can
\* overshoot run_cap_usd by at most one iteration's actual spend").
SpendWithinCap == \A r \in Runs : spent[r] < Cap + Iteration

\* An idempotency record is COMPLETED only when the sub-goal is complete, which
\* the narrow-window branch of run() relies on being unreachable.
CommittedIsComplete ==
  \A r \in Runs, s \in Stages : <<r, s>> \in committed => status[r][s] = "complete"

\* A conductor_run_completed line is true, and stays true.
CompletedIsDone ==
  \A r \in finished, s \in Stages : status[r][s] \in Done

\* An answer decides the suspension that its author was asked about, never a
\* later one of the same gate (expected_decision_id in _record_gate_answer).
RulingFits ==
  [][\A r \in Runs, s \in Stages :
       status[r][s] = "awaiting_decision" /\ status'[r][s] # "awaiting_decision"
       => \E c \in Callers : /\ pc[c] = "answer" /\ Decision(c) = <<r, s, round[r][s]>>
                             /\ status'[r][s] = Outcome(ruling[c])]_vars

\* Each run does its stages in order, each once, and waits at its gates: it
\* implements Playbook (the stage loop of run(), resume()).
Before(r) == {s \in Stages : \A t \in 1..s : status[r][t] \in Done}
Place(r)  == Cardinality(Before(r)) + 1
Phase(r)  ==
  IF \E s \in Stages : s > Place(r) /\ status[r][s] # "pending" THEN "ahead"
  ELSE IF Place(r) > Length THEN "ready"
  ELSE CASE status[r][Place(r)] = "awaiting_decision" -> "asked"
         [] status[r][Place(r)] = "abandoned" -> "halted"
         [] OTHER -> "ready"
Abstract == INSTANCE Playbook WITH place <- [r \in Runs |-> Place(r)],
                                   phase <- [r \in Runs |-> Phase(r)]
ImplementsPlaybook == Abstract!Spec

Ended(r) ==
  \/ r \in finished \/ spent[r] >= Cap
  \/ \E s \in Stages : status[r][s] = "abandoned" \/ Lost(r, s)

\* A dispatch of the run ended without a result, and recorded no cost.
Fruitless(r) == \E c \in Callers :
  run[c] = r /\ pc[c] = "account" /\ num[c] = 0 /\ status[r][stage[c]] \notin Done

\* A run that is called again and again ends: done, halted by its cap or by the
\* operator, or lost in a crash (spec/50: a deferred run releases itself) -
\* unless its dispatches go on breaking off before anything is recorded.
RunsEnd ==
  \A r \in Runs : (r \in created ~> Ended(r)) \/ []<>Fruitless(r)

\* A run keeps its place (docs/spec/50-conductor.md:11): a stage that is done is
\* passed by the next call, however callers and answers interleave, unless a
\* caller died between the status and the result (or ruling) that proves it.
KeepsItsPlace ==
  \A r \in Runs, s \in Stages :
    Lost(r, s) => \/ <<r, s>> \in cut
                  \/ \E c \in Callers : Written(c) /\ run[c] = r /\ stage[c] = s
=============================================================================
