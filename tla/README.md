# Verification of Atomic Agents

TLA+ specifications of the parts of Atomic Agents where several processes,
threads or crashes meet: the filesystem work queue, the idempotency ledger, the
Redis lock, the budget reservations of mandates, the goal directory, the runs of
the conductor and the schema migration of a vault. TLC checks each one on small
instances; TLAPS proves the safety properties and the refinements for every
value of the constants. Paths below are relative to the repository root.

## The system

Atomic Agents runs LLM agents whose whole state is files (or rows) that several
processes share. There is no server that orders them: what keeps two replicas, a
cron job and an operator's shell apart is the atomicity of a rename or of an
exclusive create, one lock per agent, an append-only JSONL log, and recovery
passes that read what a dead process left behind. That is where the bugs that
tests do not reach live, and it is what these modules are about.

| Component | State | Operations | Meets |
|---|---|---|---|
| Work queue (`queue/`, `_cascade.py`) | one file per item under `queued/`, `claimed/<token>/`, `done/`, `dead-letter/`, `queued/_recovered/`; a lease sidecar beside a claimed file | enqueue, claim_next, renew_lease, release, move_to_dead_letter, recover_stale_claims | workers of many processes; cron jobs that recover |
| Idempotency ledger (`idempotency/`) | per key a lease file and a terminal marker | lookup, begin, commit, release_lease | `agent.call()`, the agent lock, the log |
| Locks (`locks/`) | flock on a file, or a Redis key with a TTL and a heartbeat thread | acquire, release, renew, check_lock_lost | every `agent.call()`, dream runs, mandate recovery |
| Mandates (`mandate/`, `judge/mandate_*.py`) | `mandates.md`, a state file, reservation events in the log, an in-process table with TTL timers | load, judge, create / commit / rollback / expire, recover_orphan_reservations | the tool loop, the log, replicas that boot |
| Judge layer (`judge/`) | ensemble results, escalation files | dispatch, escalate, poll, revise | the tool loop, operators |
| Agent runtime (`agent.py`) | per-call locals, the JSONL log | call, helper_call, delegate | all of the above |
| Goals (`goal/`) | `goal.md`, `goal_history.jsonl`, `goal_archive/` and a lock file per goal directory; what a `GoalManager` has in memory | create_goal, load, save, apply_transition, append_history_event, archive_goal, coordinator dispatch | conductor, operators, agents |
| Conductor (`conductor/`) | one goal directory per run (the sub-goals are the stages, the history holds the gates and the spend), an idempotency record and a stored result per stage, a run lock, a scan lock | run, resume, defer and release, answer a gate | goals, the idempotency ledger, agents, operators |
| Schema migration (`migration/`) | the vault itself, tarballs under `_migrations/snapshots`, an audit file, a lock file in the vault | run_migration (snapshot, scripts, validation), restore, restore_and_audit | the vault lock, operators |
| Logs (`logs/`, `_capture.py`, `_io.py`) | JSONL files, SQLite, Postgres | append, query, rotate, migrate | everything |
| Stores (memory, corpus, journal, conversation, outcome) | Markdown documents or rows | read, write, version | agents, dreams |
| Registries, profiles, personas, policies, secrets | configuration documents | load, list | agents at start |
| Operator side (cli, doctor, dashboard, serve, deploy, init, manage, advisor) | none of its own, or one small file | commands | reads everything |

`PROJECT.json` lists all of them with what is modelled, and the hazards, each
at the line where it bites.

## Modules

| Module | Models | Abstract specification |
|---|---|---|
| `WorkQueue` | `queue/filesystem.py`, `recover_stale_claims` | `WorkItem`: the life of one item |
| `DedupLedger` | `idempotency/filesystem.py` and the part of `agent.call()` around it | `OnceKey`: the life of one key |
| `LeaseLock` | `locks/redis.py` | |
| `MandateBudget` | `mandate_reservations.py`, steps 7 and 8 of `mandate_check.py`, the tool loop, orphan recovery | |
| `GoalLedger` | `goal/filesystem.py`, `goal/coordinator.py`, the `GoalManager` operations the command line uses | |
| `ConductorRun` | `run()` and `resume()` of `conductor/run.py`, with the goal and idempotency writes they make | `Playbook`: the stages of a run in order |
| `VaultMigration` | `migration/filesystem.py` and the flock it takes | |
| `MC<module>` | constants and symmetry sets of the TLC runs | |
| `<module>Proofs` | the theorems | |

`DedupLedger` composes the ledger with the agent lock: with `LeaseLock = FALSE`
the lock is the flock of `locks/filesystem.py`, with `TRUE` it may vanish from
under its holder at any moment, which is all that `LeaseLock` allows a successor
to rely on. `MandateBudget` composes the agent's tool loop, the reservation
table, its timers, the log and the recovery of a replica that boots.
`ConductorRun` composes the conductor with the goal ledger, the idempotency
ledger and the result store, at the granularity of their durable writes: the goal
lock of `GoalLedger`, under which `goal.md` is written before its history line,
appears as `GoalFree`.

### WorkQueue

`fs` is a total function from locations (state directory, role or token, name)
to files, `sidecar` gives the lease file beside a claimed or recovered item as
absent, torn or valid, `dirs` the lease directories that exist. Each system call
that changes this tree is one action, named after the operation it belongs to:

* `ClaimMkdir`, `ClaimScan`, `ClaimPlaceholder`, `ClaimRename`, `ClaimSidecar`,
  `WriteSidecar` are `claim_next` in order; `ClaimLostRace`, `ClaimRenameFails`,
  `ClaimRaises`, `ClaimNone` are its other ways out.
* `Renew` and `WriteSidecar` are `renew_lease`: `O_TRUNC` and the write are two
  steps, so a reader may see a torn sidecar.
* `Release`, `DeadLetter`, `UnlinkSidecar` finish an item. The session ends also
  when the file is gone.
* `SweepStart` ... `SweepEnd` are `_recover_stale_claims_native`, directory by
  directory and file by file; the stale decision (`SweepFile`) and the rename
  (`SweepRename`) are apart.
* `Adopt` is the caller of a recovery who works on an item it was given.
* `Crash` and `SweepCrash` end a process anywhere and leave the tree as it is.

`WorkItem` says what the queue promises of one item whatever the storage: a
pending item is taken once, what is completed or dead-lettered stays so, only a
pending item is superseded by a newer payload of its name. `ImplementsWorkItem`
is the refinement, with the state of a job read off the tree.

Role buckets do not interact, so one is modelled; two callers never pick the
same token at the same time. The model leaves out the symlink containment
checks, `list_claimed` and `export` (which only read), reason files and the
producer's temporary files, which a claim ignores. Of I/O errors it has the
failing rename of a claim and the vanished directory of a sidecar; other errors
of a sidecar's write and errors inside a recovery are left out, and so is the
recovery of other backends (`queue/backend.py:342-384`), which no backend of the
repository takes.

### DedupLedger

One key: `lease` and `terminal` are its two files, `lock` the holder of the
agent lock, `logged` the runs whose audit record is durable. A caller goes
through `agent.call()`: `Lookup` before the lock, `AcquireLock` or `LockBusy`,
`CostGate`, the steps of `begin` (`BeginTerminal` to `BeginInFlight`, with the
retry of `_begin_after_vanished`), `Work`, `Log`, the steps of `commit`, and the
finally clause (`ReleaseLease`, `Unlock`). `Failures` says which things may
fail: a skipped call, the lease write, the run, the commit write, an unlink, the
release, a killed process, a power loss (which may lose the lease, never the
marker or the log: only the lease is written without fsync). Keys are separate
files, so one key stands for all. Two things are assumed. A file that was synced
outlives a power loss: `_io.py:80-93` does not sync the directory of a new day's
log, so the whole file could go, and `AuditLink` would fail. And each call has a run
id of its own (`Start`); a caller that pins its id (`agent.py:446-451`, the outcome,
eval and dream loops) keeps it over several calls.

`OnceKey` is the promise of spec/45: fresh, running, completed, with one run at a
time and a completion that is never rewritten.

### LeaseLock

`key` and `left` are the Redis key and its remaining TTL in ticks; `hb`, `wait`
and `lost` belong to the heartbeat thread of a token. A Lua script is one step.
`Second` is the number of ticks in a second, so that TTLs that are not whole
seconds can be expressed: Redis gets `RedisTtl`. A thread may be delayed for
ever, also between waking up and running its script; the history variable `late`
says whether any thread ever was late by a tick (`Overdue`), so that the promise
to a prompt holder (`HolderHasKey`) and the promises to everybody else are checked
in one state space. `ManualRenew` is `renew`, which the holder calls on its own
thread.

### MandateBudget

Money is counted in units: a projection is one unit and exact, so that what is
checked is the protocol and not the estimate. `log` counts the events of each
proposal, `recorded` is what the budget sums read. A process boots (`Boot`, `Scan`, `Emit`, `Booted` are
`recover_orphan_reservations`, once per scope), then takes calls under the call
lock; a call is turns (`StartTurn`), a turn judges its tool calls (`Allow` with
`Create` and `AppendReservation`, or `Block`) and then runs the admitted ones
(`Execute`, `Resolve`, `WriteResolution`), unless policy.md denies the tool
(`Deny`); `EndCall` writes the only record with a cost that bears the mandate.
`Raise` is a call that ends with an exception in a process that lives on: no such
record, and the reservations are left to their timers. `EmitFails` is a recovery
whose append raises. `Expire` and `WriteExpired` are the TTL timer's thread. Pop and
log append are separate steps everywhere.

The code has two times where one is expected. `Ttl` is `reservation_ttl_s`, which the
managers give to their timers (`agent.py:1202-1228`); `Window` is how long a
reservation counts, the default of 60 s, because the two checks
(`judge/mandate_check.py:1227,1422`) pass no `ttl_s` to `compute_outstanding`. The
constants are independent, and `mandate_turn` has the longer `Ttl`.

### GoalLedger

One goal directory: `md` is `goal.md`, `history` the lines of
`goal_history.jsonl` (of each only whose goal it is about and whether it is the
`goal_created` line), `archive` the newest archived file, `lock` the flock. A
goal has a generation `gen`, so that a goal created after an archive is told
apart from the one before. Every process goes through `pc`; with `append` and `unlink` it
is between the two writes of an operation and holds the lock.

* `Create` and `Heal` are `create_goal`: a fresh goal, or the missing history
  line of a partial one; `Verdict` is `_classify_create_history`. Its refusals
  change nothing and are not steps.
* `Load`, `Reject`, `Start`, `Resume`, `Finish`, `Refused` are
  `dispatch_sub_goal_as_outcome`: the status is read without the lock, the start
  transition trusts it, the terminal one compares first. `Rerun` is the
  conductor's reset of a blocked stage. All of them share `Transition`, which is
  `apply_transition` under the lock up to the write of `goal.md`.
* `OpLoad`, `Save`, `OpArchive`, `Archive`, `Unlink`, `ArchiveGone` are
  `GoalManager` and `archive_goal`. `Save` writes the whole goal as it was loaded,
  however old that is. It also stands for the save at the end of the
  `dispatch_as_outcome` shim.
* `AppendLine` is the second write of each locked operation and the release.
* `Crash` ends a process anywhere, or is a write that raises; the flock goes with it.

### ConductorRun

`status` is the sub-goals of each run's `goal.md`; `spent`, `pending`,
`rulings`, `queued` and `finished` are what its history lines add up to;
`output` and `committed` are the pointers to stored results and the idempotency
records of stages. A caller is in `pc`, for a `run` and a `stage`. The run lock,
the scan lock and the goal locks are released by the death of their process and
are read off the callers.

* `Call` is `run()` up to the run lock, `StaysDeferred` and `Enter` the look at the
  last `conductor_run_queued` line. `Looks` is the stage loop: the loop over stages
  that are done is collapsed into the choice of the first stage that is not passed.
  `Resurface`, `MissingLine`, `Reread`, `SkipHeal`, `Heal` are a gate that waits;
  `Repair` and `FailsClosed` a done stage whose pointer, record or ruling is
  missing; `Halts` the cap and the abandoned gate; `Finishes` the completed run.
* `ToGate`, `ScanLock`, `Queues` or `NoConflict`, `Claim`, `Suspend` suspend a
  gate. `ToStage`, `Normalize`, `Start`, `Finish`, `Account`, `Commit`, `Point` run
  an automated one; the headroom is fixed when it starts. The gate before each
  iteration asks only that some headroom is left, so `Finish` may end up to one
  iteration above it (`Iteration` is what one costs at most, in the units of `Cap`),
  or with no cost at all.
* `Resume`, `Rule`, `Stale`, `Record` are `resume()`: the decision is read without a
  lock, compared and ruled on under the goal lock, recorded afterwards.
  `Requeue` is the operator who puts a halted gate back by hand.
* `Crash` ends a caller anywhere, or is a write, dispatch or lock that raises.

`Playbook` is the promise of spec/50: stages in order, none twice, a gate waits.
The stage the refinement is in is the number of leading done stages.

Left out: PLAYBOOK.md parsing and its pinned fingerprint (a playbook is never
edited here), the lease that `begin()` takes (one found in flight is ignored by
the code), an operator who abandons an automated stage, the advisory queue record, a
history whose spend cannot be read: it halts the run as long as the torn line is
there, which a repeated `Crash` at that place stands for only while faults last.
With guardrails disabled there is no gate at all (spec/50, M1), and nothing is
claimed of the spend.

### VaultMigration

`live` is `agents_root`: the versions of its units, the snapshots in it and the
holder of the lock file in it, or nothing. `staged` and `aside` are a process's
`_restore-tmp-*` and `_restore-aside-*`, `strays` the directories a dead process
left beside the vault, `printed` the snapshots an operator was told of.

* `Plan`, `Lock`, `NoSnapshot` or `Snapshot`, `Apply` per unit, `PassOver`, `Raise`,
  `NextScript`, `Validate`, `Release`, `Audit` are `run_migration` in order.
* `Stage`, `Away`, `Swap`, `Discard` are `restore`, with the two renames apart;
  `CannotRestore`, `RestoreFails` and `Blocked` are its exceptions. It runs inside a
  failed migration or, without the lock, for `Rollback`, the operator's command.
* `Lock` and `Audit` make the directory if it is gone, because acquiring the lock
  and appending to the audit do; that is how `Blocked` comes about.
* `Crash` ends a process anywhere; its flock goes, its directories stay.

Assumed: an operator rolls back when no migration runs and starts none
meanwhile; two snapshots are not made in the same second (the name has seconds,
and the second tarball would replace the first); opening and locking the lock
file are one step (`Lock`). They are two calls (`locks/filesystem.py:110,115`): a
process between them while another's rollback swaps and deletes the directory gets
the flock of a file that has no name any more, a third one makes and locks a new
file, and the two migrate at once. `NoHalfMigration` is not claimed then: one
of them may leave, or find, what the other has half migrated. Agents that write
during a migration are left out: the comment at `migration/filesystem.py:665` speaks
of a lock that serializes concurrent mutators, which agents do not take.

A unit here is one that the tarball has. `_tar_filter` drops every path with a
part named `snapshots` (`migration/filesystem.py:1102`), which `_iter_units`
(lines 867-874) enumerates: such a unit is migrated and not restored. Deaths are of
processes only: the copies of a restore are not synced, so a power loss may take
what `Preserved` keeps.

## Runs

Passing runs, with their bounds:

| Run | Properties | Instance | States |
|---|---|---|---|
| `queue_safety` | `TypeOK`, `OneCopy`, `ClaimedOnce`, `ImplementsWorkItem` | 1 job, 2 workers, 1 recovery, 2 tokens, lease 1, clock 2, 2 faults | 330,978 |
| `queue_claims` | `ImplementsWorkItem`, `QueuedEventuallyClaimed` | 3 jobs under 2 names, 2 workers, 3 tokens, no recovery | 42,430 |
| `queue_sweeps` | `AbandonedEventuallyDone` | 1 job, 1 worker, 1 recovery, 1 token used again and again, clock 3, 1 fault | 32,588 |
| `dedup_safety` | `TypeOK`, `OneRun`, `AuditLink`, `ImplementsOnceKey`, `EventuallyCompleted` | 2 callers, 4 runs, a lock that may be lost, every failure, 2 of them | 266,423 |
| `lock_safety` | `TypeOK`, `HolderHasKey`, `SuccessorSafe`, `LostHolderStops`, `OrphanFreed` | 2 processes, 3 tokens, TTL 2.5 s, heartbeat 1 s | 48,015 |
| `mandate_safety` | `TypeOK`, `ResolvedOnce`, `RecoveredOnce` | 2 processes, 2 proposals, 1 scope, cap 1, external spend, crashes, failing tools and appends, calls that raise, 2 of them | 810,970 |
| `mandate_turn` | `TurnFits`, `EventuallyResolved` | 1 process, 2 proposals, 2 scopes, cap 1, TTL 3 and window 2, crashes, failing tools, calls that raise, 3 of them | 144,976 |
| `goal_safety` | `TypeOK`, `CreatedFirst`, `AuditMatchesGoal`, `ArchiveKeeps`, `LockFreed` | 1 dispatcher, which is a conductor, 2 operators, 1 creator, 1 sub-goal, 2 goals one after the other, 3 history lines | 584,261 |
| `conductor_safety` | `TypeOK`, `GateExclusion`, `SpendWithinCap`, `CommittedIsComplete`, `CompletedIsDone`, `KeepsItsPlace`, `RulingFits`, `ImplementsPlaybook` | 2 callers, 2 runs of a gate and a stage in opposite orders, one conflict key, cap 1, iterations of at most 2, 2 suspensions of a gate, 1 fault | 660,214 |
| `conductor_ends` | `RunsEnd` | the same with 1 caller | 76,025 |
| `migration_safety` | `TypeOK`, `NoHalfMigration`, `Preserved`, `InterruptedHeals` | 2 processes, 2 units, scripts 1 to 2 to 3 of which 2 is the adopted version, 2 snapshots, 1 fault | 146,516 |

Why these bounds are enough to be interesting: every property needs at most two
actors and one of a third kind to go wrong (two claimers, or a claimer and a
recovery, or a holder, its successor and a straggling heartbeat), one item or
key, and one or two failures between their steps. The clock bounds let every
lease or TTL run out at least once. `MaxGoals` lets a goal be archived and created
again, and `MaxEvents` lets it be created, started and finished; two dispatchers
of one sub-goal meet in `goal_reopened`. In `conductor_safety` one run suspends
its gate first and the other after a stage, so that a deferred run, a release, a
second suspension and a stale answer all occur; a cap of one unit and iterations of
up to two are enough for a stage that stays below the cap, reaches or exceeds it, and
for one that meets what another call left (the headroom of a dispatch is then
always the whole of one unit; that larger ones shrink call by call is in the theorem).
`mandate_turn` lets the clock run on past its bound while a timer is pending. In `migration_safety` a run to version 3
always fails validation, so a rollback needs no fault and the one fault can hit
it. Tokens and run ids are drawn again only when
nothing remembers them, so small sets stand for unlimited supplies. The theorems
below remove the bounds where they apply. Each property has a mutant, an operator
named `<Action>_<Bug>` above the action it changes, that makes TLC report it.

`AbandonedEventuallyDone` and `EventuallyCompleted` have an exception, `Stranded`,
that describes the states the code cannot leave: a recovered item that nobody was
told of, a lease whose process died. `RunsEnd` and `KeepsItsPlace` have `Lost` and
`cut`, a stage that a death separated from its proof; `NoHalfMigration` and
`InterruptedHeals` set aside a vault that is displaced or whose process died.
`RunsEnd` has `Fruitless` besides, a dispatch that broke off before its verdict and
recorded no cost, as long as that happens again and again. Nothing else may stop the
work. The queue's runs have one recovery at a time: that two overlap without harm
rests on the theorems, which bound neither.

Deadlock is checked for the ledger, the lock and the conductor. The queue and the
mandate model stop when the clock and the jobs are used up, the goal model when
the history is full, the migration may have nothing left to migrate and no
snapshot to go back to, so their runs switch it off.

### Where the code does something else than its documents say

One run checks a property that the documents state and ends in a violation;
`PROJECT.json` quotes the sentence and the lines.

| Run | Property | In short |
|---|---|---|
| `goal_reopened` | `CompletedStays` | the start transition of a second dispatch takes a completed sub-goal back to in_progress |

The models reach further states in which the code differs from what is written
about it. They have no run of their own; the actions and the exceptions that
stand for them do:

* Queue, live lease: a recovery that reads a sidecar between the truncation and the
  write of a renewal (`queue/filesystem.py:1356-1365`) takes it for stale and moves
  an item whose lease is live, which `docs/spec/44-queue-backend.md:193` and
  `queue/filesystem.py:234` exclude. `OneCopy` and `ClaimedOnce` hold all the same.
* Lock, fractional TTL: a TTL of 1.5 s passes the check of `locks/redis.py:171-176`
  and is cut to a whole second at line 216, at or below the heartbeat interval.
* Mandates, recovered orphan: the event that recovery writes
  (`mandate/filesystem.py:708`) takes the reservation out of the outstanding sum and
  adds nothing to the spent one, where `docs/spec/29-mandates.md:596,601` counts its
  projected amount.
* Queue, fixed token: `docs/implementation/cron-agent.md:415` claims with one
  fixed lease token. `release` leaves `claimed/<token>/` behind, so until a
  recovery removes it `ClaimMkdir` finds the directory and the caller gets `None`
  although work is queued.
* Queue, `ClaimRaises`: a recovery removes the still empty lease directory of a
  claim in progress, and `FileNotFoundError` leaves `claim_next`, which
  `_cascade.py:273` says returns `None`.
* Queue, placeholders: a claimer that dies between placeholder and rename leaves
  an empty file that recovery hands out as work, which
  `queue/filesystem.py:666-668` wants to exclude for failing renames. If its token
  and name are used again, releasing it can overwrite the finished file; that is
  why the runs of `ImplementsWorkItem` take fresh tokens (`ReuseTokens = FALSE`).
* Queue, `Stranded`: a recoverer that dies before it returns strands what it
  moved, although `docs/spec/06-multi-agent-projects.md:411` lets any agent
  reclaim it.
* Ledger, `Stranded`: a killed process leaves its key in flight for ever, although
  `idempotency/filesystem.py:758` says a crash never does.
* Ledger, `BeginInFlight`: the retry that `idempotency/filesystem.py:582-584`
  calls unreachable is reached when a lease-backed lock is lost.
* Mandates, two replicas: boot recovery resolves the live reservation of another
  process, so `TurnFits` holds for one process only; `docs/spec/29-mandates.md:605`
  calls several correct.
* Mandates, two scopes: in a cascade the agent pass and the project pass of two
  replicas hold different locks and scan the same log, so `RecoveredOnce` holds for
  one scope only; `docs/spec/29-mandates.md:603` says recovery over-reports by one
  projected amount per orphan, not by N replicas.
* Mandates, `Outstanding`: with `reservation_ttl_s` above 60 a reservation stops counting
  after 60 s although its timer holds it live, and a turn whose judging takes longer
  admits more than the cap leaves; `docs/spec/29-mandates.md:582` counts it for
  `reservation_ttl_s`. `PromptJudge` excludes it by asking for both times.
* Mandates, `Deny`: a tool that policy.md denies after its judges allowed it leaves the
  reservation open until its timer; `rollback` would free the budget at once.
* Mandates, `EndCall`: no event carries external spend, so the "lifetime real-money
  cap" (`docs/spec/29-mandates.md:115`) bounds what is outstanding; and the token
  spend of a call is logged at its end, so its later turns do not see it.
* Goals, `Save`: a manager that loaded before a dispatch and saves after it takes
  the sub-goal back, and one that saves after an archive brings the goal back
  without a history line. `docs/spec/41-goal-backend.md` allows one session only.
* Goals, `Finish`: an interrupted dispatch leaves `in_progress`, so a second
  dispatch that resumed the same sub-goal passes the compare-and-set although the
  first has moved it there and back in between.
* Goals, `Verdict`: the history file survives an archive. If the goal is created
  again and that creation dies before its line, the old `goal_created` line makes
  it look complete, and it is never healed. A transition on a partial goal makes
  it `corrupt` for good.
* Conductor, `FailsClosed`: a caller that dies between the terminal transition of a
  stage and its idempotency record (`conductor/run.py:1326`), or between a skip and
  its ruling, leaves a run of which every later call raises `GoalCorrupted`;
  `docs/spec/50-conductor.md:11` says a run never loses its place. `KeepsItsPlace`
  states that nothing but such a death does this.
* Conductor, `Heal`: the answer of a gate may come between the second look and the
  append, and the pending line then follows the answered one, which the comment at
  `conductor/run.py:551` wants to exclude.
* Conductor, spend: the cost of a dispatch whose line is lost in a crash is not
  counted, so `SpendWithinCap` is about what the lines add up to.
* Conductor, `Finish`: an iteration that breaks off before its verdict (the gate before
  the judge, a failing judge, an agent that raises:
  `outcome/_outcome_impl.py:401-419,459-482`) is on no `IterationRecord`, so what its agent call
  cost is not in the dispatch's cost. A run whose one agent call costs more than its
  headroom is dispatched again by every call, spends again, and stays in progress at an
  unchanged recorded spend. `docs/spec/50-conductor.md:280` bounds the overshoot by
  "at most one iteration's" actual spend; that holds of the recorded spend
  (`SpendWithinCap`) and not of the actual one, and `RunsEnd` has to except such runs.
* Conductor, pinning (not modelled): a crash between `create_goal` and the
  `conductor_run_started` line lets a playbook edited meanwhile be pinned.
* Migration, `Blocked` and `Crash`: restore() is two renames. If its process dies
  between them, or a refused second attempt makes `agents_root` again by its lock
  or audit file, the vault stays in `_restore-aside-*` until somebody moves it by
  hand; `docs/spec/03-file-formats.md:539` wants the restore atomic, and
  `migration/filesystem.py:488` relies on an undo that fails here too.
* Migration, `Discard`: everything the tarball leaves out (run logs, dot-directories,
  caches, the excluded directories) goes with the old directory, whenever it was
  written, and so do captures since the snapshot and audit lines appended
  between copy and swap.
* Migration, `Validate`: the validators know the adopted version only, so a run
  `--to` a later script is always rolled back.

### Fairness

* `WorkQueue`: weak fairness of a worker's claim steps (callers poll), of each
  recovery (cron) and of time; strong fairness of finishing and adopting, because
  a worker that renews between two looks at its work still finishes it.
* `DedupLedger`: weak fairness of each caller's step. A call that started runs
  on, and a trigger that got no completion delivers the key again. Weak fairness of the
  expiry of a dead caller's Redis key (`OrphanLockExpires`), which `OrphanFreed` of
  `LeaseLock` gives.
* `LeaseLock`: weak fairness of the holder's steps other than `Stop` (work may
  take for ever), of each heartbeat thread, and of time. A holder that works on
  reaches `check_lock_lost`, which `agent.call()` evaluates every turn.
* `MandateBudget`: weak fairness of recovery, of the steps of a call, of the
  timer threads and of time. No call has to start.
* `GoalLedger`: weak fairness of `AppendLine` and `Unlink`. A process that holds
  the lock goes on or dies, and the kernel frees the flock of a dead one.
* `ConductorRun`: weak fairness of each caller's step; strong fairness, per run, of
  a call (whatever woke the caller comes again, spec/50) and, per gate, of an answer.
* `VaultMigration`: weak fairness of each process's steps; again and again nobody is
  at work, and then the operator, who has the printed names and whom the command
  told to, rolls back to a snapshot of the first vault or runs the migration again.

No fairness is assumed of crashes or failures.

## Proofs

`tlapm` checks every theorem; the assumptions are the named `ASSUME`s of the
modules, which TLC evaluates in every run.

* `WorkQueueProofs`: `TypeCorrect`, `NoDuplicates` (`OneCopy`), `NoDoubleClaim`
  (`ClaimedOnce`). The inductive invariant relates copies in the tree to the
  history: a job that was never produced is nowhere, a job lies in one place, a
  job in `queued/` was never claimed, and a placeholder being filled is not a
  job. A rename keeps it because source and target are one file.
  `QueueKeepsItems` is the refinement of `WorkItem` (`ImplementsWorkItem`), for fresh
  tokens (`~ReuseTokens`), `PromptClaims` and a lease of at least a second. A rename
  replaces whatever lies at its target, so the proof is that no item does
  (`ItemInv`): a token that got an item or whose process died is spent; the files
  of an unspent token are the placeholder of the one worker that searches with it
  (`SearchInv`, `FileInv`); recoveries, reported items and sidecars are of spent
  tokens (`SpentInv`), since a placeholder is too young to look stale (`PlaceInv`).
  So a token has one file (`OneFile`), and the rename of a claim, a release or a
  recovery moves the one item and no other.
* `DedupLedgerProofs`: `TypeCorrect`, `AtMostOneRun` (`OneRun`), `AuditLinkKept`
  (`AuditLink`), `Implements` (the refinement of `OnceKey`). The agent lock plays
  no part in it. The invariant says for each step of a call what it knows of the
  files: from `fill` to the release, a lease has one caller it belongs to, and the
  caller that found no marker after its create is the only one that may write it.
* `LeaseLockProofs`: `TypeCorrect`, `HolderKeepsKey` (`HolderHasKey`), under
  `Beat < RedisTtl`: unless a thread is late, the heartbeat of a holder wakes up
  before its key expires. A TTL of 1.5 s with a heartbeat of 1 s refutes it without
  that assumption. `SuccessorKeepsKey` (`SuccessorSafe`) needs no such assumption:
  each script compares the token before it touches the key, whatever the delay.
* `MandateBudgetProofs`: `TypeCorrect`, `OneResolution` (`ResolvedOnce`),
  `OneRecovery` (`RecoveredOnce`, for one scope). A proposal is in at most one of:
  fresh, in a table, popped by a call, popped by a timer, resolved; and a process
  that scans or emits holds the recovery lock, so what it has not yet emitted has
  not been recovered by another. Several scopes have several locks, which is why the
  theorem assumes one.
  `OneProcessFits` (`TurnFits`) assumes `PromptJudge`, one process and appends that
  succeed; `ReservationsFit` is what remains without the last two: the actions of a
  turn whose reservations stand in the log, unrecovered, fit under the cap with what
  is spent. What a turn has admitted must count as outstanding when its next action
  is judged: its reservation has a line (`LoggedInv`), is younger than `Ttl` and so
  still in the table, is younger than `Window` and so counted (`PromptInv`), and no cost
  event covers it (`UntaggedInv`). `Admits` then
  leaves room for all of them and one more, and as calls take turns at one lock
  (`CallLockInv`) nothing is spent meanwhile. With one process no recovery can
  resolve a live reservation, so nothing admitted is missing from that count
  (`WholeInv`).
* `GoalLedgerProofs`: `TypeCorrect`, `CreatedIsFirst` (`CreatedFirst`),
  `AuditedAsWritten` (`AuditMatchesGoal`), `ArchivedFirst` (`ArchiveKeeps`). The
  invariant says what the lock protects: a process about to append a line finds
  `goal.md` as the line says, one about to unlink finds it as the archive has it,
  no file or memory is about a goal that was not created yet, and a `goal_created`
  line about to be appended is about a goal that no line mentions. The last part
  is what makes `CreatedFirst` inductive: the generations of a fresh goal are new
  and a healed goal has an empty history.
* `ConductorRunProofs`: `TypeCorrect`, `GatesExclude` (`GateExclusion`),
  `SpendCapped` (`SpendWithinCap`), `CommittedComplete` (`CommittedIsComplete`),
  `CompletedDone` (`CompletedIsDone`), `PlaceKept` (`KeepsItsPlace`), `AnswersFit`
  (`RulingFits`), for any number of callers, runs and stages, any cap and any
  cost of an iteration. The
  invariant has a part per lock and per kind of knowledge: a run has one caller in
  its stage loop (`RunLock`) and there is one scan (`ScanLockInv`); what awaits a
  decision is a gate with a minted decision (`GateInv`); only gates are suspended
  or answered and only other stages dispatched (`PlaceInv`); the stage a caller
  starts is open, the one it commits complete, the keys it claims free
  (`KnowsInv`); what it may still spend fits under the cap, and what it reports exceeds
  it by less than one iteration (`Headroom`). An answer
  needs no run lock, so each part must survive one at any point; it does because
  an answer changes a gate and the loop waits for none.
  `RunsFollowPlaybook` is the refinement of `Playbook` (`ImplementsPlaybook`). A run's
  place is its first stage that is not done; `OrderInv` (a stage that is not
  pending, or that a caller is at, has only done stages before it) makes every
  change of a status a change at that place, and `StatusChange` lists the
  changes the code makes: each is one step of the playbook, or none.
* `VaultMigrationProofs`: `TypeCorrect`, `NeverHalf` (`NoHalfMigration`),
  `VaultPreserved` (`Preserved`), for any processes, units and versions. The
  invariant says who may change the vault: the process whose lock is in the
  directory that is `agents_root` now, or a manual rollback, which is alone
  (`LockInv`, `AloneInv`). From it follow at most one process between the renames
  (`OneAway`), where the vault is meanwhile (`VaultInv`), what a staged copy and
  one put aside hold (`RestoreInv`), and that without a death every
  snapshot and every vault at rest is whole (`WholeInv`).

Every invariant, every action property and all three refinements the passing runs
check are proved. Only model-checked is liveness: `LostHolderStops`, `OrphanFreed`,
`LockFreed`, `RunsEnd`, `InterruptedHeals` and the `...Eventually...` properties. The
prover at hand does not reason about fairness and `ENABLED`, cannot instantiate
induction principles over data, and loses arithmetic in modules with recursive
operators; no module here declares one.

## Assumptions worth knowing

* `PromptClaims` (all queue runs): a claim gets from its placeholder to its
  rename within one lease. A claim that stalls longer can have its placeholder
  recovered and later overwrite `done/<token>/<name>`.
* `PromptJudge` (`mandate_turn`): judging one turn takes less than the TTL of its
  reservations and than the 60 s for which they count. Otherwise an early reservation
  expires, or is no longer counted, before a late check and `TurnFits` fails.
* `Iteration` bounds what an iteration costs; the code has no such bound, so
  `SpendWithinCap` says that a run exceeds its cap by less than its dearest iteration.
* `OneProcessFits`, `ReservationsFit` and `QueueKeepsItems` have these as hypotheses.
  `QueueKeepsItems` also needs `LeaseSeconds > 0`: `claim_next` accepts a lease of zero
  seconds, under which a recovery may take a placeholder the moment it is made.
* `LeaseSeconds` is the same for claim, renewal and recovery.
* One mandate is modelled; a call that cites several books its cost on the last
  one, as spec/29 says.

## Not modelled

Most of the package is sequential code around these protocols, and a model of it
would restate it:

* Parsers, prompts, wizards, doctor checks, dashboards and exports map an input
  to text or a report: no state that two actors share.
* LLM, embedding and MCP clients are calls to services; in the models they are a
  choice of the outcomes their callers handle.
* The stores and registries (memory, corpus, journal, conversation, profiles,
  personas, policies, secrets) write one document with one atomic rename, or
  delegate to SQL; their ordering is the database's.
* The HTTP server hands a request to `agent.call()` on a pool of threads; the lock
  and the ledger below it are modelled.

Not modelled although they have a protocol, and therefore in the plan: helper
batches and cost guardrails, the mandate state machine and the escalation queue,
log rotation. The steps of the mandate check other than the budgets are a choice
of the environment in `MandateBudget`.

## Plan

In order of what is most worth knowing next:

1. `MandateState` and `Escalation`: state changes that are written after the
   decision, last writer wins; pending, resolved and polled escalations.
2. `BatchBudget`: the cost guardrails and batch reservations of helpers.
3. `LogRotation`: append against rotation and the migration between backends.
4. Agents that write while a vault is migrated, and playbooks edited between
   calls of one run.
5. Proofs, as the modules above are written: each invariant their runs check.
