----------------------------- MODULE DedupLedger -----------------------------
(***************************************************************************)
(* One key of the idempotency ledger (idempotency/filesystem.py) and the   *)
(* callers that run agent.call() under it: lookup, the agent lock, the     *)
(* cost gate, begin, the run, the audit record, commit, and the finally    *)
(* clause that releases lease and lock.  A key is two files, the lease     *)
(* (O_EXCL, not durable) and the terminal marker (atomic_write, durable).  *)
(* Every read or write of a file is a step of its own; nothing but the     *)
(* agent lock orders two callers, and a lease-backed lock may expire.      *)
(***************************************************************************)
EXTENDS Naturals

CONSTANTS
  Callers,    \* processes that call agent.call() with this key
  Runs,       \* run ids; one is used again only when nothing remembers it
  LeaseLock,  \* is the agent lock lease-backed (Redis), so that it may expire?
  Failures,   \* which things may fail
  MaxFaults,  \* bound: how many things fail
  Absent,     \* no such file; nobody holds the lock
  Torn,       \* the lease file exists and its content is not written
  NoRun       \* no run id

FailureKinds == {"skip", "write", "run", "commit", "unlink", "release",
                 "crash", "power"}

ASSUME LedgerAssumption ==
  /\ LeaseLock \in BOOLEAN /\ Failures \subseteq FailureKinds
  /\ MaxFaults \in Nat
  /\ Absent \notin Runs /\ Torn \notin Runs /\ NoRun \notin Runs
  /\ Absent # Torn /\ Absent # NoRun /\ Absent \notin Callers

VARIABLES
  lock,       \* holder of the agent lock
  lease,      \* <key>.lease.json
  terminal,   \* <key>.terminal.json: its prior_run_id
  logged,     \* runs whose ok record is in the JSONL log
  pc,         \* caller: the next step of its call
  run,        \* caller: self.run_id
  retried,    \* caller: is this begin in _begin_after_vanished?
  held,       \* caller: _idempotency_lease_held
  prior,      \* caller: the prior_run_id its commit read from the lease
  faults      \* failures so far

files  == <<lease, terminal>>
locals == <<run, retried, held, prior>>
vars   == <<lock, files, logged, pc, locals, faults>>

PCs == {"idle", "lookup", "lock", "gate", "begin", "create", "fill", "recheck",
        "spurious", "exists", "inflight", "run", "log", "commit", "check",
        "write", "unlink", "release", "unlock"}

TypeOK ==
  /\ lock \in Callers \union {Absent}
  /\ lease \in Runs \union {Absent, Torn}
  /\ terminal \in Runs \union {Absent, NoRun}
  /\ logged \subseteq Runs
  /\ pc \in [Callers -> PCs]
  /\ run \in [Callers -> Runs \union {NoRun}]
  /\ retried \in [Callers -> BOOLEAN] /\ held \in [Callers -> BOOLEAN]
  /\ prior \in [Callers -> Runs \union {NoRun}]
  /\ faults \in 0..MaxFaults
  /\ \A c \in Callers : pc[c] # "idle" => run[c] \in Runs

Init ==
  /\ lock = Absent /\ lease = Absent /\ terminal = Absent /\ logged = {}
  /\ pc = [c \in Callers |-> "idle"]
  /\ run = [c \in Callers |-> NoRun]
  /\ retried = [c \in Callers |-> FALSE]
  /\ held = [c \in Callers |-> FALSE]
  /\ prior = [c \in Callers |-> NoRun]
  /\ faults = 0
-----------------------------------------------------------------------------
Completed   == terminal # Absent     \* _read_terminal: absent, or COMPLETED
Goto(c, p)  == pc' = [pc EXCEPT ![c] = p]
At(c, p)    == pc[c] = p
Fails(kind) == kind \in Failures /\ faults < MaxFaults /\ faults' = faults + 1
Quiet       == UNCHANGED faults

\* The locals of a call that is over.
EndCall(c) ==
  /\ Goto(c, "idle")
  /\ run' = [run EXCEPT ![c] = NoRun]
  /\ retried' = [retried EXCEPT ![c] = FALSE]
  /\ held' = [held EXCEPT ![c] = FALSE]
  /\ prior' = [prior EXCEPT ![c] = NoRun]

\* Bug variant of Start: the run id is set only later, inside the lock.
Start_NoRunId(c, r) ==
  /\ At(c, "idle")
  /\ logged' = logged \ {r}
  /\ Goto(c, "lookup")
  /\ UNCHANGED <<lock, files, locals, faults>>

\* agent.call: a fresh run id for this invocation.
Start(c, r) ==
  /\ At(c, "idle")
  /\ r \notin {lease, terminal} /\ \A d \in Callers : run[d] # r
  /\ run' = [run EXCEPT ![c] = r]
  /\ logged' = logged \ {r}
  /\ Goto(c, "lookup")
  /\ UNCHANGED <<lock, files, retried, held, prior, faults>>

\* Phase 1, lookup before the lock: a COMPLETED key is replayed, and the state
\* of the lease makes no difference to the caller.
Lookup(c) ==
  /\ At(c, "lookup")
  /\ IF Completed THEN EndCall(c) ELSE Goto(c, "lock") /\ UNCHANGED locals
  /\ UNCHANGED <<lock, files, logged, faults>>

\* lock_backend.acquire(""); after its timeout the call ends with LockBusy.
AcquireLock(c) ==
  /\ At(c, "lock") /\ lock = Absent
  /\ lock' = c
  /\ Goto(c, "gate")
  /\ UNCHANGED <<files, logged, locals, faults>>

LockBusy(c) ==
  /\ At(c, "lock") /\ lock # Absent
  /\ EndCall(c)
  /\ UNCHANGED <<lock, files, logged, faults>>

\* _check_cost_guardrails: a skipped call claims no lease.
CostGate(c) ==
  /\ At(c, "gate")
  /\ \/ Quiet /\ Goto(c, "begin")
     \/ Fails("skip") /\ Goto(c, "unlock")
  /\ UNCHANGED <<lock, files, logged, locals>>

\* begin, step 3: the terminal marker first.
BeginTerminal(c) ==
  /\ At(c, "begin")
  /\ Goto(c, IF Completed THEN "unlock" ELSE "create")
  /\ UNCHANGED <<lock, files, logged, locals, faults>>

\* begin, step 4, and the one retry: the exclusive create.
BeginCreate(c) ==
  /\ At(c, "create")
  /\ IF lease = Absent
     THEN lease' = Torn /\ Goto(c, "fill")
     ELSE lease' = lease /\ Goto(c, "exists")
  /\ UNCHANGED <<lock, terminal, logged, locals, faults>>

\* os.write(fd, lease_content).  When it fails, begin raises and leaves the
\* file it created; no flag says that this caller made it.
BeginFill(c) ==
  /\ At(c, "fill")
  /\ \/ Quiet /\ lease' = run[c] /\ Goto(c, "recheck")
     \/ Fails("write") /\ lease' = lease /\ Goto(c, "unlock")
  /\ UNCHANGED <<lock, terminal, logged, locals>>

\* Bug variant of BeginRecheck: the won create is trusted.
BeginRecheck_Trusts(c) ==
  /\ At(c, "recheck")
  /\ held' = [held EXCEPT ![c] = TRUE]
  /\ Goto(c, "run")
  /\ UNCHANGED <<lock, files, logged, run, retried, prior, faults>>

\* The terminal marker again: a commit may have come between step 3 and the
\* create.  Otherwise the caller owns FRESH.
BeginRecheck(c) ==
  /\ At(c, "recheck")
  /\ IF Completed
     THEN Goto(c, "spurious") /\ UNCHANGED held
     ELSE Goto(c, "run") /\ held' = [held EXCEPT ![c] = TRUE]
  /\ UNCHANGED <<lock, files, logged, run, retried, prior, faults>>

BeginSpurious(c) ==
  /\ At(c, "spurious")
  /\ \/ Quiet /\ lease' = Absent
     \/ Fails("unlink") /\ lease' = lease
  /\ Goto(c, "unlock")
  /\ UNCHANGED <<lock, terminal, logged, locals>>

\* FileExistsError: COMPLETED when the marker is there by now,
BeginExists(c) ==
  /\ At(c, "exists")
  /\ Goto(c, IF Completed THEN "unlock" ELSE "inflight")
  /\ UNCHANGED <<lock, files, logged, locals, faults>>

\* IN_FLIGHT when the lease is there, readable or not (DedupInFlight); when it
\* vanished, one retry of the create, then IdempotencyBackendError.
BeginInFlight(c) ==
  /\ At(c, "inflight")
  /\ IF lease = Absent /\ ~retried[c]
     THEN retried' = [retried EXCEPT ![c] = TRUE] /\ Goto(c, "create")
     ELSE retried' = retried /\ Goto(c, "unlock")
  /\ UNCHANGED <<lock, files, logged, run, held, prior, faults>>

\* The run, then its audit record.  A failed run (an exception, LockLost) goes
\* to the finally clause; a deferred one (ESCALATE) is logged and goes there
\* uncommitted.
Work(c) ==
  /\ At(c, "run")
  /\ \/ Quiet /\ Goto(c, "log")
     \/ Fails("run") /\ Goto(c, "release")
  /\ UNCHANGED <<lock, files, logged, locals>>

Log(c) ==
  /\ At(c, "log")
  /\ logged' = logged \union {run[c]}
  /\ \/ Quiet /\ Goto(c, "commit")
     \/ Fails("run") /\ Goto(c, "release")      \* response.deferred
  /\ UNCHANGED <<lock, files, locals>>

\* Bug variant of CommitLease: the lease is looked at after it was unlinked.
CommitLease_NoRunId(c) ==
  /\ At(c, "commit")
  /\ prior' = [prior EXCEPT ![c] = NoRun]
  /\ Goto(c, "check")
  /\ UNCHANGED <<lock, files, logged, run, retried, held, faults>>

\* commit: the run id from the lease, the first-commit-wins test, the marker,
\* the lease.  A failed write is logged only and leaves the flag set.
CommitLease(c) ==
  /\ At(c, "commit")
  /\ prior' = [prior EXCEPT ![c] = IF lease \in Runs THEN lease ELSE NoRun]
  /\ Goto(c, "check")
  /\ UNCHANGED <<lock, files, logged, run, retried, held, faults>>

\* Bug variant of CommitCheck: the test is the wrong way round.
CommitCheck_Inverted(c) ==
  /\ At(c, "check")
  /\ Goto(c, IF Completed THEN "write" ELSE "unlink")
  /\ UNCHANGED <<lock, files, logged, locals, faults>>

CommitCheck(c) ==
  /\ At(c, "check")
  /\ Goto(c, IF Completed THEN "unlink" ELSE "write")
  /\ UNCHANGED <<lock, files, logged, locals, faults>>

CommitWrite(c) ==
  /\ At(c, "write")
  /\ \/ Quiet /\ terminal' = prior[c] /\ Goto(c, "unlink")
     \/ Fails("commit") /\ terminal' = terminal /\ Goto(c, "release")
  /\ UNCHANGED <<lock, lease, logged, locals>>

CommitUnlink(c) ==
  /\ At(c, "unlink")
  /\ \/ Quiet /\ lease' = Absent
     \/ Fails("unlink") /\ lease' = lease
  /\ held' = [held EXCEPT ![c] = FALSE]
  /\ Goto(c, "unlock")
  /\ UNCHANGED <<lock, terminal, logged, run, retried, prior>>

\* finally: release_lease, which unlinks whatever lease is there; its errors
\* are logged only.
ReleaseLease(c) ==
  /\ At(c, "release")
  /\ \/ Quiet /\ lease' = Absent
     \/ Fails("release") /\ lease' = lease
  /\ Goto(c, "unlock")
  /\ UNCHANGED <<lock, terminal, logged, locals>>

\* Bug variant of Unlock: finally releases the lease of every keyed call.
Unlock_ReleasesAny(c) ==
  /\ At(c, "unlock")
  /\ lock' = IF lock = c THEN Absent ELSE lock
  /\ lease' = Absent
  /\ EndCall(c)
  /\ UNCHANGED <<terminal, logged, faults>>

\* lock_backend.release: only the holder's own lock.
Unlock(c) ==
  /\ At(c, "unlock")
  /\ lock' = IF lock = c THEN Absent ELSE lock
  /\ EndCall(c)
  /\ UNCHANGED <<files, logged, faults>>
-----------------------------------------------------------------------------
\* A lease-backed lock is lost while its holder works.
LockExpires ==
  /\ LeaseLock /\ lock # Absent
  /\ lock' = Absent
  /\ UNCHANGED <<files, logged, pc, locals, faults>>

\* The process is killed: no finally clause runs.  flock ends with it; a
\* lease-backed lock stays until it expires.
Crash(c) ==
  /\ ~At(c, "idle")
  /\ Fails("crash")
  /\ lock' = IF lock = c /\ ~LeaseLock THEN Absent ELSE lock
  /\ EndCall(c)
  /\ UNCHANGED <<files, logged>>

\* The host goes down: the terminal marker and the log are fsynced, the lease
\* is not.
PowerLoss ==
  /\ Fails("power")
  /\ lease' \in {lease, Absent}
  /\ lock' = Absent
  /\ pc' = [c \in Callers |-> "idle"]
  /\ run' = [c \in Callers |-> NoRun]
  /\ retried' = [c \in Callers |-> FALSE]
  /\ held' = [c \in Callers |-> FALSE]
  /\ prior' = [c \in Callers |-> NoRun]
  /\ UNCHANGED <<terminal, logged>>

Begin(c) ==
  BeginTerminal(c) \/ BeginCreate(c) \/ BeginFill(c) \/ BeginRecheck(c)
    \/ BeginSpurious(c) \/ BeginExists(c) \/ BeginInFlight(c)

Commit(c) ==
  CommitLease(c) \/ CommitCheck(c) \/ CommitWrite(c) \/ CommitUnlink(c)

Call(c) ==
  \/ \E r \in Runs : Start(c, r)
  \/ Lookup(c) \/ AcquireLock(c) \/ LockBusy(c) \/ CostGate(c) \/ Begin(c)
  \/ Work(c) \/ Log(c) \/ Commit(c) \/ ReleaseLease(c) \/ Unlock(c)

Next == (\E c \in Callers : Call(c) \/ Crash(c)) \/ LockExpires \/ PowerLoss

Spec == Init /\ [][Next]_vars

\* The lock of a process that died, which Redis drops in the end.
OrphanLockExpires ==
  lock \in Callers /\ pc[lock] \in {"idle", "lookup", "lock"} /\ LockExpires

\* A call that runs goes on, and the trigger delivers an uncompleted key again.
FairSpec ==
  Spec /\ WF_vars(OrphanLockExpires) /\ \A c \in Callers : WF_vars(Call(c))
-----------------------------------------------------------------------------
\* The caller has been told FRESH and not given the key back.
Owns(c) == pc[c] \in {"run", "log", "commit", "check", "write", "release"}

\* spec/45 MUST 4: whatever happens to the agent lock, at most one run works
\* under the key, its lease names it, and none once the key is completed.
OneRun ==
  \A c \in Callers : Owns(c) =>
    /\ terminal = Absent /\ lease = run[c] /\ held[c]
    /\ \A d \in Callers : Owns(d) => d = c

\* Principle 5: the marker names the run that did the work, and that run's
\* audit record was durable before it.
AuditLink == Completed => terminal \in logged

\* The ledger is the key of OnceKey: never two runs at a time, never a second
\* completion, and the first completion is never rewritten.
KeyState ==
  IF Completed THEN [phase |-> "completed", run |-> terminal]
  ELSE IF \E c \in Callers : Owns(c)
       THEN [phase |-> "running", run |-> run[CHOOSE c \in Callers : Owns(c)]]
       ELSE [phase |-> "fresh", run |-> NoRun]
Key == INSTANCE OnceKey WITH state <- KeyState
ImplementsOnceKey == Key!Spec

\* A lease that no call will ever remove: its run was killed, or the write or
\* the unlink of the file failed.
Stranded ==
  /\ lease # Absent
  /\ \A c \in Callers : ~At(c, "fill") /\ (At(c, "idle") \/ run[c] # lease)

\* A key whose runs are skipped or fail only finitely often is completed in the
\* end, unless its lease is stranded: nothing else keeps it IN_FLIGHT.
EventuallyCompleted == <>(Completed \/ Stranded)
=============================================================================
