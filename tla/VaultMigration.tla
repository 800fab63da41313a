--------------------------- MODULE VaultMigration ---------------------------
(***************************************************************************)
(* Schema migrations of a vault (migration/filesystem.py): run_migration() *)
(* takes a snapshot, applies scripts to the units one by one, validates,   *)
(* and rolls back by restore(), which swaps the whole directory; the       *)
(* operator's --rollback calls restore() without the lock.                 *)
(*                                                                         *)
(* A unit is its schema_version.  Logs, captures and the text of the audit *)
(* lines are left out; that writing one makes the directory is not.  An    *)
(* operator rolls back when nobody migrates, and starts nothing meanwhile. *)
(***************************************************************************)
EXTENDS Naturals, FiniteSets

CONSTANTS
  Processes,  \* python -m atomic_agents.migrate
  Units,      \* memory and wiki files
  Current,    \* CURRENT_SCHEMA_VERSION
  Latest,     \* the last script goes to this version
  MaxSnaps,   \* bound on the snapshots
  MaxFaults,  \* bound on deaths, failing writes and failing scripts
  None        \* no directory, no units, no process, no snapshot

ASSUME VaultAssumption ==
  /\ IsFiniteSet(Units) /\ Units # {}
  /\ Current \in Nat \ {0} /\ Latest \in Nat /\ Current <= Latest
  /\ MaxSnaps \in Nat /\ MaxFaults \in Nat

Contents == [Units -> 1..Latest]
\* A tarball under _migrations/snapshots.  The second in its name is a number:
\* no two are made within one second.
Snapshots == [number : 1..MaxSnaps, units : Contents \union {None}]
\* A directory with a vault, or with as much of one as a mkdir leaves.
Vaults == [units : Contents \union {None}, snaps : SUBSET Snapshots,
           lock : Processes \union {None}]
ASSUME NoneAssumption == None \notin Contents \union Processes \union Snapshots \union Vaults
Bare   == [units |-> None, snaps |-> {}, lock |-> None]

VARIABLES
  first,    \* the units before any migration
  live,     \* agents_root
  strays,   \* directories beside it that nobody will rename or delete
  printed,  \* the snapshots an operator was told of
  faults,   \* faults so far
  dead,     \* a process died, or a rollback failed (history)
  pc,       \* where each process is
  target,   \* process: its target_version, 0 in a manual rollback
  at,       \* process: the version its current script starts from
  left,     \* process: units the script has not come to
  snap,     \* process: its snapshot
  staged,   \* process: _restore-tmp-*
  aside     \* process: _restore-aside-*

disk    == <<live, strays>>
env     == <<first, faults, dead>>
process == <<target, at, left, snap, staged, aside>>
vars    == <<disk, env, printed, pc, process>>

Labels == {"idle", "plan", "locked", "apply", "validate", "restore", "staged",
           "away", "swapped", "release", "audit"}

TypeOK ==
  /\ first \in Contents /\ live \in Vaults \union {None} /\ strays \subseteq Vaults
  /\ printed \subseteq Snapshots /\ faults \in 0..MaxFaults
  /\ dead \in BOOLEAN
  /\ pc \in [Processes -> Labels] /\ target \in [Processes -> 0..Latest]
  /\ at \in [Processes -> 0..Latest] /\ left \in [Processes -> SUBSET Units]
  /\ snap \in [Processes -> Snapshots \union {None}]
  /\ staged \in [Processes -> Vaults \union {None}]
  /\ aside \in [Processes -> Vaults \union {None}]

Init ==
  /\ first \in [Units -> 1..Current]
  /\ live = [units |-> first, snaps |-> {}, lock |-> None]
  /\ strays = {} /\ printed = {} /\ faults = 0 /\ dead = FALSE
  /\ pc = [p \in Processes |-> "idle"]
  /\ target = [p \in Processes |-> 0] /\ at = [p \in Processes |-> 0]
  /\ left = [p \in Processes |-> {}] /\ snap = [p \in Processes |-> None]
  /\ staged = [p \in Processes |-> None] /\ aside = [p \in Processes |-> None]
-----------------------------------------------------------------------------
Goes(p, l) == pc' = [pc EXCEPT ![p] = l]
HasUnits   == live # None /\ live.units # None
Fault      == faults < MaxFaults /\ faults' = faults + 1

\* read_schema_version: the least version; CURRENT where there is no unit.
Version(v) ==
  IF HasUnits THEN /\ \E u \in Units : live.units[u] = v
                   /\ \A u \in Units : v <= live.units[u]
              ELSE v = Current

\* _build_plan: the scripts from the least version up to the target.
Plan(p, t) ==
  /\ pc[p] = "idle" /\ \A q \in Processes : pc[q] # "idle" => target[q] # 0
  /\ target' = [target EXCEPT ![p] = t]
  /\ \E v \in 1..Latest :
       /\ Version(v) /\ at' = [at EXCEPT ![p] = v]
       /\ Goes(p, IF HasUnits /\ v < t THEN "plan" ELSE "audit")
  /\ UNCHANGED <<disk, env, printed, left, snap, staged, aside>>

\* FilesystemLockBackend.acquire with timeout 0; it makes the directory.
Lock(p) ==
  /\ pc[p] = "plan"
  /\ IF live # None /\ live.lock # None THEN Goes(p, "audit") /\ UNCHANGED live
     ELSE /\ live' = [IF live = None THEN Bare ELSE live EXCEPT !.lock = p]
          /\ Goes(p, "locked")
  /\ UNCHANGED <<strays, env, printed, process>>

\* A dry run writes nothing; a snapshot that cannot be made ends the run.
NoSnapshot(p) ==
  pc[p] = "locked" /\ Goes(p, "release") /\ UNCHANGED <<disk, env, printed, process>>

\* The tarball is renamed into place and its name is printed.
Snapshot(p) ==
  LET s == [number |-> Cardinality(printed) + 1, units |-> live.units] IN
  /\ pc[p] = "locked" /\ s.number <= MaxSnaps
  /\ live' = [live EXCEPT !.snaps = @ \union {s}]
  /\ printed' = printed \union {s} /\ snap' = [snap EXCEPT ![p] = s]
  /\ left' = [left EXCEPT ![p] = IF HasUnits THEN Units ELSE {}]
  /\ Goes(p, "apply")
  /\ UNCHANGED <<strays, env, target, at, staged, aside>>

\* apply_unit: a unit at another version is passed over.
Apply(p, u) ==
  /\ pc[p] = "apply" /\ u \in left[p]
  /\ live' = IF live.units[u] = at[p] THEN [live EXCEPT !.units[u] = @ + 1] ELSE live
  /\ left' = [left EXCEPT ![p] = @ \ {u}]
  /\ UNCHANGED <<strays, env, printed, pc, target, at, snap, staged, aside>>

\* A script that passes over a unit it should migrate.
PassOver(p, u) ==
  /\ pc[p] = "apply" /\ u \in left[p] /\ live.units[u] = at[p] /\ Fault
  /\ left' = [left EXCEPT ![p] = @ \ {u}]
  /\ UNCHANGED <<disk, first, dead, printed, pc, target, at, snap, staged, aside>>

\* A script that raises, before or after it wrote the unit.
Raise(p, u) ==
  /\ pc[p] = "apply" /\ u \in left[p] /\ Fault
  /\ \/ UNCHANGED live
     \/ live.units[u] = at[p] /\ live' = [live EXCEPT !.units[u] = @ + 1]
  /\ Goes(p, "restore")
  /\ UNCHANGED <<strays, first, dead, printed, process>>

\* Bug variant of NextScript: one script more.
NextScript_OneMore(p) ==
  /\ pc[p] = "apply" /\ left[p] = {}
  /\ IF at[p] + 1 <= target[p]
     THEN /\ at' = [at EXCEPT ![p] = @ + 1] /\ UNCHANGED pc
          /\ left' = [left EXCEPT ![p] = IF HasUnits THEN Units ELSE {}]
     ELSE Goes(p, "validate") /\ UNCHANGED <<at, left>>
  /\ UNCHANGED <<disk, env, printed, target, snap, staged, aside>>

NextScript(p) ==
  /\ pc[p] = "apply" /\ left[p] = {}
  /\ IF at[p] + 1 < target[p]
     THEN /\ at' = [at EXCEPT ![p] = @ + 1] /\ UNCHANGED pc
          /\ left' = [left EXCEPT ![p] = IF HasUnits THEN Units ELSE {}]
     ELSE Goes(p, "validate") /\ UNCHANGED <<at, left>>
  /\ UNCHANGED <<disk, env, printed, target, snap, staged, aside>>

\* Bug variant of Validate: only the units that reached the target.
Validate_Touched(p) ==
  /\ pc[p] = "validate"
  /\ Goes(p, IF HasUnits => \A u \in Units : live.units[u] = target[p] => target[p] = Current
             THEN "release" ELSE "restore")
  /\ UNCHANGED <<disk, env, printed, process>>

\* Every unit, not only those a script touched; the validators know one version.
Validate(p) ==
  /\ pc[p] = "validate"
  /\ Goes(p, IF HasUnits => \A u \in Units : live.units[u] = Current
             THEN "release" ELSE "restore")
  /\ UNCHANGED <<disk, env, printed, process>>
-----------------------------------------------------------------------------
\* Bug variant of Rollback: the newest snapshot, whatever was asked for.
Rollback_Newest(p, s) ==
  /\ \A q \in Processes : pc[q] = "idle"
  /\ live # None => \A o \in live.snaps : o.number <= s.number
  /\ snap' = [snap EXCEPT ![p] = s] /\ Goes(p, "restore")
  /\ UNCHANGED <<disk, env, printed, target, at, left, staged, aside>>

\* restore_and_audit: the operator picks a snapshot.
Rollback(p, s) ==
  /\ \A q \in Processes : pc[q] = "idle"
  /\ snap' = [snap EXCEPT ![p] = s] /\ Goes(p, "restore")
  /\ UNCHANGED <<disk, env, printed, target, at, left, staged, aside>>

Manual(p)    == target[p] = 0
Restored(p)  == Goes(p, IF Manual(p) THEN "audit" ELSE "release")

\* The snapshot is there, and not of an empty vault.
Restorable(p) == /\ live # None /\ snap[p] # None
                 /\ snap[p].units # None /\ snap[p] \in live.snaps

\* Bug variant of Stage: the other snapshots go with the old directory.
Stage_VaultOnly(p) ==
  /\ pc[p] = "restore" /\ Restorable(p)
  /\ staged' = [staged EXCEPT ![p] = [units |-> snap[p].units, snaps |-> {},
                                      lock |-> None]]
  /\ Goes(p, "staged")
  /\ UNCHANGED <<disk, env, printed, target, at, left, snap, aside>>

\* The snapshot is extracted beside the vault, with all other snapshots.
Stage(p) ==
  /\ pc[p] = "restore" /\ Restorable(p)
  /\ staged' = [staged EXCEPT ![p] = [units |-> snap[p].units, snaps |-> live.snaps,
                                      lock |-> None]]
  /\ Goes(p, "staged")
  /\ UNCHANGED <<disk, env, printed, target, at, left, snap, aside>>

\* The two renames.  The lock file goes with the old directory.
Away(p) ==
  /\ pc[p] = "staged" /\ live # None
  /\ aside' = [aside EXCEPT ![p] = live] /\ live' = None /\ Goes(p, "away")
  /\ UNCHANGED <<strays, env, printed, target, at, left, snap, staged>>

Swap(p) ==
  /\ pc[p] = "away" /\ live = None
  /\ live' = staged[p] /\ staged' = [staged EXCEPT ![p] = None] /\ Goes(p, "swapped")
  /\ UNCHANGED <<strays, env, printed, target, at, left, snap, aside>>

\* Somebody made the directory meanwhile: neither the swap nor its undo can
\* rename onto it.
Blocked(p) ==
  /\ pc[p] = "away" /\ live # None
  /\ strays' = strays \union {aside[p]} /\ dead' = TRUE /\ Restored(p)
  /\ staged' = [staged EXCEPT ![p] = None] /\ aside' = [aside EXCEPT ![p] = None]
  /\ UNCHANGED <<live, first, faults, printed, target, at, left, snap>>

\* The old directory is deleted, or stays where it is.
Discard(p) ==
  /\ pc[p] = "swapped" /\ Restored(p)
  /\ \/ UNCHANGED <<strays, faults>>
     \/ Fault /\ strays' = strays \union {aside[p]}
  /\ aside' = [aside EXCEPT ![p] = None]
  /\ UNCHANGED <<live, first, dead, printed, target, at, left, snap, staged>>

\* restore() raises: no such snapshot, an empty one, a directory that is gone.
CannotRestore(p) ==
  /\ \/ pc[p] = "restore" /\ ~Restorable(p)
     \/ pc[p] = "staged" /\ live = None
  /\ dead' = TRUE /\ staged' = [staged EXCEPT ![p] = None] /\ Restored(p)
  /\ UNCHANGED <<disk, first, faults, printed, target, at, left, snap, aside>>

\* restore() raises for want of space or of a permission; the first rename is
\* undone.
RestoreFails(p) ==
  /\ Fault /\ dead' = TRUE /\ Restored(p)
  /\ \/ pc[p] \in {"restore", "staged"} /\ UNCHANGED live
     \/ pc[p] = "away" /\ live = None /\ live' = aside[p]
  /\ staged' = [staged EXCEPT ![p] = None] /\ aside' = [aside EXCEPT ![p] = None]
  /\ UNCHANGED <<strays, first, printed, target, at, left, snap>>
-----------------------------------------------------------------------------
Unlocked(p) == IF live # None /\ live.lock = p THEN [live EXCEPT !.lock = None] ELSE live

Release(p) ==
  /\ pc[p] = "release" /\ Goes(p, "audit") /\ live' = Unlocked(p)
  /\ UNCHANGED <<strays, env, printed, process>>

Forget(p) ==
  /\ Goes(p, "idle") /\ target' = [target EXCEPT ![p] = 0] /\ at' = [at EXCEPT ![p] = 0]
  /\ left' = [left EXCEPT ![p] = {}] /\ snap' = [snap EXCEPT ![p] = None]
  /\ staged' = [staged EXCEPT ![p] = None] /\ aside' = [aside EXCEPT ![p] = None]

\* _emit_audit makes _migrations, and the vault directory with it.
Audit(p) ==
  /\ pc[p] = "audit" /\ Forget(p)
  /\ live' = IF live = None THEN Bare ELSE live
  /\ UNCHANGED <<strays, env, printed>>

\* The flock goes with its process; its directories stay.
Crash(p) ==
  /\ pc[p] # "idle" /\ Fault /\ dead' = TRUE
  /\ live' = Unlocked(p) /\ Forget(p)
  /\ strays' = strays \union ({staged[p], aside[p]} \ {None})
  /\ UNCHANGED <<first, printed>>

-----------------------------------------------------------------------------
Step(p) ==
  \/ Lock(p) \/ NoSnapshot(p) \/ Snapshot(p) \/ NextScript(p) \/ Validate(p)
  \/ \E u \in Units : Apply(p, u)
  \/ Stage(p) \/ Away(p) \/ Swap(p) \/ Blocked(p) \/ Discard(p) \/ CannotRestore(p)
  \/ Release(p) \/ Audit(p)

Next == \E p \in Processes :
  \/ \E t \in 2..Latest : Plan(p, t)
  \/ \E s \in printed : Rollback(p, s)
  \/ Step(p) \/ RestoreFails(p) \/ Crash(p)
  \/ \E u \in Units : PassOver(p, u) \/ Raise(p, u)

Spec == Init /\ [][Next]_vars

\* Processes run; again and again all of them are done and the operator, who has
\* the printed names, rolls back or runs the migration again.
FairSpec ==
  /\ Spec
  /\ \A p \in Processes : WF_vars(Step(p))
  /\ []<>(\A p \in Processes : pc[p] = "idle")
  /\ SF_vars(\E p \in Processes, s \in printed : s.units = first /\ Rollback(p, s))
  /\ SF_vars(\E p \in Processes : Plan(p, Current))
-----------------------------------------------------------------------------
Whole == live.units \in {first, [u \in Units |-> Current]}

\* A half-migrated vault is forbidden (docs/spec/03): while no process died and
\* no rollback failed, whoever finds the lock free finds a vault as it was before,
\* or all of it at the current version.
NoHalfMigration ==
  ~dead /\ HasUnits /\ (\A p \in Processes : pc[p] \in {"idle", "plan", "audit"})
  => Whole

\* The vault, and each snapshot an operator was told of, stays on disk, in
\* agents_root or in a directory beside it, whatever is renamed or dies.
Directories ==
  ({live} \union strays \union {staged[p] : p \in Processes}
   \union {aside[p] : p \in Processes}) \ {None}
Preserved ==
  /\ \E d \in Directories : d.units # None
  /\ \A s \in printed : \E d \in Directories : s \in d.snaps

\* What an interrupted migration leaves is repaired by a rerun or by the
\* --rollback that was printed, unless agents_root is no longer the vault.
InterruptedHeals == (HasUnits /\ ~Whole) ~> (~HasUnits \/ Whole)
=============================================================================
