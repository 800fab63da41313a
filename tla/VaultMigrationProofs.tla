------------------------ MODULE VaultMigrationProofs ------------------------
(***************************************************************************)
(* Theorems about VaultMigration, for any processes, units and versions.   *)
(*                                                                         *)
(* The invariant says who may change the vault: the process that holds the *)
(* lock in the directory that is agents_root now, or a manual rollback,    *)
(* which is alone.  From that it follows where the vault is while it is    *)
(* renamed, and what every snapshot holds.                                 *)
(***************************************************************************)
EXTENDS VaultMigration, FiniteSetTheorems, TLAPS

\* Between taking the lock and the first rename.
Mutating == {"apply", "validate", "restore", "staged"}
Owning   == {"locked"} \union Mutating

\* A manual rollback is alone.
AloneInv == \A p, q \in Processes :
  pc[p] # "idle" /\ target[p] = 0 /\ p # q => pc[q] = "idle"

ManualInv == \A p \in Processes :
  /\ pc[p] = "idle" => target[p] = 0
  /\ target[p] = 0 => pc[p] \in {"idle", "restore", "staged", "away", "swapped", "audit"}

\* A migration has the lock of the live directory until its first rename.
LockInv == \A p \in Processes :
  pc[p] \in Owning /\ target[p] # 0 => live # None /\ live.lock = p

\* The script at hand, and the units it has before it.
ScriptInv == \A p \in Processes :
  /\ pc[p] \in {"plan", "locked", "apply"} => at[p] \in 1..Latest /\ at[p] < target[p]
  /\ pc[p] = "apply" /\ left[p] # {} => HasUnits

\* A vault with all printed snapshots.
Full(d) == d # None /\ d.units # None /\ printed \subseteq d.snaps

\* What a rollback has prepared, and put aside.
RestoreInv == \A p \in Processes :
  /\ pc[p] \in Mutating => snap[p] # None
  /\ pc[p] = "staged" => HasUnits /\ Full(staged[p])
  /\ pc[p] = "away" => ~HasUnits
  /\ pc[p] \in {"away", "swapped"} => aside[p] # None
  /\ pc[p] = "away" /\ live = None => Full(staged[p]) /\ Full(aside[p])
OneAway == \A p, q \in Processes : pc[p] = "away" /\ pc[q] = "away" => p = q

\* Where the vault is: in agents_root with every snapshot, or beside it, and
\* then agents_root has at most snapshots of nothing.
VaultInv ==
  /\ HasUnits => Full(live)
  /\ live # None /\ live.units = None => \A s \in live.snaps : s.units = None
  /\ ~HasUnits =>
       \E d \in strays \union {aside[p] : p \in {q \in Processes : pc[q] = "away"}} :
         /\ d # None /\ d.units # None
         /\ \A s \in printed : s \in d.snaps \/ (live # None /\ s \in live.snaps)

\* While nothing died, a vault that nobody changes is whole, and so is what a
\* snapshot holds.
WholeUnits == {first, [u \in Units |-> Current]}
WholeInv ==
  ~dead =>
    /\ HasUnits /\ (\A p \in Processes : pc[p] \notin Mutating) => live.units \in WholeUnits
    /\ \A s \in printed : s.units # None => s.units \in WholeUnits
    /\ \A p \in Processes : pc[p] \in {"staged", "away"} => staged[p].units \in WholeUnits

\* Every snapshot in a directory was printed.
Printed(d) == d # None => d.snaps \subseteq printed
SnapsInv == /\ IsFiniteSet(printed) /\ Printed(live)
            /\ \A p \in Processes : /\ snap[p] # None => snap[p] \in printed
                                   /\ Printed(staged[p]) /\ Printed(aside[p])

Inv == /\ TypeOK /\ AloneInv /\ ManualInv /\ LockInv /\ ScriptInv
       /\ RestoreInv /\ OneAway /\ VaultInv /\ WholeInv /\ SnapsInv
-----------------------------------------------------------------------------
\* One process at a time has the right to change the vault.
LEMMA Exclusive ==
  ASSUME Inv, NEW p \in Processes, NEW q \in Processes,
         pc[p] \in Owning, pc[q] \in Owning
  PROVE  p = q
BY DEF Inv, AloneInv, LockInv, Owning, Mutating

\* What a change of its lock, its snapshots or one unit leaves of a vault.
LEMMA Relocked ==
  ASSUME NEW d \in Vaults, NEW x \in Processes \union {None}, NEW e, e = [d EXCEPT !.lock = x]
  PROVE  /\ e \in Vaults /\ e # None
         /\ e.units = d.units /\ e.snaps = d.snaps /\ e.lock = x
BY NoneAssumption DEF Vaults

LEMMA Extended ==
  ASSUME NEW d \in Vaults, NEW s \in Snapshots, NEW e, e = [d EXCEPT !.snaps = @ \union {s}]
  PROVE  /\ e \in Vaults /\ e # None /\ e.snaps = d.snaps \union {s}
         /\ e.units = d.units /\ e.lock = d.lock
BY NoneAssumption DEF Vaults

LEMMA Migrated ==
  ASSUME NEW d \in Vaults, d.units # None, NEW u \in Units, d.units[u] + 1 \in 1..Latest,
         NEW e, e = [d EXCEPT !.units[u] = @ + 1]
  PROVE  /\ e \in Vaults /\ e # None /\ e.units \in Contents
         /\ e.units # None /\ e.snaps = d.snaps /\ e.lock = d.lock
BY NoneAssumption DEF Vaults, Contents

\* The directory that a mkdir makes.
LEMMA Sound ==
  Bare \in Vaults /\ Bare # None /\ Bare.units = None /\ Bare.snaps = {}
BY NoneAssumption DEF Bare, Vaults

\* One lemma per action, one step per conjunct of the invariant.
LEMMA PlanKeeps ==
  ASSUME Inv, NEW p \in Processes, NEW t \in 2..Latest, Plan(p, t)
  PROVE  Inv'
<1>1. TypeOK'
  BY DEF Inv, TypeOK, Labels, Plan, Goes, disk, env
<1>2. AloneInv'
  BY DEF Inv, TypeOK, AloneInv, Plan, Goes
<1>3. ManualInv'
  BY DEF Inv, TypeOK, ManualInv, Plan, Goes
<1>4. LockInv'
  BY DEF Inv, TypeOK, LockInv, Owning, Mutating, Plan, Goes, disk
<1>5. ScriptInv'
  BY DEF Inv, TypeOK, ScriptInv, HasUnits, Plan, Goes, disk
<1>6. RestoreInv'
  BY DEF Inv, TypeOK, RestoreInv, Full, HasUnits, Mutating, Plan, Goes, disk
<1>7. OneAway'
  BY DEF Inv, TypeOK, OneAway, Plan, Goes
<1>8. VaultInv'
  BY DEF Inv, TypeOK, VaultInv, Full, HasUnits, Plan, Goes, disk
<1>9. WholeInv'
  BY DEF Inv, TypeOK, WholeInv, WholeUnits, HasUnits, Mutating, Plan, Goes, disk, env
<1>10. SnapsInv'
  BY DEF Inv, TypeOK, SnapsInv, Plan, disk, Printed
<1> QED BY <1>1, <1>2, <1>3, <1>4, <1>5, <1>6, <1>7, <1>8, <1>9, <1>10 DEF Inv

LEMMA LockKeeps ==
  ASSUME Inv, NEW p \in Processes, Lock(p)
  PROVE  Inv'
<1>a. /\ pc[p] = "plan" /\ UNCHANGED <<strays, env, printed, process>>
      /\ \/ UNCHANGED live /\ pc' = [pc EXCEPT ![p] = "audit"]
         \/ /\ pc' = [pc EXCEPT ![p] = "locked"] /\ live = None
            /\ live' \in Vaults /\ live' # None /\ live'.lock = p
            /\ live'.units = None /\ live'.snaps = {}
         \/ /\ pc' = [pc EXCEPT ![p] = "locked"] /\ live # None /\ live.lock = None
            /\ live' \in Vaults /\ live' # None /\ live'.lock = p
            /\ live'.units = live.units /\ live'.snaps = live.snaps
  BY Relocked, Sound DEF Inv, TypeOK, Lock, Goes
<1>1. TypeOK'
  BY <1>a DEF Inv, TypeOK, Labels, env, process
<1>2. AloneInv'
  BY <1>a DEF Inv, TypeOK, AloneInv, process
<1>3. ManualInv'
  BY <1>a DEF Inv, TypeOK, ManualInv, process
<1>4. LockInv'
  BY <1>a, NoneAssumption DEF Inv, TypeOK, LockInv, Owning, Mutating, process
<1>5. ScriptInv'
  BY <1>a DEF Inv, TypeOK, ScriptInv, HasUnits, process
<1>6. RestoreInv'
  BY <1>a DEF Inv, TypeOK, RestoreInv, Full, HasUnits, Mutating, process
<1>7. OneAway'
  BY <1>a DEF Inv, TypeOK, OneAway
<1>8. VaultInv'
  BY <1>a DEF Inv, TypeOK, VaultInv, Full, HasUnits, process
<1>9. WholeInv'
  BY <1>a DEF Inv, TypeOK, WholeInv, WholeUnits, HasUnits, Mutating, env, process
<1>10. SnapsInv'
  BY <1>a DEF Inv, TypeOK, SnapsInv, process, Printed
<1> QED BY <1>1, <1>2, <1>3, <1>4, <1>5, <1>6, <1>7, <1>8, <1>9, <1>10 DEF Inv

LEMMA NoSnapshotKeeps ==
  ASSUME Inv, NEW p \in Processes, NoSnapshot(p)
  PROVE  Inv'
<1>1. TypeOK'
  BY DEF Inv, TypeOK, Labels, NoSnapshot, Goes, disk, env, process
<1>2. AloneInv'
  BY DEF Inv, TypeOK, AloneInv, NoSnapshot, Goes, process
<1>3. ManualInv'
  BY DEF Inv, TypeOK, ManualInv, NoSnapshot, Goes, process
<1>4. LockInv'
  BY DEF Inv, TypeOK, LockInv, Owning, NoSnapshot, Goes, disk, process
<1>5. ScriptInv'
  BY DEF Inv, TypeOK, ScriptInv, LockInv, Owning, Mutating, NoSnapshot, Goes, process
<1>6. RestoreInv'
  BY DEF Inv, TypeOK, RestoreInv, Full, HasUnits, Mutating, NoSnapshot, Goes, disk,
     process
<1>7. OneAway'
  BY DEF Inv, TypeOK, OneAway, NoSnapshot, Goes
<1>8. VaultInv'
  BY DEF Inv, TypeOK, VaultInv, Full, HasUnits, NoSnapshot, Goes, disk, process
<1>9. WholeInv'
  BY DEF Inv, TypeOK, WholeInv, WholeUnits, HasUnits, Mutating, NoSnapshot, Goes, disk,
     env, process
<1>10. SnapsInv'
  BY DEF Inv, TypeOK, SnapsInv, NoSnapshot, disk, process, Printed
<1> QED BY <1>1, <1>2, <1>3, <1>4, <1>5, <1>6, <1>7, <1>8, <1>9, <1>10 DEF Inv

\* The number of a new snapshot is in range because the printed ones are finitely
\* many; the snapshot is whole because nobody else may change the vault.
LEMMA SnapshotKeeps ==
  ASSUME Inv, NEW p \in Processes, Snapshot(p)
  PROVE  Inv'
<1>a. PICK s \in Snapshots :
        /\ live' \in Vaults /\ live' # None /\ live'.snaps = live.snaps \union {s}
        /\ live'.units = live.units /\ live'.lock = live.lock /\ s.units = live.units
        /\ printed' = printed \union {s} /\ snap' = [snap EXCEPT ![p] = s] /\ live # None
  <2> DEFINE s == [number |-> Cardinality(printed) + 1, units |-> live.units]
  <2>1. live # None /\ live \in Vaults
    BY DEF Inv, TypeOK, LockInv, ManualInv, Owning, Snapshot
  <2>2. Cardinality(printed) \in Nat /\ Cardinality(printed) + 1 <= MaxSnaps
    BY FS_CardinalityType DEF Inv, SnapsInv, Snapshot
  <2>3. Cardinality(printed) + 1 \in 1..MaxSnaps
    BY <2>2, VaultAssumption
  <2>4. live.units \in Contents \union {None}
    BY <2>1 DEF Vaults
  <2>5. s \in Snapshots
    <3> DEFINE n == Cardinality(printed) + 1
    <3> HIDE DEF n
    <3>1. n \in 1..MaxSnaps
      BY <2>3 DEF n
    <3>2. [number |-> n, units |-> live.units] \in Snapshots
      BY <3>1, <2>4 DEF Snapshots
    <3> QED BY <3>2 DEF n
  <2>6. /\ live' = [live EXCEPT !.snaps = @ \union {s}]
        /\ printed' = printed \union {s} /\ snap' = [snap EXCEPT ![p] = s]
    BY DEF Snapshot
  <2>7. s.units = live.units
    OBVIOUS
  <2> HIDE DEF s
  <2>8. /\ live' \in Vaults /\ live' # None /\ live'.snaps = live.snaps \union {s}
        /\ live'.units = live.units /\ live'.lock = live.lock
    BY <2>1, <2>5, <2>6, Extended
  <2> QED BY <2>1, <2>5, <2>6, <2>7, <2>8
<1>b. /\ pc[p] = "locked" /\ pc' = [pc EXCEPT ![p] = "apply"]
      /\ left' = [left EXCEPT ![p] = IF HasUnits THEN Units ELSE {}]
      /\ UNCHANGED <<strays, env, target, at, staged, aside>>
  BY DEF Snapshot, Goes
<1>1. TypeOK'
  BY <1>a, <1>b DEF Inv, TypeOK, Labels, env
<1>2. AloneInv'
  BY <1>a, <1>b DEF Inv, TypeOK, AloneInv
<1>3. ManualInv'
  BY <1>a, <1>b DEF Inv, TypeOK, ManualInv
<1>4. LockInv'
  BY <1>a, <1>b DEF Inv, TypeOK, LockInv, Owning
<1>5. ScriptInv'
  BY <1>a, <1>b DEF Inv, TypeOK, ScriptInv, HasUnits
<1>6. RestoreInv'
  BY <1>a, <1>b, NoneAssumption, Exclusive DEF Inv, TypeOK, RestoreInv, HasUnits,
     Owning, Mutating
<1>7. OneAway'
  BY <1>a, <1>b DEF Inv, TypeOK, OneAway
<1>8. VaultInv'
  BY <1>a, <1>b DEF Inv, TypeOK, VaultInv, Full, HasUnits
<1>9. WholeInv'
  BY <1>a, <1>b DEF Inv, TypeOK, WholeInv, WholeUnits, HasUnits, Mutating, Owning, env,
     AloneInv, LockInv
<1>10. SnapsInv'
  BY <1>a, <1>b, FS_AddElement DEF Inv, TypeOK, SnapsInv, Printed
<1> QED BY <1>1, <1>2, <1>3, <1>4, <1>5, <1>6, <1>7, <1>8, <1>9, <1>10 DEF Inv

LEMMA ApplyKeeps ==
  ASSUME Inv, NEW p \in Processes, NEW u \in Units, Apply(p, u)
  PROVE  Inv'
<1>a. /\ pc[p] = "apply" /\ left' = [left EXCEPT ![p] = @ \ {u}]
      /\ UNCHANGED <<strays, env, printed, pc, target, at, snap, staged, aside>>
      /\ live # None /\ live.units # None
      /\ live' \in Vaults /\ live' # None /\ live'.units # None
      /\ live'.snaps = live.snaps /\ live'.lock = live.lock
  <2>1. pc[p] = "apply" /\ u \in left[p]
    BY DEF Apply
  <2>2. live # None /\ live \in Vaults /\ live.units # None
    BY <2>1 DEF Inv, TypeOK, ScriptInv, HasUnits
  <2>3. at[p] \in 1..Latest /\ at[p] < target[p] /\ target[p] \in 0..Latest
    BY <2>1 DEF Inv, TypeOK, ScriptInv
  <2>4. at[p] + 1 \in 1..Latest
    BY <2>3, VaultAssumption
  <2> QED BY <2>1, <2>2, <2>4, Migrated DEF Apply
<1>1. TypeOK'
  BY <1>a DEF Inv, TypeOK, env
<1>2. AloneInv'
  BY <1>a DEF Inv, TypeOK, AloneInv
<1>3. ManualInv'
  BY <1>a DEF Inv, TypeOK, ManualInv
<1>4. LockInv'
  BY <1>a DEF Inv, TypeOK, LockInv
<1>5. ScriptInv'
  BY <1>a DEF Inv, TypeOK, ScriptInv, HasUnits
<1>6. RestoreInv'
  BY <1>a DEF Inv, TypeOK, RestoreInv, Full, HasUnits
<1>7. OneAway'
  BY <1>a DEF Inv, TypeOK, OneAway
<1>8. VaultInv'
  BY <1>a DEF Inv, TypeOK, VaultInv, Full, HasUnits
<1>9. WholeInv'
  BY <1>a DEF Inv, TypeOK, WholeInv, WholeUnits, Mutating, env
<1>10. SnapsInv'
  BY <1>a DEF Inv, TypeOK, SnapsInv, Printed
<1> QED BY <1>1, <1>2, <1>3, <1>4, <1>5, <1>6, <1>7, <1>8, <1>9, <1>10 DEF Inv

LEMMA PassOverKeeps ==
  ASSUME Inv, NEW p \in Processes, NEW u \in Units, PassOver(p, u)
  PROVE  Inv'
<1>1. TypeOK'
  BY VaultAssumption DEF Inv, TypeOK, PassOver, Fault, disk
<1>2. AloneInv'
  BY DEF Inv, TypeOK, AloneInv, PassOver
<1>3. ManualInv'
  BY DEF Inv, TypeOK, ManualInv, PassOver
<1>4. LockInv'
  BY DEF Inv, TypeOK, LockInv, PassOver, disk
<1>5. ScriptInv'
  BY DEF Inv, TypeOK, ScriptInv, HasUnits, PassOver, disk
<1>6. RestoreInv'
  BY DEF Inv, TypeOK, RestoreInv, Full, HasUnits, PassOver, disk
<1>7. OneAway'
  BY DEF Inv, TypeOK, OneAway, PassOver
<1>8. VaultInv'
  BY DEF Inv, TypeOK, VaultInv, Full, HasUnits, PassOver, disk
<1>9. WholeInv'
  BY DEF Inv, TypeOK, WholeInv, WholeUnits, Mutating, PassOver
<1>10. SnapsInv'
  BY DEF Inv, TypeOK, SnapsInv, PassOver, disk, Printed
<1> QED BY <1>1, <1>2, <1>3, <1>4, <1>5, <1>6, <1>7, <1>8, <1>9, <1>10 DEF Inv

LEMMA RaiseKeeps ==
  ASSUME Inv, NEW p \in Processes, NEW u \in Units, Raise(p, u)
  PROVE  Inv'
<1>a. /\ pc[p] = "apply" /\ Fault /\ pc' = [pc EXCEPT ![p] = "restore"]
      /\ UNCHANGED <<strays, first, dead, printed, process>>
      /\ live # None /\ live.units # None
      /\ live' \in Vaults /\ live' # None /\ live'.units # None
      /\ live'.snaps = live.snaps /\ live'.lock = live.lock
  <2>1. pc[p] = "apply" /\ u \in left[p]
    BY DEF Raise
  <2>2. live # None /\ live \in Vaults /\ live.units # None
    BY <2>1 DEF Inv, TypeOK, ScriptInv, HasUnits
  <2>3. at[p] \in 1..Latest /\ at[p] < target[p] /\ target[p] \in 0..Latest
    BY <2>1 DEF Inv, TypeOK, ScriptInv
  <2>4. at[p] + 1 \in 1..Latest
    BY <2>3, VaultAssumption
  <2> QED BY <2>1, <2>2, <2>4, Migrated DEF Raise, Goes
<1>1. TypeOK'
  BY <1>a, VaultAssumption DEF Inv, TypeOK, Labels, Fault, process
<1>2. AloneInv'
  BY <1>a DEF Inv, TypeOK, AloneInv, process
<1>3. ManualInv'
  BY <1>a DEF Inv, TypeOK, ManualInv, process
<1>4. LockInv'
  BY <1>a DEF Inv, TypeOK, LockInv, Owning, Mutating, process
<1>5. ScriptInv'
  BY <1>a DEF Inv, TypeOK, ScriptInv, LockInv, Owning, Mutating, process
<1>6. RestoreInv'
  BY <1>a DEF Inv, TypeOK, RestoreInv, Full, HasUnits, Mutating, process
<1>7. OneAway'
  BY <1>a DEF Inv, TypeOK, OneAway
<1>8. VaultInv'
  BY <1>a DEF Inv, TypeOK, VaultInv, Full, HasUnits
<1>9. WholeInv'
  BY <1>a DEF Inv, TypeOK, WholeInv, WholeUnits, Mutating, process
<1>10. SnapsInv'
  BY <1>a DEF Inv, TypeOK, SnapsInv, process, Printed
<1> QED BY <1>1, <1>2, <1>3, <1>4, <1>5, <1>6, <1>7, <1>8, <1>9, <1>10 DEF Inv

LEMMA NextScriptKeeps ==
  ASSUME Inv, NEW p \in Processes, NextScript(p)
  PROVE  Inv'
<1>1. TypeOK'
  BY VaultAssumption DEF Inv, TypeOK, Labels, NextScript, Goes, disk, env
<1>2. AloneInv'
  BY DEF Inv, TypeOK, AloneInv, NextScript, Goes
<1>3. ManualInv'
  BY DEF Inv, TypeOK, ManualInv, NextScript, Goes
<1>4. LockInv'
  BY DEF Inv, TypeOK, LockInv, Owning, Mutating, NextScript, Goes, disk
<1>5. ScriptInv'
  <2>1. pc[p] = "apply" /\ at[p] \in 1..Latest /\ at[p] < target[p] /\ target[p] \in 0..Latest
    BY DEF Inv, TypeOK, ScriptInv, NextScript
  <2>2. at[p] + 1 < target[p] => at[p] + 1 \in 1..Latest
    BY <2>1, VaultAssumption
  <2> QED BY <2>1, <2>2 DEF Inv, TypeOK, ScriptInv, HasUnits, NextScript, Goes, disk
<1>6. RestoreInv'
  BY DEF Inv, TypeOK, RestoreInv, Full, HasUnits, Mutating, NextScript, Goes, disk
<1>7. OneAway'
  BY DEF Inv, TypeOK, OneAway, NextScript, Goes
<1>8. VaultInv'
  BY DEF Inv, TypeOK, VaultInv, Full, HasUnits, NextScript, Goes, disk
<1>9. WholeInv'
  BY DEF Inv, TypeOK, WholeInv, WholeUnits, Mutating, NextScript, Goes, env
<1>10. SnapsInv'
  BY DEF Inv, TypeOK, SnapsInv, NextScript, disk, Printed
<1> QED BY <1>1, <1>2, <1>3, <1>4, <1>5, <1>6, <1>7, <1>8, <1>9, <1>10 DEF Inv

\* A vault that is released is at the current version.
LEMMA ValidateKeeps ==
  ASSUME Inv, NEW p \in Processes, Validate(p)
  PROVE  Inv'
<1>1. TypeOK'
  BY DEF Inv, TypeOK, Labels, Validate, Goes, disk, env, process
<1>2. AloneInv'
  BY DEF Inv, TypeOK, AloneInv, Validate, Goes, process
<1>3. ManualInv'
  BY DEF Inv, TypeOK, ManualInv, Validate, Goes, process
<1>4. LockInv'
  BY DEF Inv, TypeOK, LockInv, Owning, Mutating, Validate, Goes, disk, process
<1>5. ScriptInv'
  BY DEF Inv, TypeOK, ScriptInv, LockInv, Owning, Mutating, AloneInv, Validate, Goes,
     process
<1>6. RestoreInv'
  BY DEF Inv, TypeOK, RestoreInv, Full, HasUnits, Mutating, Validate, Goes, disk,
     process
<1>7. OneAway'
  BY DEF Inv, TypeOK, OneAway, Validate, Goes
<1>8. VaultInv'
  BY DEF Inv, TypeOK, VaultInv, Full, HasUnits, Validate, Goes, disk, process
<1>9. WholeInv'
  <2>1. ASSUME HasUnits, \A u \in Units : live.units[u] = Current
        PROVE  live.units = [u \in Units |-> Current]
    <3>1. live.units \in [Units -> 1..Latest]
      BY <2>1 DEF Inv, TypeOK, HasUnits, Vaults, Contents
    <3> QED BY <2>1, <3>1
  <2>2. \/ HasUnits => \A u \in Units : live.units[u] = Current
        \/ pc'[p] = "restore"
    BY DEF Inv, TypeOK, Validate, Goes
  <2> QED BY <2>1, <2>2 DEF Inv, TypeOK, WholeInv, WholeUnits, HasUnits, Mutating,
             Validate, Goes, disk, env, process
<1>10. SnapsInv'
  BY DEF Inv, TypeOK, SnapsInv, Validate, disk, process, Printed
<1> QED BY <1>1, <1>2, <1>3, <1>4, <1>5, <1>6, <1>7, <1>8, <1>9, <1>10 DEF Inv

LEMMA RollbackKeeps ==
  ASSUME Inv, NEW p \in Processes, NEW s \in printed, Rollback(p, s)
  PROVE  Inv'
<1>1. TypeOK'
  BY DEF Inv, TypeOK, Labels, Rollback, Goes, disk, env
<1>2. AloneInv'
  BY DEF Inv, TypeOK, AloneInv, Rollback, Goes
<1>3. ManualInv'
  BY DEF Inv, TypeOK, ManualInv, Rollback, Goes
<1>4. LockInv'
  BY DEF Inv, TypeOK, ManualInv, LockInv, Rollback
<1>5. ScriptInv'
  BY DEF Inv, TypeOK, ScriptInv, Rollback, Goes
<1>6. RestoreInv'
  BY NoneAssumption DEF Inv, TypeOK, RestoreInv, Rollback, Goes
<1>7. OneAway'
  BY DEF Inv, TypeOK, OneAway, Rollback, Goes
<1>8. VaultInv'
  BY DEF Inv, TypeOK, VaultInv, Full, HasUnits, Rollback, disk
<1>9. WholeInv'
  BY DEF Inv, TypeOK, WholeInv, WholeUnits, Mutating, Rollback, Goes, env
<1>10. SnapsInv'
  BY DEF Inv, TypeOK, SnapsInv, Rollback, disk, Printed
<1> QED BY <1>1, <1>2, <1>3, <1>4, <1>5, <1>6, <1>7, <1>8, <1>9, <1>10 DEF Inv

LEMMA StageKeeps ==
  ASSUME Inv, NEW p \in Processes, Stage(p)
  PROVE  Inv'
<1>a. /\ pc[p] = "restore" /\ live # None /\ snap[p] # None /\ snap[p] \in live.snaps
      /\ snap[p].units # None /\ pc' = [pc EXCEPT ![p] = "staged"]
      /\ UNCHANGED <<disk, env, printed, target, at, left, snap, aside>>
      /\ staged' \in [Processes -> Vaults \union {None}]
      /\ \A q \in Processes \ {p} : staged'[q] = staged[q]
      /\ staged'[p] \in Vaults /\ staged'[p] # None
      /\ staged'[p].units = snap[p].units /\ staged'[p].snaps = live.snaps
  <2>1. live \in Vaults /\ snap[p] \in Snapshots /\ live # None /\ snap[p].units # None
    BY DEF Inv, TypeOK, Stage, Restorable
  <2> DEFINE d == [units |-> snap[p].units, snaps |-> live.snaps, lock |-> None]
  <2>2. d \in Vaults /\ d # None /\ d.units = snap[p].units /\ d.snaps = live.snaps
    BY <2>1, NoneAssumption DEF Vaults, Snapshots
  <2> HIDE DEF d
  <2>3. staged' = [staged EXCEPT ![p] = d]
    BY DEF Stage, d
  <2> QED BY <2>1, <2>2, <2>3 DEF Inv, TypeOK, Stage, Restorable, Goes
<1>1. TypeOK'
  BY <1>a DEF Inv, TypeOK, Labels, disk, env
<1>2. AloneInv'
  BY <1>a DEF Inv, TypeOK, AloneInv
<1>3. ManualInv'
  BY <1>a DEF Inv, TypeOK, ManualInv
<1>4. LockInv'
  BY <1>a DEF Inv, TypeOK, LockInv, Owning, Mutating, disk
<1>5. ScriptInv'
  BY <1>a DEF Inv, TypeOK, ScriptInv, LockInv, Owning, Mutating, AloneInv
<1>6. RestoreInv'
  BY <1>a DEF Inv, TypeOK, RestoreInv, VaultInv, Full, HasUnits, disk
<1>7. OneAway'
  BY <1>a DEF Inv, TypeOK, OneAway
<1>8. VaultInv'
  BY <1>a DEF Inv, TypeOK, VaultInv, Full, HasUnits, disk
<1>9. WholeInv'
  BY <1>a DEF Inv, TypeOK, WholeInv, WholeUnits, Mutating, SnapsInv, env
<1>10. SnapsInv'
  BY <1>a DEF Inv, TypeOK, SnapsInv, disk, Printed
<1> QED BY <1>1, <1>2, <1>3, <1>4, <1>5, <1>6, <1>7, <1>8, <1>9, <1>10 DEF Inv

\* From here agents_root is gone and both copies have every printed snapshot.
LEMMA AwayKeeps ==
  ASSUME Inv, NEW p \in Processes, Away(p)
  PROVE  Inv'
<1>1. TypeOK'
  BY DEF Inv, TypeOK, Labels, Away, Goes, env
<1>2. AloneInv'
  BY DEF Inv, TypeOK, AloneInv, Away, Goes
<1>3. ManualInv'
  BY DEF Inv, TypeOK, ManualInv, Away, Goes
<1>4. LockInv'
  BY DEF Inv, TypeOK, LockInv, Owning, Mutating, AloneInv, Away, Goes
<1>5. ScriptInv'
  BY DEF Inv, TypeOK, ScriptInv, LockInv, Owning, Mutating, AloneInv, Away, Goes
<1>6. RestoreInv'
  BY Exclusive DEF Inv, TypeOK, RestoreInv, VaultInv, Full, HasUnits, Owning, Mutating,
     Away, Goes
<1>7. OneAway'
  BY DEF Inv, TypeOK, OneAway, RestoreInv, Away, Goes
<1>8. VaultInv'
  BY DEF Inv, TypeOK, VaultInv, RestoreInv, Full, HasUnits, Away, Goes
<1>9. WholeInv'
  BY DEF Inv, TypeOK, WholeInv, WholeUnits, HasUnits, Away, Goes, env
<1>10. SnapsInv'
  BY DEF Inv, TypeOK, SnapsInv, Away, Printed
<1> QED BY <1>1, <1>2, <1>3, <1>4, <1>5, <1>6, <1>7, <1>8, <1>9, <1>10 DEF Inv

\* The staged copy becomes the vault.
LEMMA SwapKeeps ==
  ASSUME Inv, NEW p \in Processes, Swap(p)
  PROVE  Inv'
<1>1. TypeOK'
  BY DEF Inv, TypeOK, Labels, Swap, Goes, env
<1>2. AloneInv'
  BY DEF Inv, TypeOK, AloneInv, Swap, Goes
<1>3. ManualInv'
  BY DEF Inv, TypeOK, ManualInv, Swap, Goes
<1>4. LockInv'
  BY DEF Inv, TypeOK, LockInv, Owning, Mutating, Swap, Goes
<1>5. ScriptInv'
  BY DEF Inv, TypeOK, ScriptInv, LockInv, Owning, Mutating, Swap, Goes
<1>6. RestoreInv'
  BY DEF Inv, TypeOK, RestoreInv, OneAway, Mutating, Swap, Goes
<1>7. OneAway'
  BY DEF Inv, TypeOK, OneAway, Swap, Goes
<1>8. VaultInv'
  BY DEF Inv, TypeOK, VaultInv, RestoreInv, Full, HasUnits, Swap
<1>9. WholeInv'
  BY DEF Inv, TypeOK, WholeInv, WholeUnits, Swap, Goes, env
<1>10. SnapsInv'
  BY DEF Inv, TypeOK, SnapsInv, Swap, Printed
<1> QED BY <1>1, <1>2, <1>3, <1>4, <1>5, <1>6, <1>7, <1>8, <1>9, <1>10 DEF Inv

\* The directory in the way has no unit, and the vault is among the strays.
LEMMA BlockedKeeps ==
  ASSUME Inv, NEW p \in Processes, Blocked(p)
  PROVE  Inv'
<1>1. TypeOK'
  BY DEF Inv, TypeOK, Labels, RestoreInv, Blocked, Restored, Goes
<1>2. AloneInv'
  BY DEF Inv, TypeOK, AloneInv, Blocked, Restored, Goes
<1>3. ManualInv'
  BY DEF Inv, TypeOK, ManualInv, Blocked, Restored, Manual, Goes
<1>4. LockInv'
  BY DEF Inv, TypeOK, LockInv, Owning, Mutating, Blocked, Restored, Goes
<1>5. ScriptInv'
  BY DEF Inv, TypeOK, ScriptInv, HasUnits, Blocked, Restored, Goes
<1>6. RestoreInv'
  BY DEF Inv, TypeOK, RestoreInv, HasUnits, Mutating, Blocked, Restored, Goes
<1>7. OneAway'
  BY DEF Inv, TypeOK, OneAway, Blocked, Restored, Goes
<1>8. VaultInv'
  BY DEF Inv, TypeOK, VaultInv, Full, HasUnits, Blocked, Restored, Goes
<1>9. WholeInv'
  BY DEF Inv, TypeOK, WholeInv, Blocked
<1>10. SnapsInv'
  BY DEF Inv, TypeOK, SnapsInv, Blocked, Printed
<1> QED BY <1>1, <1>2, <1>3, <1>4, <1>5, <1>6, <1>7, <1>8, <1>9, <1>10 DEF Inv

LEMMA DiscardKeeps ==
  ASSUME Inv, NEW p \in Processes, Discard(p)
  PROVE  Inv'
<1>1. TypeOK'
  BY VaultAssumption DEF Inv, TypeOK, Labels, RestoreInv, Discard, Restored, Goes, Fault
<1>2. AloneInv'
  BY DEF Inv, TypeOK, AloneInv, Discard, Restored, Goes
<1>3. ManualInv'
  BY DEF Inv, TypeOK, ManualInv, Discard, Restored, Manual, Goes
<1>4. LockInv'
  BY DEF Inv, TypeOK, LockInv, Owning, Mutating, Discard, Restored, Goes
<1>5. ScriptInv'
  BY DEF Inv, TypeOK, ScriptInv, HasUnits, Discard, Restored, Goes
<1>6. RestoreInv'
  BY DEF Inv, TypeOK, RestoreInv, Full, HasUnits, Mutating, Discard, Restored, Goes
<1>7. OneAway'
  BY DEF Inv, TypeOK, OneAway, Discard, Restored, Goes
<1>8. VaultInv'
  BY DEF Inv, TypeOK, VaultInv, Full, HasUnits, Discard, Restored, Goes
<1>9. WholeInv'
  BY DEF Inv, TypeOK, WholeInv, WholeUnits, HasUnits, Mutating, Discard, Restored, Goes
<1>10. SnapsInv'
  BY DEF Inv, TypeOK, SnapsInv, Discard, Printed
<1> QED BY <1>1, <1>2, <1>3, <1>4, <1>5, <1>6, <1>7, <1>8, <1>9, <1>10 DEF Inv

LEMMA CannotRestoreKeeps ==
  ASSUME Inv, NEW p \in Processes, CannotRestore(p)
  PROVE  Inv'
<1>1. TypeOK'
  BY DEF Inv, TypeOK, Labels, CannotRestore, Restored, Goes, disk
<1>2. AloneInv'
  BY DEF Inv, TypeOK, AloneInv, CannotRestore, Restored, Goes
<1>3. ManualInv'
  BY DEF Inv, TypeOK, ManualInv, CannotRestore, Restored, Manual, Goes
<1>4. LockInv'
  BY DEF Inv, TypeOK, LockInv, Owning, Mutating, CannotRestore, Restored, Goes, disk
<1>5. ScriptInv'
  BY DEF Inv, TypeOK, ScriptInv, LockInv, Owning, Mutating, AloneInv, CannotRestore,
     Restored, Goes
<1>6. RestoreInv'
  BY DEF Inv, TypeOK, RestoreInv, Full, HasUnits, Mutating, CannotRestore, Restored,
     Goes, disk
<1>7. OneAway'
  BY DEF Inv, TypeOK, OneAway, CannotRestore, Restored, Goes
<1>8. VaultInv'
  BY DEF Inv, TypeOK, VaultInv, Full, HasUnits, CannotRestore, Restored, Goes, disk
<1>9. WholeInv'
  BY DEF Inv, TypeOK, WholeInv, CannotRestore
<1>10. SnapsInv'
  BY DEF Inv, TypeOK, SnapsInv, CannotRestore, disk, Printed
<1> QED BY <1>1, <1>2, <1>3, <1>4, <1>5, <1>6, <1>7, <1>8, <1>9, <1>10 DEF Inv

LEMMA RestoreFailsKeeps ==
  ASSUME Inv, NEW p \in Processes, RestoreFails(p)
  PROVE  Inv'
<1>1. TypeOK'
  BY VaultAssumption DEF Inv, TypeOK, Labels, RestoreFails, Restored, Goes, Fault
<1>2. AloneInv'
  BY DEF Inv, TypeOK, AloneInv, RestoreFails, Restored, Goes
<1>3. ManualInv'
  BY DEF Inv, TypeOK, ManualInv, RestoreFails, Restored, Manual, Goes
<1>4. LockInv'
  BY DEF Inv, TypeOK, LockInv, Owning, Mutating, RestoreFails, Restored, Goes
<1>5. ScriptInv'
  BY DEF Inv, TypeOK, ScriptInv, LockInv, Owning, Mutating, AloneInv, RestoreFails,
     Restored, Goes
<1>6. RestoreInv'
  BY DEF Inv, TypeOK, RestoreInv, OneAway, Full, HasUnits, Mutating, RestoreFails,
     Restored, Goes
<1>7. OneAway'
  BY DEF Inv, TypeOK, OneAway, RestoreFails, Restored, Goes
<1>8. VaultInv'
  BY DEF Inv, TypeOK, VaultInv, RestoreInv, Full, HasUnits, RestoreFails, Restored, Goes
<1>9. WholeInv'
  BY DEF Inv, TypeOK, WholeInv, RestoreFails
<1>10. SnapsInv'
  BY DEF Inv, TypeOK, SnapsInv, RestoreFails, Printed
<1> QED BY <1>1, <1>2, <1>3, <1>4, <1>5, <1>6, <1>7, <1>8, <1>9, <1>10 DEF Inv

LEMMA ReleaseKeeps ==
  ASSUME Inv, NEW p \in Processes, Release(p)
  PROVE  Inv'
<1>a. /\ pc[p] = "release" /\ pc' = [pc EXCEPT ![p] = "audit"]
      /\ UNCHANGED <<strays, env, printed, process>>
  BY DEF Release, Goes
<1>b. \/ UNCHANGED live
      \/ /\ live # None /\ live.lock = p /\ live' # None /\ live' \in Vaults
         /\ live'.units = live.units /\ live'.snaps = live.snaps /\ live'.lock = None
  <2>1. CASE live # None /\ live.lock = p
    <3>1. live' = [live EXCEPT !.lock = None] /\ live \in Vaults
      BY <2>1 DEF Inv, TypeOK, Release, Unlocked
    <3> QED BY <2>1, <3>1, Relocked
  <2>2. CASE ~(live # None /\ live.lock = p)
    BY <2>2 DEF Release, Unlocked
  <2> QED BY <2>1, <2>2
<1>1. TypeOK'
  BY <1>a, <1>b DEF Inv, TypeOK, Labels, env, process
<1>2. AloneInv'
  BY <1>a, <1>b DEF Inv, TypeOK, AloneInv, process
<1>3. ManualInv'
  BY <1>a, <1>b DEF Inv, TypeOK, ManualInv, process
<1>4. LockInv'
  BY <1>a, <1>b DEF Inv, TypeOK, LockInv, Owning, Mutating, process
<1>5. ScriptInv'
  BY <1>a, <1>b DEF Inv, TypeOK, ScriptInv, HasUnits, process
<1>6. RestoreInv'
  BY <1>a, <1>b DEF Inv, TypeOK, RestoreInv, Full, HasUnits, Mutating, process
<1>7. OneAway'
  BY <1>a, <1>b DEF Inv, TypeOK, OneAway
<1>8. VaultInv'
  BY <1>a, <1>b DEF Inv, TypeOK, VaultInv, Full, HasUnits, process
<1>9. WholeInv'
  BY <1>a, <1>b DEF Inv, TypeOK, WholeInv, WholeUnits, HasUnits, Mutating, env, process
<1>10. SnapsInv'
  BY <1>a, <1>b DEF Inv, TypeOK, SnapsInv, process, Printed
<1> QED BY <1>1, <1>2, <1>3, <1>4, <1>5, <1>6, <1>7, <1>8, <1>9, <1>10 DEF Inv

LEMMA AuditKeeps ==
  ASSUME Inv, NEW p \in Processes, Audit(p)
  PROVE  Inv'
<1>1. TypeOK'
  BY VaultAssumption, Sound DEF Inv, TypeOK, Labels, Audit, Forget, Goes, env
<1>2. AloneInv'
  BY DEF Inv, TypeOK, AloneInv, Audit, Forget, Goes
<1>3. ManualInv'
  BY DEF Inv, TypeOK, ManualInv, Audit, Forget, Goes
<1>4. LockInv'
  BY DEF Inv, TypeOK, LockInv, Audit, Forget, Goes
<1>5. ScriptInv'
  BY DEF Inv, TypeOK, ScriptInv, HasUnits, Audit, Forget, Goes
<1>6. RestoreInv'
  BY Sound DEF Inv, TypeOK, RestoreInv, Full, HasUnits, Mutating, Audit, Forget, Goes
<1>7. OneAway'
  BY DEF Inv, TypeOK, OneAway, Audit, Forget, Goes
<1>8. VaultInv'
  BY Sound DEF Inv, TypeOK, VaultInv, Full, HasUnits, Audit, Forget, Goes
<1>9. WholeInv'
  BY Sound DEF Inv, TypeOK, WholeInv, WholeUnits, HasUnits, Mutating, Audit, Forget,
     Goes, env
<1>10. SnapsInv'
  BY Sound DEF Inv, TypeOK, SnapsInv, Audit, Forget, Printed
<1> QED BY <1>1, <1>2, <1>3, <1>4, <1>5, <1>6, <1>7, <1>8, <1>9, <1>10 DEF Inv

\* The directories of a dead process become strays.
LEMMA CrashKeeps ==
  ASSUME Inv, NEW p \in Processes, Crash(p)
  PROVE  Inv'
<1>a. /\ pc[p] # "idle" /\ Fault /\ dead' = TRUE /\ Forget(p)
      /\ strays' = strays \union ({staged[p], aside[p]} \ {None})
      /\ UNCHANGED <<first, printed>>
  BY DEF Crash
<1>b. \/ UNCHANGED live
      \/ /\ live # None /\ live.lock = p /\ live' # None /\ live' \in Vaults
         /\ live'.units = live.units /\ live'.snaps = live.snaps /\ live'.lock = None
  <2>1. CASE live # None /\ live.lock = p
    <3>1. live' = [live EXCEPT !.lock = None] /\ live \in Vaults
      BY <2>1 DEF Inv, TypeOK, Crash, Unlocked
    <3> QED BY <2>1, <3>1, Relocked
  <2>2. CASE ~(live # None /\ live.lock = p)
    BY <2>2 DEF Crash, Unlocked
  <2> QED BY <2>1, <2>2
<1>1. TypeOK'
  BY <1>a, <1>b, VaultAssumption DEF Inv, TypeOK, Labels, Fault, Forget, Goes
<1>2. AloneInv'
  BY <1>a, <1>b DEF Inv, TypeOK, AloneInv, Forget, Goes
<1>3. ManualInv'
  BY <1>a, <1>b DEF Inv, TypeOK, ManualInv, Forget, Goes
<1>4. LockInv'
  BY <1>a, <1>b DEF Inv, TypeOK, LockInv, Forget, Goes
<1>5. ScriptInv'
  BY <1>a, <1>b DEF Inv, TypeOK, ScriptInv, HasUnits, Forget, Goes
<1>6. RestoreInv'
  BY <1>a, <1>b DEF Inv, TypeOK, RestoreInv, Full, HasUnits, Mutating, Forget, Goes
<1>7. OneAway'
  BY <1>a, <1>b DEF Inv, TypeOK, OneAway, Forget, Goes
<1>8. VaultInv'
  BY <1>a, <1>b DEF Inv, TypeOK, VaultInv, Full, HasUnits, Forget, Goes
<1>9. WholeInv'
  BY <1>a, <1>b DEF Inv, TypeOK, WholeInv
<1>10. SnapsInv'
  BY <1>a, <1>b DEF Inv, TypeOK, SnapsInv, Forget, Printed
<1> QED BY <1>1, <1>2, <1>3, <1>4, <1>5, <1>6, <1>7, <1>8, <1>9, <1>10 DEF Inv

-----------------------------------------------------------------------------
\* The invariant holds at first and is kept by every step.
LEMMA InitInv == Init => Inv
<1> SUFFICES ASSUME Init
             PROVE  Inv
  OBVIOUS
<1>1. first \in Contents /\ live \in Vaults /\ live # None
      /\ live.units = first /\ live.snaps = {} /\ live.units # None
  <2>1. first \in Contents
    BY VaultAssumption DEF Init, Contents
  <2> QED BY <2>1, NoneAssumption DEF Init, Vaults
<1>2. TypeOK
  <2>1. /\ first \in Contents /\ live \in Vaults /\ strays = {} /\ printed = {}
        /\ faults \in 0..MaxFaults
    BY <1>1, VaultAssumption, SMT DEF Init
  <2>5. dead \in BOOLEAN
    BY Zenon DEF Init
  <2>2. pc \in [Processes -> Labels]
    BY DEF Init, Labels
  <2>3. target \in [Processes -> 0..Latest] /\ at \in [Processes -> 0..Latest]
    BY VaultAssumption DEF Init
  <2>4. /\ left \in [Processes -> SUBSET Units]
        /\ snap \in [Processes -> Snapshots \union {None}]
        /\ staged \in [Processes -> Vaults \union {None}]
        /\ aside \in [Processes -> Vaults \union {None}]
    BY DEF Init
  <2> QED BY <2>1, <2>2, <2>3, <2>4, <2>5 DEF TypeOK
<1>3. AloneInv /\ ManualInv /\ LockInv /\ ScriptInv /\ RestoreInv /\ OneAway
  BY DEF Init, AloneInv, ManualInv, LockInv, ScriptInv, RestoreInv, OneAway, Owning,
     Mutating
<1>4. VaultInv
  BY <1>1 DEF Init, VaultInv, Full, HasUnits
<1>5. WholeInv
  BY <1>1 DEF Init, WholeInv, WholeUnits
<1>6. SnapsInv
  BY <1>1, FS_EmptySet DEF Init, SnapsInv, Printed
<1> QED BY <1>2, <1>3, <1>4, <1>5, <1>6 DEF Inv

LEMMA NextInv ==
  ASSUME Inv, [Next]_vars
  PROVE  Inv'
<1>1. ASSUME NEW p \in Processes, Step(p)
      PROVE  Inv'
  BY <1>1, LockKeeps, NoSnapshotKeeps, SnapshotKeeps, NextScriptKeeps, ValidateKeeps,
     ApplyKeeps, StageKeeps, AwayKeeps, SwapKeeps, BlockedKeeps, DiscardKeeps,
     CannotRestoreKeeps, ReleaseKeeps, AuditKeeps DEF Step
<1>2. CASE Next
  BY <1>1, <1>2, PlanKeeps, RollbackKeeps, RestoreFailsKeeps, CrashKeeps,
     PassOverKeeps, RaiseKeeps DEF Next
<1>3. CASE UNCHANGED vars
  BY <1>3 DEF vars, disk, env, process, Inv, TypeOK, AloneInv, ManualInv, LockInv,
     ScriptInv, RestoreInv, OneAway, VaultInv, WholeInv, WholeUnits, SnapsInv,
     HasUnits, Full, Printed
<1> QED BY <1>2, <1>3

LEMMA Invariance == Spec => []Inv
BY InitInv, NextInv, PTL DEF Spec

\* Each variable keeps its type: no unit is ever written outside the versions that
\* scripts exist for.
THEOREM TypeCorrect == Spec => []TypeOK
<1>1. Inv => TypeOK
  BY DEF Inv
<1> QED BY <1>1, Invariance, PTL

\* While no process died and no rollback failed, a vault that nobody is migrating is
\* as it was before, or all of it at the adopted version: a failing script or
\* validation is always rolled back (run_migration, _do_rollback).
THEOREM NeverHalf == Spec => []NoHalfMigration
<1>1. Inv => NoHalfMigration
  BY DEF Inv, WholeInv, WholeUnits, NoHalfMigration, Whole, Mutating
<1> QED BY <1>1, Invariance, PTL

\* At every step of every rename, and after every death, some directory has the
\* vault and each printed snapshot is in a directory (restore).
THEOREM VaultPreserved == Spec => []Preserved
<1>1. ASSUME Inv
      PROVE  Preserved
  <2>1. CASE HasUnits
    BY <1>1, <2>1 DEF Inv, VaultInv, Full, Preserved, Directories
  <2>2. CASE ~HasUnits
    <3>1. PICK d \in strays \union {aside[p] : p \in {q \in Processes : pc[q] = "away"}} :
            /\ d # None /\ d.units # None
            /\ \A s \in printed : s \in d.snaps \/ (live # None /\ s \in live.snaps)
      BY <1>1, <2>2 DEF Inv, VaultInv
    <3>2. d \in Directories /\ (live # None => live \in Directories)
      BY <3>1 DEF Directories
    <3> QED BY <3>1, <3>2 DEF Preserved
  <2> QED BY <2>1, <2>2
<1> QED BY <1>1, Invariance, PTL
=============================================================================
