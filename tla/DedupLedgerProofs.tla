-------------------------- MODULE DedupLedgerProofs --------------------------
(***************************************************************************)
(* Theorems about DedupLedger, for any number of callers, runs and faults. *)
(*                                                                         *)
(* Why OneRun holds: from its exclusive create until its own unlink a      *)
(* caller is the only one that touches the lease file, because every other *)
(* create fails while the file exists and every unlink is reached only     *)
(* from a create.  Only such a caller writes the marker.  The agent lock   *)
(* plays no part.                                                          *)
(***************************************************************************)
EXTENDS DedupLedger, TLAPS

\* The caller created the lease file that exists now.
Holds(c) == pc[c] \in {"fill", "recheck", "spurious", "run", "log", "commit",
                       "check", "write", "unlink", "release"}

LeaseInv ==
  \A c \in Callers : Holds(c) =>
    /\ lease # Absent
    /\ pc[c] # "fill" => lease = run[c]
    /\ \A d \in Callers : Holds(d) => d = c

FreshInv ==
  \A c \in Callers :
    pc[c] \in {"run", "log", "commit", "check", "write", "release"} =>
      terminal = Absent /\ held[c]

PriorInv ==
  \A c \in Callers :
    /\ pc[c] \in {"check", "write"} => prior[c] = run[c]
    /\ pc[c] \in {"commit", "check", "write"} => run[c] \in logged

Inv == TypeOK /\ LeaseInv /\ FreshInv /\ PriorInv /\ AuditLink

LEMMA InvInit == Init => Inv
  BY LedgerAssumption
     DEF Init, Inv, TypeOK, LeaseInv, FreshInv, PriorInv, AuditLink, Completed,
         Holds, PCs

-----------------------------------------------------------------------------
\* The locals of a call that is over have their types.
LEMMA EndCallType ==
  ASSUME TypeOK, NEW c \in Callers, EndCall(c)
  PROVE  /\ pc' \in [Callers -> PCs]
         /\ run' \in [Callers -> Runs \union {NoRun}]
         /\ retried' \in [Callers -> BOOLEAN] /\ held' \in [Callers -> BOOLEAN]
         /\ prior' \in [Callers -> Runs \union {NoRun}]
         /\ \A d \in Callers : pc'[d] # "idle" => run'[d] \in Runs
  BY DEF TypeOK, EndCall, Goto, PCs

\* Every step of a call, of a failure and of the lock keeps the types.
LEMMA TypeStep ==
  ASSUME TypeOK, [Next]_vars
  PROVE  TypeOK'
<1> USE DEF files, locals, At, Goto, Fails, Quiet
<1> faults \in Nat /\ MaxFaults \in Nat
  BY LedgerAssumption DEF TypeOK
<1>1. ASSUME NEW c \in Callers, Call(c) PROVE TypeOK'
  <2>1. CASE \E r \in Runs : Start(c, r)
    BY <2>1 DEF Start, TypeOK, PCs
  <2>2. CASE Lookup(c)
    BY <2>2, EndCallType DEF Lookup, TypeOK, PCs
  <2>3. CASE AcquireLock(c)
    BY <2>3 DEF AcquireLock, TypeOK, PCs
  <2>4. CASE LockBusy(c)
    BY <2>4, EndCallType DEF LockBusy, TypeOK
  <2>5. CASE CostGate(c)
    BY <2>5 DEF CostGate, TypeOK, PCs
  <2>6. CASE Begin(c)
    <3>1. CASE BeginTerminal(c)
      BY <3>1 DEF BeginTerminal, TypeOK, PCs
    <3>2. CASE BeginCreate(c)
      BY <3>2 DEF BeginCreate, TypeOK, PCs
    <3>3. CASE BeginFill(c)
      BY <3>3 DEF BeginFill, TypeOK, PCs
    <3>4. CASE BeginRecheck(c)
      BY <3>4 DEF BeginRecheck, TypeOK, PCs
    <3>5. CASE BeginSpurious(c)
      BY <3>5 DEF BeginSpurious, TypeOK, PCs
    <3>6. CASE BeginExists(c)
      BY <3>6 DEF BeginExists, TypeOK, PCs
    <3>7. CASE BeginInFlight(c)
      BY <3>7 DEF BeginInFlight, TypeOK, PCs
    <3> QED BY <2>6, <3>1, <3>2, <3>3, <3>4, <3>5, <3>6, <3>7 DEF Begin
  <2>7. CASE Work(c)
    BY <2>7 DEF Work, TypeOK, PCs
  <2>8. CASE Log(c)
    BY <2>8 DEF Log, TypeOK, PCs
  <2>9. CASE Commit(c)
    <3>1. CASE CommitLease(c)
      BY <3>1 DEF CommitLease, TypeOK, PCs
    <3>2. CASE CommitCheck(c)
      BY <3>2 DEF CommitCheck, TypeOK, PCs
    <3>3. CASE CommitWrite(c)
      BY <3>3 DEF CommitWrite, TypeOK, PCs
    <3>4. CASE CommitUnlink(c)
      BY <3>4 DEF CommitUnlink, TypeOK, PCs
    <3> QED BY <2>9, <3>1, <3>2, <3>3, <3>4 DEF Commit
  <2>10. CASE ReleaseLease(c)
    BY <2>10 DEF ReleaseLease, TypeOK, PCs
  <2>11. CASE Unlock(c)
    BY <2>11, EndCallType DEF Unlock, TypeOK
  <2> QED
    BY <1>1, <2>1, <2>2, <2>3, <2>4, <2>5, <2>6, <2>7, <2>8, <2>9, <2>10, <2>11
       DEF Call
<1>2. ASSUME NEW c \in Callers, Crash(c) PROVE TypeOK'
  BY <1>2, EndCallType DEF Crash, TypeOK
<1>3. CASE LockExpires
  BY <1>3 DEF LockExpires, TypeOK
<1>4. CASE PowerLoss
  BY <1>4 DEF PowerLoss, TypeOK, PCs
<1>5. CASE UNCHANGED vars
  BY <1>5 DEF vars, TypeOK
<1> QED BY <1>1, <1>2, <1>3, <1>4, <1>5 DEF Next
-----------------------------------------------------------------------------
\* A step of one caller keeps the lease exclusive.  The only steps that make c
\* a holder is the create, which needs that no lease exists; the only steps
\* that remove the lease are steps of its holder.
LEMMA CallStep ==
  ASSUME Inv, TypeOK', NEW c \in Callers, Call(c)
  PROVE  LeaseInv' /\ FreshInv' /\ PriorInv' /\ AuditLink'
<1> USE DEF Inv, TypeOK, LeaseInv, FreshInv, PriorInv, AuditLink, Holds,
            Completed, files, locals, At, Goto, Fails, Quiet
<1> USE LedgerAssumption
<1>1. CASE \E r \in Runs : Start(c, r)
  BY <1>1 DEF Start
<1>2. CASE Lookup(c)
  BY <1>2 DEF Lookup, EndCall
<1>3. CASE AcquireLock(c)
  BY <1>3 DEF AcquireLock
<1>4. CASE LockBusy(c)
  BY <1>4 DEF LockBusy, EndCall
<1>5. CASE CostGate(c)
  BY <1>5 DEF CostGate
<1>6. CASE Begin(c)
  <2>1. CASE BeginTerminal(c)
    BY <2>1 DEF BeginTerminal
  <2>2. CASE BeginCreate(c)
    BY <2>2 DEF BeginCreate
  <2>3. CASE BeginFill(c)
    BY <2>3 DEF BeginFill
  <2>4. CASE BeginRecheck(c)
    BY <2>4 DEF BeginRecheck
  <2>5. CASE BeginSpurious(c)
    BY <2>5 DEF BeginSpurious
  <2>6. CASE BeginExists(c)
    BY <2>6 DEF BeginExists
  <2>7. CASE BeginInFlight(c)
    BY <2>7 DEF BeginInFlight
  <2> QED BY <1>6, <2>1, <2>2, <2>3, <2>4, <2>5, <2>6, <2>7 DEF Begin
<1>7. CASE Work(c)
  BY <1>7 DEF Work
<1>8. CASE Log(c)
  BY <1>8 DEF Log
<1>9. CASE Commit(c)
  <2>1. CASE CommitLease(c)
    BY <2>1 DEF CommitLease
  <2>2. CASE CommitCheck(c)
    BY <2>2 DEF CommitCheck
  <2>3. CASE CommitWrite(c)
    BY <2>3 DEF CommitWrite
  <2>4. CASE CommitUnlink(c)
    BY <2>4 DEF CommitUnlink
  <2> QED BY <1>9, <2>1, <2>2, <2>3, <2>4 DEF Commit
<1>10. CASE ReleaseLease(c)
  BY <1>10 DEF ReleaseLease
<1>11. CASE Unlock(c)
  BY <1>11 DEF Unlock, EndCall
<1> QED
  BY <1>1, <1>2, <1>3, <1>4, <1>5, <1>6, <1>7, <1>8, <1>9, <1>10, <1>11
     DEF Call

LEMMA InvStep ==
  ASSUME Inv, [Next]_vars
  PROVE  Inv'
<1>1. TypeOK'
  BY TypeStep DEF Inv
<1>2. ASSUME NEW c \in Callers, Call(c) PROVE Inv'
  BY <1>1, <1>2, CallStep DEF Inv
<1>3. ASSUME NEW c \in Callers, Crash(c) PROVE Inv'
  BY <1>1, <1>3
     DEF Crash, EndCall, Inv, TypeOK, LeaseInv, FreshInv, PriorInv, AuditLink,
         Holds, Completed, files, At, Goto
<1>4. CASE LockExpires
  BY <1>1, <1>4
     DEF LockExpires, Inv, LeaseInv, FreshInv, PriorInv, AuditLink, Holds,
         Completed, files, locals
<1>5. CASE PowerLoss
  BY <1>1, <1>5
     DEF PowerLoss, Inv, LeaseInv, FreshInv, PriorInv, AuditLink, Holds,
         Completed
<1>6. CASE UNCHANGED vars
  BY <1>1, <1>6
     DEF vars, Inv, LeaseInv, FreshInv, PriorInv, AuditLink, Holds, Completed,
         files, locals
<1> QED BY <1>2, <1>3, <1>4, <1>5, <1>6 DEF Next

LEMMA Invariance == Spec => []Inv
  BY InvInit, InvStep, PTL DEF Spec

\* Every variable keeps its type, for any number of callers and failures.
THEOREM TypeCorrect == Spec => []TypeOK
<1>1. Inv => TypeOK
  BY DEF Inv
<1> QED BY <1>1, Invariance, PTL

\* At most one run works under the key, and none once the key is completed,
\* even when the agent lock is lost while its holder works.
THEOREM AtMostOneRun == Spec => []OneRun
<1>1. Inv => OneRun
  BY DEF Inv, OneRun, Owns, LeaseInv, FreshInv, Holds
<1> QED BY <1>1, Invariance, PTL

\* The terminal marker always names a run whose audit record came first.
THEOREM AuditLinkKept == Spec => []AuditLink
<1>1. Inv => AuditLink
  BY DEF Inv
<1> QED BY <1>1, Invariance, PTL
-----------------------------------------------------------------------------
(***************************************************************************)
(* The ledger implements OnceKey.                                          *)
(***************************************************************************)

\* The key is running for the one caller that owns it.
LEMMA OwnerState ==
  ASSUME Inv, NEW c \in Callers, Owns(c)
  PROVE  KeyState = [phase |-> "running", run |-> run[c]]
<1>1. terminal = Absent /\ Holds(c)
  BY DEF Inv, FreshInv, Owns, Holds
<1>2. \A d \in Callers : Owns(d) => d = c
  BY <1>1 DEF Inv, LeaseInv, Owns, Holds
<1>3. (CHOOSE d \in Callers : Owns(d)) = c
  BY <1>2
<1> QED BY <1>1, <1>3 DEF KeyState, Completed

LEMMA NoOwnerState ==
  ASSUME terminal = Absent, \A c \in Callers : ~Owns(c)
  PROVE  KeyState = [phase |-> "fresh", run |-> NoRun]
  BY DEF KeyState, Completed

\* The same of the next state, where the owner is known to be the only one.
LEMMA OwnerStateNext ==
  ASSUME NEW c \in Callers, terminal' = Absent, Owns(c)',
         \A d \in Callers : Owns(d)' => d = c
  PROVE  KeyState' = [phase |-> "running", run |-> run'[c]]
<1>1. (CHOOSE d \in Callers : Owns(d)') = c
  OBVIOUS
<1> QED BY <1>1 DEF KeyState, Completed

\* A step that moves no caller into or out of ownership and leaves the marker
\* alone is a stutter of the key.
LEMMA SameState ==
  ASSUME Inv, terminal' = terminal,
         \A c \in Callers : Owns(c)' <=> Owns(c),
         \A c \in Callers : Owns(c) => run'[c] = run[c]
  PROVE  KeyState' = KeyState
<1>1. CASE Completed
  BY <1>1 DEF KeyState, Completed
<1>2. CASE ~Completed /\ \E c \in Callers : Owns(c)
  <2>1. PICK c \in Callers : Owns(c)
    BY <1>2
  <2>2. KeyState = [phase |-> "running", run |-> run[c]]
    BY <2>1, OwnerState
  <2>3. \A d \in Callers : Owns(d) => d = c
    BY <2>1 DEF Inv, LeaseInv, Owns, Holds
  <2>4. KeyState' = [phase |-> "running", run |-> run'[c]]
    BY <1>2, <2>1, <2>3, OwnerStateNext DEF Completed
  <2> QED BY <2>1, <2>2, <2>4
<1>3. CASE ~Completed /\ ~\E c \in Callers : Owns(c)
  BY <1>3 DEF KeyState, Completed
<1> QED BY <1>1, <1>2, <1>3

\* The owner fails, is killed or gives the key back.
LEMMA OwnerLeaves ==
  ASSUME Inv, NEW c \in Callers, terminal' = terminal, Owns(c), ~Owns(c)',
         \A d \in Callers : Owns(d)' => Owns(d)
  PROVE  [Key!Next]_KeyState
<1>1. KeyState = [phase |-> "running", run |-> run[c]]
  BY OwnerState
<1>2. terminal = Absent /\ \A d \in Callers : Owns(d) => d = c
  BY DEF Inv, FreshInv, LeaseInv, Owns, Holds
<1>3. KeyState' = [phase |-> "fresh", run |-> NoRun]
  BY <1>2 DEF KeyState, Completed
<1>4. Key!Abort
  BY <1>1, <1>3 DEF Key!Abort, Key!Fresh
<1> QED BY <1>4 DEF Key!Next

\* begin answers FRESH: nobody else owns the key.
LEMMA KeyBegins ==
  ASSUME Inv, NEW c \in Callers, BeginRecheck(c)
  PROVE  [Key!Next]_KeyState
<1> USE DEF At, Goto, Owns
<1>1. pc \in [Callers -> PCs] /\ run[c] \in Runs
  BY DEF Inv, TypeOK, BeginRecheck
<1>2. \A d \in Callers : ~Owns(d)
  BY DEF Inv, LeaseInv, Holds, BeginRecheck
<1>3. CASE Completed
  BY <1>1, <1>2, <1>3, SameState DEF BeginRecheck, files
<1>4. CASE ~Completed
  <2>1. Owns(c)' /\ (\A d \in Callers : Owns(d)' => d = c) /\ run' = run
    BY <1>1, <1>2, <1>4 DEF BeginRecheck
  <2>2. KeyState' = [phase |-> "running", run |-> run[c]]
    BY <1>4, <2>1, OwnerStateNext DEF Completed, BeginRecheck, files
  <2>3. KeyState = [phase |-> "fresh", run |-> NoRun]
    BY <1>2, <1>4, NoOwnerState DEF Completed
  <2>4. Key!Begin(run[c])
    BY <2>2, <2>3 DEF Key!Begin, Key!Fresh, Key!Running
  <2> QED BY <1>1, <2>4 DEF Key!Next
<1> QED BY <1>3, <1>4

\* commit writes the marker: the owner completes the key under its own run.
LEMMA KeyCommits ==
  ASSUME Inv, NEW c \in Callers, CommitWrite(c)
  PROVE  [Key!Next]_KeyState
<1> USE DEF At, Goto
<1>1. pc \in [Callers -> PCs] /\ run[c] \in Runs /\ prior[c] = run[c]
  BY DEF Inv, TypeOK, PriorInv, CommitWrite
<1>2. Owns(c)
  BY DEF Owns, CommitWrite
<1>3. CASE terminal' = prior[c]
  <2>1. KeyState = [phase |-> "running", run |-> run[c]]
    BY <1>2, OwnerState
  <2>2. KeyState' = [phase |-> "completed", run |-> run[c]]
    BY <1>1, <1>3, LedgerAssumption DEF KeyState, Completed
  <2>3. Key!Commit
    BY <2>1, <2>2 DEF Key!Commit, Key!Completed
  <2> QED BY <2>3 DEF Key!Next
<1>4. CASE terminal' = terminal /\ Goto(c, "release")
  BY <1>1, <1>2, <1>4, SameState DEF Owns, CommitWrite, locals
<1> QED BY <1>3, <1>4 DEF CommitWrite

LEMMA KeyStep ==
  ASSUME Inv, [Next]_vars
  PROVE  [Key!Next]_KeyState
<1> USE DEF At, Goto, files, locals, Fails, Quiet
<1> pc \in [Callers -> PCs] /\ run \in [Callers -> Runs \union {NoRun}]
  BY DEF Inv, TypeOK
<1>1. ASSUME NEW c \in Callers, Call(c) PROVE [Key!Next]_KeyState
  <2>1. CASE \E r \in Runs : Start(c, r)
    BY <2>1, SameState DEF Start, Owns
  <2>2. CASE Lookup(c)
    BY <2>2, SameState DEF Lookup, EndCall, Owns
  <2>3. CASE AcquireLock(c)
    BY <2>3, SameState DEF AcquireLock, Owns
  <2>4. CASE LockBusy(c)
    BY <2>4, SameState DEF LockBusy, EndCall, Owns
  <2>5. CASE CostGate(c)
    BY <2>5, SameState DEF CostGate, Owns
  <2>6. CASE Begin(c)
    <3>1. CASE BeginTerminal(c)
      BY <3>1, SameState DEF BeginTerminal, Owns
    <3>2. CASE BeginCreate(c)
      BY <3>2, SameState DEF BeginCreate, Owns
    <3>3. CASE BeginFill(c)
      BY <3>3, SameState DEF BeginFill, Owns
    <3>4. CASE BeginRecheck(c)
      BY <3>4, KeyBegins
    <3>5. CASE BeginSpurious(c)
      BY <3>5, SameState DEF BeginSpurious, Owns
    <3>6. CASE BeginExists(c)
      BY <3>6, SameState DEF BeginExists, Owns
    <3>7. CASE BeginInFlight(c)
      BY <3>7, SameState DEF BeginInFlight, Owns
    <3> QED BY <2>6, <3>1, <3>2, <3>3, <3>4, <3>5, <3>6, <3>7 DEF Begin
  <2>7. CASE Work(c)
    BY <2>7, SameState DEF Work, Owns
  <2>8. CASE Log(c)
    BY <2>8, SameState DEF Log, Owns
  <2>9. CASE Commit(c)
    <3>1. CASE CommitLease(c)
      BY <3>1, SameState DEF CommitLease, Owns
    <3>2. CASE CommitCheck(c)
      <4>1. terminal = Absent
        BY <3>2 DEF CommitCheck, Inv, FreshInv
      <4> QED BY <3>2, <4>1, SameState DEF CommitCheck, Completed, Owns
    <3>3. CASE CommitWrite(c)
      BY <3>3, KeyCommits
    <3>4. CASE CommitUnlink(c)
      BY <3>4, SameState DEF CommitUnlink, Owns
    <3> QED BY <2>9, <3>1, <3>2, <3>3, <3>4 DEF Commit
  <2>10. CASE ReleaseLease(c)
    BY <2>10, OwnerLeaves DEF ReleaseLease, Owns
  <2>11. CASE Unlock(c)
    BY <2>11, SameState DEF Unlock, EndCall, Owns
  <2> QED
    BY <1>1, <2>1, <2>2, <2>3, <2>4, <2>5, <2>6, <2>7, <2>8, <2>9, <2>10, <2>11
       DEF Call
<1>2. ASSUME NEW c \in Callers, Crash(c) PROVE [Key!Next]_KeyState
  <2>1. terminal' = terminal /\ pc' = [pc EXCEPT ![c] = "idle"]
        /\ run' = [run EXCEPT ![c] = NoRun]
    BY <1>2 DEF Crash, EndCall
  <2>2. CASE Owns(c)
    BY <2>1, <2>2, OwnerLeaves DEF Owns
  <2>3. CASE ~Owns(c)
    BY <2>1, <2>3, SameState DEF Owns
  <2> QED BY <2>2, <2>3
<1>3. CASE LockExpires
  BY <1>3, SameState DEF LockExpires, Owns
<1>4. CASE PowerLoss
  <2>1. terminal' = terminal /\ \A c \in Callers : ~Owns(c)'
    BY <1>4 DEF PowerLoss, Owns
  <2>2. CASE \E c \in Callers : Owns(c)
    BY <2>1, <2>2, OwnerLeaves
  <2>3. CASE ~\E c \in Callers : Owns(c)
    BY <2>1, <2>3, SameState
  <2> QED BY <2>2, <2>3
<1>5. CASE UNCHANGED vars
  BY <1>5, SameState DEF vars, Owns
<1> QED BY <1>1, <1>2, <1>3, <1>4, <1>5 DEF Next

\* The ledger implements the abstract key: never two runs at a time, never a
\* second completion, and the first completion is never rewritten.
THEOREM Implements == Spec => ImplementsOnceKey
<1>1. Init => Key!Init
  BY DEF Init, Key!Init, Key!Fresh, KeyState, Completed, Owns
<1>2. Inv /\ [Next]_vars => [Key!Next]_KeyState
  BY KeyStep
<1> QED BY <1>1, <1>2, Invariance, PTL DEF Spec, ImplementsOnceKey, Key!Spec
=============================================================================
