--------------------------- MODULE WorkQueueProofs ---------------------------
(***************************************************************************)
(* Theorems about WorkQueue, for every value of its constants.             *)
(***************************************************************************)
EXTENDS WorkQueue, TLAPS

USE JobAssumption, TimeAssumption

File == [job: Jobs \union {Phantom, Null}, mtime: Nat]

SidecarRec == [state: {"absent", "torn", "valid"}, exp: Nat]

\* The values the steps write have their types.
LEMMA Records ==
  /\ NoFile \in File /\ NoSidecar \in SidecarRec /\ Torn \in SidecarRec
  /\ \A j \in Jobs \union {Phantom}, n \in Nat :
       [job |-> j, mtime |-> n] \in File
  BY DEF NoFile, File, NoSidecar, Torn, SidecarRec

LEMMA InitType == Init => TypeOK
  BY DEF Init, TypeOK, TreeOK, WorkerOK, SweepOK, NoFile, NoSidecar, WorkerPC,
         SweepPC, Loc, WorkLoc, QueuedLoc, ClaimedLoc, RecoveredLoc, FinalLoc

\* A rename keeps the tree well-typed.
LEMMA MoveType ==
  ASSUME fs \in [Loc -> File], NEW l \in Loc, NEW m, Move(l, m)
  PROVE  fs' \in [Loc -> File]
  BY DEF Move, NoFile, File

\* Leaving a session keeps the workers well-typed.
LEMMA EndSessionType ==
  ASSUME WorkerOK, NEW w \in Workers, EndSession(w)
  PROVE  WorkerOK'
  BY DEF WorkerOK, EndSession, Goto, WorkerPC

LEMMA SidecarType ==
  ASSUME TypeOK, NEW w \in Workers, NEW from \in {"open", "held"},
         OpenSidecar(w, from)
  PROVE  TypeOK'
<1>1. now + LeaseSeconds \in Nat
  BY DEF TypeOK, TreeOK
<1>2. SweepOK'
  BY DEF OpenSidecar, TypeOK, SweepOK, sweep
<1>3. TreeOK'
  BY DEF OpenSidecar, TypeOK, TreeOK, Torn, clock
<1>4. WorkerOK'
  BY <1>1 DEF OpenSidecar, TypeOK, WorkerOK, Goto, WorkerPC
<1> QED BY <1>2, <1>3, <1>4 DEF TypeOK

\* Each step of claim_next.
LEMMA ClaimType ==
  ASSUME TypeOK, NEW w \in Workers, Claim(w)
  PROVE  TypeOK'
<1> USE DEF TypeOK, clock, tree, sweep
<1>1. CASE \E t \in Tokens : ClaimMkdir(w, t)
  BY <1>1 DEF ClaimMkdir, TreeOK, WorkerOK, SweepOK, Goto, WorkerPC
<1>2. CASE ClaimScan(w)
  BY <1>2 DEF ClaimScan, TreeOK, WorkerOK, SweepOK, Goto, WorkerPC
<1>3. CASE ClaimPlaceholder(w)
  <2>1. PICK n \in Names :
          /\ fs' = [fs EXCEPT ![Claimed(tok[w], n)] =
                                 [job |-> Phantom, mtime |-> now]]
          /\ at' = [at EXCEPT ![w] = Claimed(tok[w], n)]
    BY <1>3 DEF ClaimPlaceholder, WorkerOK
  <2>2. tok[w] \in Tokens /\ Claimed(tok[w], n) \in WorkLoc
    BY <1>3 DEF ClaimPlaceholder, WorkerOK, Claimed, WorkLoc, ClaimedLoc
  <2>3. now \in Nat
    BY DEF TreeOK
  <2>4. fs' \in [Loc -> File]
    BY <2>1, <2>3, Records DEF TreeOK, File
  <2>5. TreeOK'
    BY <1>3, <2>4 DEF ClaimPlaceholder, TreeOK, File
  <2>6. WorkerOK'
    BY <1>3, <2>1, <2>2 DEF ClaimPlaceholder, WorkerOK, Goto, WorkerPC, Claimed
  <2> QED BY <1>3, <2>5, <2>6 DEF ClaimPlaceholder, SweepOK
<1>4. CASE ClaimRaises(w)
  BY <1>4 DEF ClaimRaises, TreeOK, WorkerOK, SweepOK, Goto, WorkerPC
<1>5. CASE ClaimRename(w)
  <2> DEFINE src == Queued(at[w][3])
  <2>1. at[w] \in WorkLoc /\ at[w][3] \in Names /\ tok[w] \in Tokens
    BY <1>5 DEF ClaimRename, WorkerOK, WorkLoc, ClaimedLoc, RecoveredLoc
  <2>2. src \in Loc
    BY <2>1 DEF Queued, QueuedLoc, Loc
  <2>3. fs' \in [Loc -> File]
    BY <1>5, <2>2, MoveType DEF ClaimRename, TreeOK, File
  <2>4. claims' \in [Jobs -> Nat]
    <3> DEFINE c == fs[src].job
    <3>1. claims' = [claims EXCEPT ![c] = claims[c] + 1]
      BY <1>5 DEF ClaimRename
    <3>2. \A j \in Jobs : claims[j] + 1 \in Nat
      BY DEF TreeOK
    <3> QED BY <3>1, <3>2 DEF TreeOK
  <2>5. TreeOK'
    BY <1>5, <2>1, <2>3, <2>4 DEF ClaimRename, TreeOK, File
  <2> QED BY <1>5, <2>5 DEF ClaimRename, WorkerOK, SweepOK, Goto, WorkerPC
<1>6. CASE ClaimLostRace(w)
  BY <1>6 DEF ClaimLostRace, TreeOK, WorkerOK, SweepOK, Goto, WorkerPC, NoFile
<1>7. CASE ClaimRenameFails(w)
  <2>1. TreeOK'
    <3>1. fs' \in [Loc -> File]
      BY <1>7, Records DEF ClaimRenameFails, TreeOK, File
    <3>2. faults' \in 0..MaxFaults
      BY <1>7 DEF ClaimRenameFails, Fault, TreeOK
    <3> QED BY <1>7, <3>1, <3>2 DEF ClaimRenameFails, TreeOK, File
  <2> QED BY <1>7, <2>1 DEF ClaimRenameFails, WorkerOK, SweepOK, Goto, WorkerPC
<1>8. CASE ClaimNone(w)
  BY <1>8, EndSessionType DEF ClaimNone, TreeOK, SweepOK
<1>9. CASE ClaimSidecar(w)
  BY <1>9, SidecarType DEF ClaimSidecar
<1>10. CASE WriteSidecar(w)
  BY <1>10 DEF WriteSidecar, Valid, TreeOK, WorkerOK, SweepOK, Goto, WorkerPC
<1> QED BY <1>1, <1>2, <1>3, <1>4, <1>5, <1>6, <1>7, <1>8, <1>9, <1>10 DEF Claim

\* release and move_to_dead_letter.
LEMMA FinishType ==
  ASSUME TypeOK, NEW w \in Workers, NEW kind \in {"done", "dead"},
         Finish(w, kind)
  PROVE  TypeOK'
<1> USE DEF TypeOK, clock, tree, sweep
<1>1. at[w] \in Loc
  BY DEF Finish, WorkerOK, Loc
<1>2. fs' \in [Loc -> File]
  BY <1>1, MoveType DEF Finish, TreeOK, File
<1>3. TreeOK'
  BY <1>2 DEF Finish, TreeOK, File
<1>4. WorkerOK'
  BY EndSessionType DEF Finish, WorkerOK, Goto, WorkerPC
<1> QED BY <1>3, <1>4 DEF Finish, SweepOK

\* The other steps of a worker.
LEMMA WorkerType ==
  ASSUME TypeOK, NEW w \in Workers,
         \/ Renew(w) \/ Complete(w) \/ Restart(w) \/ Crash(w)
         \/ \E l \in RecoveredLoc : Adopt(w, l)
  PROVE  TypeOK'
<1> USE DEF TypeOK, clock, tree, sweep
<1>1. CASE Renew(w)
  BY <1>1, SidecarType DEF Renew
<1>2. CASE Release(w) \/ DeadLetter(w)
  BY <1>2, FinishType DEF Release, DeadLetter
<1>3. CASE UnlinkSidecar(w)
  BY <1>3, EndSessionType DEF UnlinkSidecar, TreeOK, SweepOK, NoSidecar
<1>4. CASE Restart(w)
  BY <1>4, EndSessionType DEF Restart, TreeOK, SweepOK
<1>5. CASE Crash(w)
  <2>1. tok[w] \in Tokens \union {Null}
    BY DEF WorkerOK
  <2>2. TreeOK'
    BY <1>5, <2>1 DEF Crash, Fault, TreeOK
  <2> QED BY <1>5, <2>2, EndSessionType DEF Crash, SweepOK
<1>6. ASSUME NEW l \in RecoveredLoc, Adopt(w, l)
      PROVE  TypeOK'
  <2>1. l \in WorkLoc /\ l[2] \in Tokens
    BY DEF RecoveredLoc, WorkLoc
  <2> QED BY <1>6, <2>1 DEF Adopt, TreeOK, WorkerOK, SweepOK, Goto, WorkerPC
<1> QED BY <1>1, <1>2, <1>3, <1>4, <1>5, <1>6 DEF Complete

LEMMA EndSweepType ==
  ASSUME TypeOK, NEW r \in Recoverers, EndSweep(r), Fault \/ UNCHANGED faults,
         returned' \subseteq RecoveredLoc
  PROVE  TypeOK'
<1>1. TreeOK'
  BY DEF TypeOK, EndSweep, tree, TreeOK, Fault
<1>2. WorkerOK'
  BY DEF TypeOK, EndSweep, worker, WorkerOK
<1>3. SweepOK'
  BY DEF TypeOK, EndSweep, SweepOK, SweepGoto, SweepPC
<1> QED BY <1>1, <1>2, <1>3 DEF TypeOK

\* Each step of recover_stale_claims.
LEMMA SweepType ==
  ASSUME TypeOK, NEW r \in Recoverers, Sweep(r) \/ SweepCrash(r)
  PROVE  TypeOK'
<1> USE DEF TypeOK, clock, tree, worker
<1>1. CASE SweepStart(r)
  BY <1>1 DEF SweepStart, TreeOK, WorkerOK, SweepOK, SweepGoto, SweepPC
<1>2. CASE \E t \in Tokens : SweepEnter(r, t)
  <2>1. SweepOK'
    BY <1>2 DEF SweepEnter, SweepOK, SweepGoto, SweepPC
  <2> QED BY <1>2, <2>1 DEF SweepEnter, TreeOK, WorkerOK
<1>3. CASE SweepList(r)
  BY <1>3 DEF SweepList, TreeOK, WorkerOK, SweepOK, SweepGoto, SweepPC
<1>4. CASE SweepRaises(r)
  BY <1>4, EndSweepType DEF SweepRaises, TreeOK
<1>5. CASE \E n \in Names : SweepFile(r, n)
  <2>1. PICK n \in Names : SweepFile(r, n)
    BY <1>5
  <2>2. Claimed(cur[r], n) \in ClaimedLoc
    BY <2>1 DEF SweepFile, SweepOK, Claimed, ClaimedLoc
  <2>3. SweepOK'
    BY <2>1, <2>2 DEF SweepFile, SweepOK, SweepGoto, SweepPC
  <2> QED BY <2>1, <2>3 DEF SweepFile, TreeOK, WorkerOK
<1>6. CASE SweepRename(r)
  <2> DEFINE m == <<"recovered", hit[r][2], hit[r][3]>>
  <2>1. hit[r] \in ClaimedLoc /\ hit[r] \in Loc
    BY <1>6 DEF SweepRename, SweepOK, Loc, WorkLoc
  <2>2. m \in RecoveredLoc
    BY <2>1 DEF ClaimedLoc, RecoveredLoc
  <2>3. fs' \in [Loc -> File]
    BY <1>6, <2>1, MoveType DEF SweepRename, TreeOK, File
  <2>4. TreeOK'
    BY <1>6, <2>3 DEF SweepRename, TreeOK, File
  <2>5. SweepOK'
    <3>1. CASE Exists(hit[r])
      <4>1. found' = [found EXCEPT ![r] = found[r] \union {m}]
        BY <1>6, <3>1 DEF SweepRename
      <4>2. found' \in [Recoverers -> SUBSET RecoveredLoc]
        BY <2>2, <4>1 DEF SweepOK
      <4> QED BY <1>6, <2>1, <3>1, <4>2
         DEF SweepRename, SweepOK, SweepGoto, SweepPC
    <3>2. CASE ~Exists(hit[r])
      <4>1. cur[r] \in Tokens
        BY <1>6 DEF SweepRename, SweepOK
      <4> QED BY <1>6, <3>2, <4>1 DEF SweepRename, SweepOK, SweepGoto, SweepPC
    <3> QED BY <3>1, <3>2
  <2> QED BY <1>6, <2>4, <2>5 DEF SweepRename, WorkerOK
<1>7. CASE SweepUnlink(r)
  <2>1. TreeOK'
    <3>1. sidecar' \in [WorkLoc -> SidecarRec]
      BY <1>7, Records DEF SweepUnlink, TreeOK, SidecarRec
    <3> QED BY <1>7, <3>1 DEF SweepUnlink, TreeOK, SidecarRec
  <2> QED BY <1>7, <2>1 DEF SweepUnlink, WorkerOK, SweepOK, SweepGoto, SweepPC
<1>8. CASE SweepRmdir(r)
  BY <1>8 DEF SweepRmdir, TreeOK, WorkerOK, SweepOK, SweepGoto, SweepPC
<1>9. CASE SweepEnd(r)
  BY <1>9, EndSweepType DEF SweepEnd, TreeOK, SweepOK
<1>10. CASE SweepCrash(r)
  BY <1>10, EndSweepType DEF SweepCrash, TreeOK
<1> QED BY <1>1, <1>2, <1>3, <1>4, <1>5, <1>6, <1>7, <1>8, <1>9, <1>10 DEF Sweep

LEMMA EnqueueType ==
  ASSUME TypeOK, NEW j \in Jobs, Enqueue(j)
  PROVE  TypeOK'
<1>1. TreeOK'
  <2>1. now \in Nat
    BY DEF TypeOK, TreeOK
  <2>2. fs' \in [Loc -> File]
    BY <2>1, Records DEF Enqueue, TypeOK, TreeOK, File
  <2> QED BY <2>2 DEF Enqueue, TypeOK, TreeOK, clock, File
<1> QED BY <1>1 DEF Enqueue, TypeOK, WorkerOK, SweepOK, worker, sweep

\* In every reachable state the variables have their types, and every process
\* in the middle of an operation has the path that operation works on.
THEOREM TypeCorrect == Spec => []TypeOK
<1>1. TypeOK /\ [Next]_vars => TypeOK'
  <2> SUFFICES ASSUME TypeOK, [Next]_vars PROVE TypeOK'
    OBVIOUS
  <2>1. CASE Tick
    BY <2>1 DEF Tick, TypeOK, TreeOK, WorkerOK, SweepOK, tree, worker, sweep
  <2>2. CASE UNCHANGED vars
    BY <2>2
       DEF vars, TypeOK, TreeOK, WorkerOK, SweepOK, clock, tree, worker, sweep
  <2> QED BY <2>1, <2>2, EnqueueType, ClaimType, WorkerType, SweepType DEF Next
<1> QED BY <1>1, InitType, PTL DEF Spec
-----------------------------------------------------------------------------
\* ClaimedOnce is not inductive: the claim that takes a job from queued/ must
\* leave no other copy there (OneCopy), and enqueue must bring in a job that
\* was neither in the tree nor claimed before.
CopyInv ==
  /\ OneCopy
  /\ ClaimedOnce
  /\ \A l \in Loc : fs[l].job \in Jobs => fs[l].job \in produced
  /\ \A j \in Jobs : j \notin produced => claims[j] = 0

\* A step that only removes files, or adds placeholders, keeps CopyInv.
LEMMA ShrinkKeeps ==
  ASSUME TypeOK, CopyInv, UNCHANGED <<produced, claims>>,
         \A l \in Loc : fs'[l].job = fs[l].job \/ fs'[l].job \notin Jobs
  PROVE  CopyInv'
<1>1. OneCopy'
  BY DEF CopyInv, OneCopy
<1>2. ClaimedOnce'
  BY DEF CopyInv, ClaimedOnce, Loc
<1> QED BY <1>1, <1>2 DEF CopyInv

\* A rename to anywhere but queued/ keeps CopyInv.
LEMMA MoveKeeps ==
  ASSUME TypeOK, CopyInv, UNCHANGED <<produced, claims>>,
         NEW l \in Loc, NEW m, m \notin QueuedLoc, Move(l, m)
  PROVE  CopyInv'
<1>1. \A k \in Loc :
        fs'[k] = IF k = m THEN fs[l] ELSE IF k = l THEN NoFile ELSE fs[k]
  BY DEF TypeOK, TreeOK, Move
<1>2. NoFile.job \notin Jobs
  BY DEF NoFile
<1>3. OneCopy'
  BY <1>1, <1>2 DEF CopyInv, OneCopy
<1>4. ClaimedOnce'
  BY <1>1, <1>2 DEF CopyInv, ClaimedOnce, Loc
<1> QED BY <1>1, <1>2, <1>3, <1>4 DEF CopyInv

LEMMA ClaimRenameKeeps ==
  ASSUME TypeOK, CopyInv, NEW w \in Workers, ClaimRename(w)
  PROVE  CopyInv'
<1> DEFINE src == Queued(at[w][3])
<1> DEFINE c == fs[src].job
<1>1. at[w] \in WorkLoc /\ src \in QueuedLoc /\ src \in Loc /\ at[w] \in Loc
  BY
     DEF ClaimRename, TypeOK, WorkerOK, WorkLoc, ClaimedLoc, RecoveredLoc,
         Queued,
         QueuedLoc, Loc
<1>2. at[w] \notin QueuedLoc
  BY <1>1 DEF WorkLoc, ClaimedLoc, RecoveredLoc, QueuedLoc
<1>3. \A k \in Loc :
        fs'[k] = IF k = at[w] THEN fs[src]
                 ELSE IF k = src THEN NoFile ELSE fs[k]
  BY <1>1 DEF ClaimRename, TypeOK, TreeOK, Move
<1>4. NoFile.job \notin Jobs
  BY DEF NoFile
<1>5. \A j \in Jobs : claims'[j] = IF j = c THEN claims[j] + 1 ELSE claims[j]
  BY DEF ClaimRename, TypeOK, TreeOK
<1>6. c \in Jobs => claims[c] = 0
  BY <1>1 DEF CopyInv, ClaimedOnce
<1>7. OneCopy'
  BY <1>1, <1>3, <1>4 DEF CopyInv, OneCopy
<1>8. ClaimedOnce'
  <2>1. \A j \in Jobs : claims'[j] <= 1
    BY <1>5, <1>6 DEF CopyInv, ClaimedOnce
  <2>2. ASSUME NEW k \in QueuedLoc, NEW j \in Jobs, fs'[k].job = j
        PROVE  claims'[j] = 0
    <3>1. k \in Loc /\ k # at[w] /\ k # src /\ fs[k].job = j
      BY <1>2, <1>3, <1>4, <2>2 DEF Loc
    <3>2. j # c
      BY <1>1, <3>1 DEF CopyInv, OneCopy
    <3> QED BY <1>5, <3>1, <3>2 DEF CopyInv, ClaimedOnce
  <2> QED BY <2>1, <2>2 DEF ClaimedOnce
<1>9. produced' = produced /\ (c \in Jobs => c \in produced)
  BY <1>1 DEF ClaimRename, CopyInv
<1> QED BY <1>1, <1>3, <1>4, <1>5, <1>7, <1>8, <1>9 DEF CopyInv

LEMMA EnqueueKeeps ==
  ASSUME TypeOK, CopyInv, NEW j \in Jobs, Enqueue(j)
  PROVE  CopyInv'
<1> DEFINE q == Queued(NameOf[j])
<1>1. \A k \in Loc : fs'[k].job = IF k = q THEN j ELSE fs[k].job
  BY DEF Enqueue, TypeOK, TreeOK
<1>2. \A k \in Loc : fs[k].job # j
  BY DEF Enqueue, CopyInv
<1>3. OneCopy'
  BY <1>1, <1>2 DEF CopyInv, OneCopy
<1>4. claims' = claims /\ claims[j] = 0
  BY DEF Enqueue, CopyInv
<1>5. ClaimedOnce'
  BY <1>1, <1>4 DEF CopyInv, ClaimedOnce, Loc
<1>6. produced' = produced \union {j}
  BY DEF Enqueue
<1> QED BY <1>1, <1>3, <1>4, <1>5, <1>6 DEF CopyInv

\* The steps of a worker, one by one.
LEMMA WorkerKeeps ==
  ASSUME TypeOK, CopyInv, NEW w \in Workers,
         \/ Claim(w) \/ Renew(w) \/ Complete(w) \/ Restart(w) \/ Crash(w)
         \/ \E l \in RecoveredLoc : Adopt(w, l)
  PROVE  CopyInv'
<1> USE DEF tree, clock
<1>1. CASE ClaimPlaceholder(w)
  <2>1. PICK n \in Names : fs' = [fs EXCEPT ![Claimed(tok[w], n)] =
                                               [job |-> Phantom, mtime |-> now]]
    BY <1>1 DEF ClaimPlaceholder, TypeOK, WorkerOK
  <2>2. \A l \in Loc : fs'[l].job = fs[l].job \/ fs'[l].job \notin Jobs
    BY <2>1 DEF TypeOK, TreeOK
  <2> QED BY <1>1, <2>2, ShrinkKeeps DEF ClaimPlaceholder
<1>2. CASE ClaimRename(w)
  BY <1>2, ClaimRenameKeeps
<1>3. CASE ClaimLostRace(w) \/ ClaimRenameFails(w)
  <2>1. \A l \in Loc : fs'[l].job = fs[l].job \/ fs'[l].job \notin Jobs
    BY <1>3 DEF ClaimLostRace, ClaimRenameFails, TypeOK, TreeOK, NoFile
  <2>2. UNCHANGED <<produced, claims>>
    BY <1>3 DEF ClaimLostRace, ClaimRenameFails
  <2> QED BY <2>1, <2>2, ShrinkKeeps
<1>4. CASE Release(w) \/ DeadLetter(w)
  <2>1. PICK kind \in {"done", "dead"} : Finish(w, kind)
    BY <1>4 DEF Release, DeadLetter
  <2> DEFINE m == <<kind, tok[w], at[w][3]>>
  <2>2. at[w] \in Loc /\ m \notin QueuedLoc /\ UNCHANGED <<produced, claims>>
    BY <2>1 DEF Finish, TypeOK, WorkerOK, Loc, QueuedLoc
  <2>3. CASE Exists(at[w])
    BY <2>1, <2>2, <2>3, MoveKeeps DEF Finish
  <2>4. CASE ~Exists(at[w])
    BY <2>1, <2>2, <2>4, ShrinkKeeps DEF Finish
  <2> QED BY <2>3, <2>4
<1>5. CASE UNCHANGED <<fs, produced, claims>>
  BY <1>5, ShrinkKeeps
<1>6. \/ ClaimPlaceholder(w) \/ ClaimRename(w) \/ ClaimLostRace(w)
      \/ ClaimRenameFails(w) \/ Release(w) \/ DeadLetter(w)
      \/ UNCHANGED <<fs, produced, claims>>
  BY DEF Claim, ClaimMkdir, ClaimScan, ClaimRaises, ClaimNone, ClaimSidecar,
         OpenSidecar, WriteSidecar, Renew, Complete, UnlinkSidecar, Restart,
         Crash, Adopt
<1> QED BY <1>1, <1>2, <1>3, <1>4, <1>5, <1>6

LEMMA SweepKeeps ==
  ASSUME TypeOK, CopyInv, NEW r \in Recoverers, Sweep(r) \/ SweepCrash(r)
  PROVE  CopyInv'
<1> USE DEF tree, clock
<1>1. CASE SweepRename(r) /\ Exists(hit[r])
  <2> DEFINE m == <<"recovered", hit[r][2], hit[r][3]>>
  <2>1. hit[r] \in Loc /\ m \notin QueuedLoc
    BY <1>1 DEF SweepRename, TypeOK, SweepOK, Loc, WorkLoc, QueuedLoc
  <2> QED BY <1>1, <2>1, MoveKeeps DEF SweepRename
<1>2. CASE UNCHANGED <<fs, produced, claims>>
  BY <1>2, ShrinkKeeps
<1>3. (SweepRename(r) /\ Exists(hit[r])) \/ UNCHANGED <<fs, produced, claims>>
  BY DEF Sweep, SweepStart, SweepEnter, SweepList, SweepRaises, SweepFile,
         SweepRename, SweepUnlink, SweepRmdir, SweepEnd, SweepCrash, EndSweep
<1> QED BY <1>1, <1>2, <1>3

\* CopyInv holds in every reachable state.
LEMMA Copies == Spec => []CopyInv
<1>1. Init => CopyInv
  BY DEF Init, CopyInv, OneCopy, ClaimedOnce, NoFile, Loc
<1>2. TypeOK /\ CopyInv /\ [Next]_vars => CopyInv'
  <2> SUFFICES ASSUME TypeOK, CopyInv, [Next]_vars PROVE CopyInv'
    OBVIOUS
  <2>1. CASE Tick \/ UNCHANGED vars
    BY <2>1, ShrinkKeeps DEF Tick, vars, tree
  <2> QED BY <2>1, EnqueueKeeps, WorkerKeeps, SweepKeeps DEF Next
<1> QED BY <1>1, <1>2, TypeCorrect, PTL DEF Spec

\* No rename, lost race, recovery or crash duplicates a work item.
THEOREM NoDuplicates == Spec => []OneCopy
  BY Copies, PTL DEF CopyInv

\* spec/44 MUST 4 and 9: claim_next gives a job to at most one caller ever.
THEOREM NoDoubleClaim == Spec => []ClaimedOnce
  BY Copies, PTL DEF CopyInv
-----------------------------------------------------------------------------
(***************************************************************************)
(* The queue implements WorkItem.  A work item has one file (OneCopy), so  *)
(* its state is the directory that file is in, and a rename is the one     *)
(* transition it looks like -- provided the rename lands on no other item. *)
(* Nothing checks that: rename(2) replaces its target.  ItemInv says why   *)
(* it does not happen.  A token that got an item, or whose process died,   *)
(* is spent; files in a token's directories belong to a spent token or are *)
(* the placeholder of the one worker that searches under that token        *)
(* (FileInv, SearchInv); recoveries, recovered items and sidecars belong   *)
(* to spent tokens (SpentInv), because a placeholder is younger than a     *)
(* lease (PlaceInv) and has no sidecar, so that no recovery takes it for   *)
(* a stale item.  Hence a token has one file at most (OneFile).            *)
(***************************************************************************)
TokenLoc  == WorkLoc \union FinalLoc
Searching == {"scan", "place", "rename", "rmdir"}
Working   == {"open", "write", "held", "unlink"}

\* A worker that looks for an item is alone with a token nobody used up.
SearchInv == \A w \in Workers : pc[w] \in Searching =>
  /\ tok[w] \notin spent
  /\ \A v \in Workers : pc[v] # "idle" /\ tok[v] = tok[w] => v = w

\* Items in hand, reported, about to be recovered or leased are of spent tokens.
SpentInv ==
  /\ \A w \in Workers : pc[w] \in Working => tok[w] \in spent
  /\ \A l \in returned : l[2] \in spent
  /\ \A r \in Recoverers : \A l \in found[r] : l[2] \in spent
  /\ \A r \in Recoverers : spc[r] = "reclaim" => hit[r][2] \in spent
  /\ \A l \in WorkLoc : sidecar[l] # NoSidecar => l[2] \in spent

\* The target of a claim's rename is the claim's own young placeholder.
PlaceInv == \A w \in Workers : pc[w] = "rename" =>
  /\ at[w] \in ClaimedLoc
  /\ fs[at[w]].job = Phantom
  /\ now < fs[at[w]].mtime + LeaseSeconds

\* Every file under a token is the token's item, or a placeholder in use.
FileInv == \A l \in TokenLoc : Exists(l) =>
  l[2] \in spent \/ \E w \in Workers : pc[w] = "rename" /\ at[w] = l

OneFile == \A l, m \in TokenLoc :
  Exists(l) /\ Exists(m) /\ l[2] = m[2] => l = m

QueueInv == \A n \in Names : Exists(Queued(n)) =>
  fs[Queued(n)].job \in Jobs /\ NameOf[fs[Queued(n)].job] = n

ClockInv == \A r \in Recoverers : snow[r] <= now

ItemInv == /\ SearchInv /\ SpentInv /\ PlaceInv
           /\ FileInv /\ OneFile /\ QueueInv /\ ClockInv

\* queued/, and the files of the tokens, are disjoint parts of the tree.
LEMMA Places ==
  /\ Loc = QueuedLoc \union TokenLoc
  /\ \A l \in TokenLoc : l \in Loc /\ l \notin QueuedLoc /\ l[2] \in Tokens
  /\ \A n \in Names : Queued(n) \in QueuedLoc /\ Queued(n) \in Loc /\ Queued(n)[3] = n
  /\ \A l \in QueuedLoc : l = Queued(l[3]) /\ l[3] \in Names
  /\ \A t \in Tokens, n \in Names :
       /\ Claimed(t, n) \in ClaimedLoc /\ Claimed(t, n)[2] = t
       /\ <<"recovered", t, n>> \in TokenLoc
       /\ <<"done", t, n>> \in TokenLoc /\ <<"dead", t, n>> \in TokenLoc
  /\ ClaimedLoc \subseteq TokenLoc /\ RecoveredLoc \subseteq TokenLoc
  /\ WorkLoc \subseteq TokenLoc
  BY DEF Loc, TokenLoc, WorkLoc, FinalLoc, QueuedLoc, ClaimedLoc, RecoveredLoc,
         Queued, Claimed

\* A step of w that leaves the tree's work files alone: what it does to its own
\* session, and that it disturbs no other worker and no recovery.
QuietStep(w) ==
  /\ UNCHANGED <<now, fs, snow, found, spc, hit>>
  /\ \A v \in Workers : v # w => /\ pc'[v] = pc[v] /\ tok'[v] = tok[v]
                                 /\ at'[v] = at[v]
  /\ spent \subseteq spent' /\ spent' \subseteq spent \union {tok[w]}
  /\ returned' \subseteq returned
  /\ pc'[w] # "rename" /\ (pc[w] = "rename" => tok[w] \in spent')
  /\ \/ /\ pc'[w] = "scan" /\ tok'[w] \notin spent' /\ spent' = spent
        /\ \A v \in Workers : tok[v] # tok'[w]
     \/ /\ pc[w] # "idle" /\ tok'[w] = tok[w] /\ spent' = spent
        /\ pc'[w] \in Searching => pc[w] \in Searching
        /\ pc'[w] \in Working => pc[w] \in Working
     \/ /\ pc[w] # "idle" /\ pc'[w] = "idle"
     \/ /\ pc[w] = "idle" /\ pc'[w] = "held" /\ spent' = spent
        /\ tok'[w] \in spent
  /\ \A l \in WorkLoc : sidecar'[l] # NoSidecar =>
       sidecar[l] # NoSidecar \/ (pc[w] \in Working /\ l = at[w])

LEMMA QuietKeeps ==
  ASSUME TypeOK, TypeOK', ItemInv, NEW w \in Workers, QuietStep(w)
  PROVE  ItemInv'
<1> USE DEF ItemInv
<1>1. SearchInv'
  BY DEF QuietStep, SearchInv, SpentInv, TypeOK, WorkerOK, Searching, Working
<1>2. SpentInv'
  <2>1. \A v \in Workers : pc'[v] \in Working => tok'[v] \in spent'
    BY DEF QuietStep, SpentInv, Working
  <2>2. \A l \in WorkLoc : sidecar'[l] # NoSidecar => l[2] \in spent'
    <3>1. pc[w] \in Working => tok[w] = at[w][2]
      BY DEF TypeOK, WorkerOK, Working
    <3> QED BY <3>1 DEF QuietStep, SpentInv
  <2> QED BY <2>1, <2>2 DEF QuietStep, SpentInv
<1>3. PlaceInv'
  BY DEF QuietStep, PlaceInv
<1>4. FileInv'
  <2>1. ASSUME NEW l \in TokenLoc, Exists(l)', l[2] \notin spent'
        PROVE  \E v \in Workers : pc'[v] = "rename" /\ at'[v] = l
    <3>1. Exists(l) /\ l[2] \notin spent
      BY <2>1 DEF QuietStep, Exists
    <3>2. PICK v \in Workers : pc[v] = "rename" /\ at[v] = l
      BY <3>1 DEF FileInv
    <3>3. tok[v] = l[2]
      BY <3>2 DEF TypeOK, WorkerOK
    <3>4. v # w
      BY <2>1, <3>2, <3>3 DEF QuietStep
    <3> QED BY <3>2, <3>4 DEF QuietStep
  <2> QED BY <2>1 DEF FileInv
<1>5. OneFile' /\ QueueInv'
  BY DEF QuietStep, OneFile, QueueInv, Exists
<1>6. ClockInv'
  BY DEF QuietStep, ClockInv
<1> QED BY <1>1, <1>2, <1>3, <1>4, <1>5, <1>6

\* The quiet steps of a worker.
LEMMA QuietSteps ==
  ASSUME TypeOK, ItemInv, ~ReuseTokens, NEW w \in Workers,
         \/ Claim(w) \/ Renew(w) \/ Complete(w) \/ Restart(w) \/ Crash(w)
         \/ \E l \in RecoveredLoc : Adopt(w, l)
  PROVE  \/ QuietStep(w)
         \/ ClaimPlaceholder(w) \/ ClaimRename(w)
         \/ ClaimLostRace(w) \/ ClaimRenameFails(w)
         \/ (Release(w) \/ DeadLetter(w)) /\ Exists(at[w])
<1> USE DEF ItemInv, clock, tree, sweep, Goto, Searching, Working
<1>1. ASSUME NEW t \in Tokens, ClaimMkdir(w, t) PROVE QuietStep(w)
  BY <1>1 DEF ClaimMkdir, QuietStep, TypeOK, WorkerOK
<1>2. CASE ClaimScan(w) \/ ClaimRaises(w)
  BY <1>2 DEF ClaimScan, ClaimRaises, QuietStep, TypeOK, WorkerOK
<1>3. CASE ClaimNone(w) \/ Restart(w)
  BY <1>3 DEF ClaimNone, Restart, EndSession, QuietStep, TypeOK, WorkerOK
<1>4. CASE ClaimSidecar(w) \/ Renew(w)
  <2>1. PICK from \in {"open", "held"} : OpenSidecar(w, from)
    BY <1>4 DEF ClaimSidecar, Renew
  <2>2. \A l \in WorkLoc : sidecar'[l] # NoSidecar =>
          sidecar[l] # NoSidecar \/ (pc[w] \in Working /\ l = at[w])
    BY <2>1 DEF OpenSidecar, TypeOK, TreeOK
  <2> QED BY <2>1, <2>2 DEF OpenSidecar, QuietStep, TypeOK, WorkerOK
<1>5. CASE WriteSidecar(w)
  <2>1. \A l \in WorkLoc : sidecar'[l] # NoSidecar =>
          sidecar[l] # NoSidecar \/ (pc[w] \in Working /\ l = at[w])
    BY <1>5 DEF WriteSidecar, TypeOK, TreeOK
  <2> QED BY <1>5, <2>1 DEF WriteSidecar, QuietStep, TypeOK, WorkerOK
<1>6. CASE (Release(w) \/ DeadLetter(w)) /\ ~Exists(at[w])
  BY <1>6 DEF Release, DeadLetter, Finish, EndSession, QuietStep, TypeOK, WorkerOK
<1>7. CASE UnlinkSidecar(w)
  <2>1. \A l \in WorkLoc : sidecar'[l] # NoSidecar => sidecar[l] # NoSidecar
    BY <1>7 DEF UnlinkSidecar, TypeOK, TreeOK
  <2> QED BY <1>7, <2>1 DEF UnlinkSidecar, EndSession, QuietStep, TypeOK, WorkerOK
<1>8. CASE Crash(w)
  <2>1. pc[w] = "rename" => tok[w] \in Tokens
    BY DEF TypeOK, WorkerOK
  <2> QED BY <1>8, <2>1, TokenAssumption DEF Crash, EndSession, QuietStep, TypeOK,
             WorkerOK
<1>9. ASSUME NEW l \in RecoveredLoc, Adopt(w, l) PROVE QuietStep(w)
  <2>1. l[2] \in spent
    BY <1>9 DEF Adopt, SpentInv
  <2> QED BY <1>9, <2>1 DEF Adopt, QuietStep, TypeOK, WorkerOK
<1> QED BY <1>1, <1>2, <1>3, <1>4, <1>5, <1>6, <1>7, <1>8, <1>9 DEF Claim, Complete

\* The five kinds of steps that move, add or remove a work file.
LEMMA EnqueueItem ==
  ASSUME TypeOK, ItemInv, NEW j \in Jobs, Enqueue(j)
  PROVE  ItemInv'
<1> USE DEF ItemInv, clock, worker, sweep
<1>1. \A l \in Loc : fs'[l] = IF l = Queued(NameOf[j])
                              THEN [job |-> j, mtime |-> now] ELSE fs[l]
  BY DEF Enqueue, TypeOK, TreeOK
<1>2. NameOf[j] \in Names
  OBVIOUS
<1>3. \A l \in TokenLoc : fs'[l] = fs[l]
  BY <1>1, <1>2, Places
<1>4. SearchInv' /\ SpentInv' /\ ClockInv'
  BY DEF Enqueue, SearchInv, SpentInv, ClockInv
<1>5. PlaceInv'
  BY <1>3, Places DEF Enqueue, PlaceInv
<1>6. FileInv' /\ OneFile'
  BY <1>3 DEF Enqueue, FileInv, OneFile, Exists
<1>7. QueueInv'
  <2>1. \A n \in Names : Queued(n) = Queued(NameOf[j]) => n = NameOf[j]
    BY DEF Queued
  <2> QED BY <1>1, <2>1, Places DEF QueueInv, Exists
<1> QED BY <1>4, <1>5, <1>6, <1>7

\* A searching worker has no file under its token but its own placeholder.
LEMMA OwnFiles ==
  ASSUME TypeOK, ItemInv, NEW w \in Workers, pc[w] \in {"place", "rename"},
         NEW l \in TokenLoc, Exists(l), l[2] = tok[w]
  PROVE  pc[w] = "rename" /\ at[w] = l
<1>1. PICK v \in Workers : pc[v] = "rename" /\ at[v] = l
  BY DEF ItemInv, FileInv, SearchInv, Searching
<1>2. tok[v] = tok[w]
  BY <1>1 DEF TypeOK, WorkerOK
<1>3. v = w
  BY <1>1, <1>2 DEF ItemInv, SearchInv, Searching
<1> QED BY <1>1, <1>3

LEMMA PlaceholderItem ==
  ASSUME TypeOK, ItemInv, LeaseSeconds > 0,
         NEW w \in Workers, ClaimPlaceholder(w)
  PROVE  ItemInv'
<1> USE DEF ItemInv, clock, sweep
<1>1. PICK n \in Names :
        /\ fs' = [fs EXCEPT ![Claimed(tok[w], n)] = [job |-> Phantom, mtime |-> now]]
        /\ at' = [at EXCEPT ![w] = Claimed(tok[w], n)]
  BY DEF ClaimPlaceholder, TypeOK, WorkerOK
<1> DEFINE p == Claimed(tok[w], n)
<1>2. tok[w] \in Tokens /\ pc[w] = "place"
  BY DEF ClaimPlaceholder, TypeOK, WorkerOK
<1>3. p \in ClaimedLoc /\ p \in TokenLoc /\ p[2] = tok[w]
  BY <1>2, Places
<1>4. \A l \in Loc : fs'[l] = IF l = p THEN [job |-> Phantom, mtime |-> now] ELSE fs[l]
  BY <1>1 DEF TypeOK, TreeOK
<1>5. /\ at'[w] = p /\ pc'[w] = "rename" /\ tok' = tok /\ now' = now
      /\ \A v \in Workers : v # w => at'[v] = at[v] /\ pc'[v] = pc[v]
  BY <1>1 DEF ClaimPlaceholder, Goto, TypeOK, WorkerOK
<1>6. \A l \in TokenLoc : Exists(l) => l[2] # tok[w]
  BY <1>2, OwnFiles
<1> HIDE DEF p
<1>7. SearchInv'
  BY <1>2, <1>5 DEF ClaimPlaceholder, SearchInv, Searching
<1>8. SpentInv'
  BY <1>5 DEF ClaimPlaceholder, SpentInv, Working
<1>9. PlaceInv'
  <2>1. ASSUME NEW v \in Workers, v # w, pc[v] = "rename" PROVE at[v] # p
    <3>1. Exists(at[v]) /\ at[v] \in TokenLoc
      BY <2>1, Places DEF PlaceInv, Exists, NoFile
    <3> QED BY <1>3, <1>6, <3>1
  <2>2. now < now + LeaseSeconds
    BY DEF TypeOK, TreeOK
  <2> QED BY <1>3, <1>4, <1>5, <2>1, <2>2, Places DEF PlaceInv
<1>10. FileInv'
  BY <1>2, <1>4, <1>5, Places DEF ClaimPlaceholder, FileInv, Exists
<1>11. OneFile'
  BY <1>3, <1>4, <1>6, Places DEF OneFile, Exists
<1>12. QueueInv'
  BY <1>3, <1>4, Places DEF QueueInv, Exists
<1>13. ClockInv'
  BY DEF ClaimPlaceholder, ClockInv
<1> QED BY <1>7, <1>8, <1>9, <1>10, <1>11, <1>12, <1>13

LEMMA RenameItem ==
  ASSUME TypeOK, ItemInv, NEW w \in Workers, ClaimRename(w)
  PROVE  ItemInv'
<1> USE DEF ItemInv, clock, sweep
<1> DEFINE src == Queued(at[w][3])
<1>1. pc[w] = "rename" /\ at[w] \in ClaimedLoc /\ at[w] \in TokenLoc
  BY Places DEF ClaimRename, PlaceInv
<1>2. at[w][3] \in Names /\ at[w][2] = tok[w]
  BY <1>1 DEF ClaimedLoc, TypeOK, WorkerOK
<1>3. src \in Loc /\ src \notin TokenLoc
  BY <1>2, Places
<1>4. \A l \in Loc : fs'[l] = IF l = at[w] THEN fs[src]
                              ELSE IF l = src THEN NoFile ELSE fs[l]
  BY DEF ClaimRename, Move, TypeOK, TreeOK
<1>5. /\ pc'[w] = "open" /\ tok' = tok /\ at' = at /\ now' = now
      /\ spent' = spent \union {tok[w]}
      /\ \A v \in Workers : v # w => pc'[v] = pc[v]
  BY DEF ClaimRename, Goto, TypeOK, WorkerOK
<1>6. Exists(at[w])
  BY <1>1 DEF PlaceInv, Exists, NoFile
<1>7. \A v \in Workers : v # w /\ pc[v] \in Searching => tok[v] # tok[w]
  BY <1>1 DEF SearchInv, Searching
<1> HIDE DEF src
<1>8. SearchInv'
  BY <1>1, <1>5, <1>7 DEF SearchInv, Searching
<1>9. SpentInv'
  BY <1>5 DEF ClaimRename, SpentInv, Working
<1>10. PlaceInv'
  <2>1. ASSUME NEW v \in Workers, v # w, pc[v] = "rename"
        PROVE  at[v] # at[w] /\ at[v] \in TokenLoc
    BY <1>2, <1>7, <2>1, Places DEF PlaceInv, TypeOK, WorkerOK, Searching
  <2> QED BY <1>3, <1>4, <1>5, <2>1, Places DEF PlaceInv
<1>11. FileInv'
  <2>1. ASSUME NEW l \in TokenLoc, Exists(l)', l # at[w]
        PROVE  l[2] \in spent \/ \E v \in Workers : v # w /\ pc[v] = "rename" /\ at[v] = l
    <3>1. Exists(l)
      BY <1>4, <2>1, Places DEF Exists
    <3> QED BY <2>1, <3>1 DEF FileInv
  <2> QED BY <1>2, <1>5, <2>1 DEF FileInv
<1>12. OneFile'
  BY <1>3, <1>4, <1>6, Places DEF OneFile, Exists
<1>13. QueueInv'
  BY <1>1, <1>4, Places DEF QueueInv, Exists
<1>14. ClockInv'
  BY DEF ClaimRename, ClockInv
<1> QED BY <1>8, <1>9, <1>10, <1>11, <1>12, <1>13, <1>14

LEMMA DropItem ==
  ASSUME TypeOK, ItemInv, NEW w \in Workers, ClaimLostRace(w) \/ ClaimRenameFails(w)
  PROVE  ItemInv'
<1> USE DEF ItemInv, clock, sweep
<1>1. pc[w] = "rename" /\ at[w] \in TokenLoc /\ at[w][2] = tok[w]
  BY Places DEF ClaimLostRace, ClaimRenameFails, PlaceInv, TypeOK, WorkerOK
<1>2. \A l \in Loc : fs'[l] = IF l = at[w] THEN NoFile ELSE fs[l]
  BY DEF ClaimLostRace, ClaimRenameFails, TypeOK, TreeOK
<1>3. /\ pc'[w] \in {"place", "rmdir"}
      /\ UNCHANGED <<now, tok, spent, returned, found, spc, hit, sidecar, snow>>
      /\ \A v \in Workers : v # w => pc'[v] = pc[v] /\ at'[v] = at[v]
  BY DEF ClaimLostRace, ClaimRenameFails, Goto, TypeOK, WorkerOK
<1>4. SearchInv'
  BY <1>1, <1>3 DEF SearchInv, Searching
<1>5. SpentInv' /\ ClockInv'
  BY <1>3 DEF SpentInv, ClockInv, Working
<1>6. PlaceInv'
  <2>1. ASSUME NEW v \in Workers, v # w, pc[v] = "rename"
        PROVE  at[v] # at[w] /\ at[v] \in TokenLoc
    BY <1>1, <2>1, Places DEF PlaceInv, SearchInv, TypeOK, WorkerOK, Searching
  <2> QED BY <1>2, <1>3, <2>1, Places DEF PlaceInv
<1>7. FileInv'
  <2>1. \A l \in TokenLoc : Exists(l)' => Exists(l) /\ l # at[w]
    BY <1>2, Places DEF Exists
  <2> QED BY <1>3, <2>1 DEF FileInv
<1>8. OneFile' /\ QueueInv'
  <2>1. \A l \in Loc : fs'[l] # NoFile => fs'[l] = fs[l]
    BY <1>2
  <2> QED BY <2>1, Places DEF OneFile, QueueInv, Exists
<1> QED BY <1>4, <1>5, <1>6, <1>7, <1>8

\* A rename that ends in another directory of the same, spent token.
LEMMA MoveItem ==
  ASSUME TypeOK, ItemInv, NEW l \in WorkLoc, Exists(l), l[2] \in spent,
         NEW m \in TokenLoc, m[2] = l[2], m # l, Move(l, m),
         UNCHANGED <<now, tok, spent, snow, at>>, SpentInv',
         \A v \in Workers : pc'[v] = pc[v] \/ (pc[v] = "held" /\ pc'[v] = "unlink")
  PROVE  ItemInv'
<1> USE DEF ItemInv
<1>1. \A k \in Loc : fs'[k] = IF k = m THEN fs[l] ELSE IF k = l THEN NoFile ELSE fs[k]
  BY Places DEF Move, TypeOK, TreeOK
<1>2. SearchInv'
  BY DEF SearchInv, Searching
<1>3. PlaceInv'
  <2>1. ASSUME NEW v \in Workers, pc[v] = "rename"
        PROVE  at[v] \in TokenLoc /\ at[v][2] \notin spent
    BY <2>1, Places DEF PlaceInv, SearchInv, Searching, TypeOK, WorkerOK
  <2> QED BY <1>1, <2>1, Places DEF PlaceInv
<1>4. FileInv'
  BY <1>1, Places DEF FileInv, Exists
<1>5. OneFile'
  BY <1>1, Places DEF OneFile, Exists
<1>6. QueueInv'
  BY <1>1, Places DEF QueueInv, Exists
<1> QED BY <1>2, <1>3, <1>4, <1>5, <1>6 DEF ClockInv

LEMMA FinishItem ==
  ASSUME TypeOK, ItemInv, NEW w \in Workers, NEW kind \in {"done", "dead"},
         Finish(w, kind), Exists(at[w])
  PROVE  ItemInv'
<1> DEFINE m == <<kind, tok[w], at[w][3]>>
<1>1. pc[w] = "held" /\ at[w] \in WorkLoc /\ at[w][2] = tok[w] /\ at[w][2] \in spent
  BY DEF Finish, ItemInv, SpentInv, TypeOK, WorkerOK, Working
<1>2. m \in TokenLoc /\ m[2] = at[w][2] /\ m # at[w] /\ Move(at[w], m)
  BY <1>1 DEF Finish, TokenLoc, WorkLoc, FinalLoc, ClaimedLoc, RecoveredLoc
<1>3. /\ pc' = [pc EXCEPT ![w] = "unlink"]
      /\ UNCHANGED <<now, tok, at, spent, snow, found, spc, hit, returned, sidecar>>
  BY DEF Finish, Goto, clock, sweep
<1>4. SpentInv'
  BY <1>1, <1>3 DEF ItemInv, SpentInv, Working, TypeOK, WorkerOK
<1>5. \A v \in Workers : pc'[v] = pc[v] \/ (pc[v] = "held" /\ pc'[v] = "unlink")
  BY <1>1, <1>3 DEF TypeOK, WorkerOK
<1> HIDE DEF m
<1> QED BY <1>1, <1>2, <1>3, <1>4, <1>5, MoveItem

\* The steps of a recovery that move no file.
LEMMA SweepItem ==
  ASSUME TypeOK, ItemInv, NEW r \in Recoverers, Sweep(r) \/ SweepCrash(r)
  PROVE  ItemInv' \/ (SweepRename(r) /\ Exists(hit[r]))
<1> USE DEF ItemInv, clock, tree, worker
<1>1. CASE /\ UNCHANGED <<now, fs, pc, tok, at, spent>>
           /\ SpentInv' /\ ClockInv'
  BY <1>1 DEF SearchInv, PlaceInv, FileInv, OneFile, QueueInv, Exists
<1>2. (SpentInv' /\ ClockInv') \/ (SweepRename(r) /\ Exists(hit[r]))
  <2>1. CASE SweepStart(r)
    BY <2>1 DEF SweepStart, SweepGoto, SpentInv, ClockInv, TypeOK, TreeOK, SweepOK
  <2>2. CASE \/ \E t \in Tokens : SweepEnter(r, t)
             \/ SweepList(r) \/ SweepRmdir(r)
    BY <2>2 DEF SweepEnter, SweepList, SweepRmdir, SweepGoto, SpentInv, ClockInv,
                TypeOK, SweepOK
  <2>3. CASE SweepRaises(r) \/ SweepEnd(r) \/ SweepCrash(r)
    <3>1. EndSweep(r) /\ returned' \subseteq returned \union found[r]
      BY <2>3 DEF SweepRaises, SweepEnd, SweepCrash
    <3> QED BY <3>1 DEF EndSweep, SweepGoto, SpentInv, ClockInv, TypeOK, TreeOK, SweepOK
  <2>4. ASSUME NEW n \in Names, SweepFile(r, n)
        PROVE  SpentInv' /\ ClockInv'
    <3> DEFINE l == Claimed(cur[r], n)
    <3>1. l \in ClaimedLoc /\ l \in TokenLoc /\ l \in WorkLoc
      BY <2>4, Places DEF SweepFile, TypeOK, SweepOK, WorkLoc
    <3>2. Exists(l) /\ Stale(r, l) => l[2] \in spent
      <4>1. ASSUME NEW w \in Workers, pc[w] = "rename", at[w] = l, l[2] \notin spent
            PROVE  ~Stale(r, l)
        <5>1. sidecar[l].state # "valid"
          BY <3>1, <4>1 DEF SpentInv, NoSidecar
        <5>2. snow[r] <= now /\ now < fs[l].mtime + LeaseSeconds
          BY <4>1 DEF ClockInv, PlaceInv
        <5>3. snow[r] \in Nat /\ now \in Nat /\ fs[l].mtime \in Nat
          BY <3>1, Places DEF TypeOK, TreeOK, SweepOK
        <5> QED BY <5>1, <5>2, <5>3 DEF Stale
      <4> QED BY <3>1, <4>1 DEF FileInv
    <3> HIDE DEF l
    <3>3. \/ UNCHANGED <<hit, spc>>
          \/ /\ hit' = [hit EXCEPT ![r] = l] /\ l[2] \in spent
             /\ spc' = [spc EXCEPT ![r] = "reclaim"]
      BY <2>4, <3>2 DEF SweepFile, SweepGoto, l
    <3> QED BY <2>4, <3>3 DEF SweepFile, SpentInv, ClockInv, TypeOK, SweepOK
  <2>5. CASE SweepRename(r) /\ ~Exists(hit[r])
    BY <2>5 DEF SweepRename, SweepGoto, SpentInv, ClockInv, TypeOK, SweepOK
  <2>6. CASE SweepUnlink(r)
    <3>1. \A l \in WorkLoc : sidecar'[l] # NoSidecar => sidecar[l] # NoSidecar
      BY <2>6 DEF SweepUnlink, TypeOK, TreeOK
    <3> QED BY <2>6, <3>1 DEF SweepUnlink, SweepGoto, SpentInv, ClockInv, TypeOK,
               SweepOK
  <2> QED BY <2>1, <2>2, <2>3, <2>4, <2>5, <2>6 DEF Sweep
<1>3. UNCHANGED <<now, fs, pc, tok, at, spent>> \/ (SweepRename(r) /\ Exists(hit[r]))
  BY DEF Sweep, SweepStart, SweepEnter, SweepList, SweepRaises, SweepFile,
         SweepRename, SweepUnlink, SweepRmdir, SweepEnd, SweepCrash, EndSweep
<1> QED BY <1>1, <1>2, <1>3

LEMMA ReclaimItem ==
  ASSUME TypeOK, ItemInv, NEW r \in Recoverers, SweepRename(r), Exists(hit[r])
  PROVE  ItemInv'
<1> DEFINE m == <<"recovered", hit[r][2], hit[r][3]>>
<1>1. /\ hit[r] \in WorkLoc /\ hit[r] \in ClaimedLoc /\ hit[r][2] \in spent
      /\ hit[r][2] \in Tokens /\ hit[r][3] \in Names
  BY DEF SweepRename, ItemInv, SpentInv, TypeOK, SweepOK, WorkLoc, ClaimedLoc
<1>2. m \in TokenLoc /\ m[2] = hit[r][2] /\ m # hit[r] /\ Move(hit[r], m)
  BY <1>1 DEF SweepRename, TokenLoc, WorkLoc, ClaimedLoc, RecoveredLoc
<1>3. /\ found' = [found EXCEPT ![r] = found[r] \union {m}]
      /\ spc' = [spc EXCEPT ![r] = "unlink"]
      /\ UNCHANGED <<now, pc, tok, at, spent, snow, hit, returned, sidecar>>
  BY DEF SweepRename, SweepGoto, clock, worker
<1> HIDE DEF m
<1>4. SpentInv'
  BY <1>1, <1>2, <1>3 DEF ItemInv, SpentInv, TypeOK, SweepOK
<1> QED BY <1>1, <1>2, <1>3, <1>4, MoveItem

\* ItemInv holds in every reachable state, if a caller takes a fresh token for
\* every session and no claim stalls for a whole lease before its rename.
LEMMA ItemInvariance ==
  ASSUME ~ReuseTokens, PromptClaims, LeaseSeconds > 0
  PROVE  Spec => []ItemInv
<1>1. Init => ItemInv
  BY Places DEF Init, ItemInv, SearchInv, SpentInv, PlaceInv, FileInv, OneFile,
       QueueInv, ClockInv, Exists, Searching, Working
<1>2. TypeOK /\ TypeOK' /\ ItemInv /\ [Next]_vars => ItemInv'
  <2> SUFFICES ASSUME TypeOK, TypeOK', ItemInv, [Next]_vars PROVE ItemInv'
    OBVIOUS
  <2>1. ASSUME NEW w \in Workers,
               \/ Claim(w) \/ Renew(w) \/ Complete(w) \/ Restart(w) \/ Crash(w)
               \/ \E l \in RecoveredLoc : Adopt(w, l)
        PROVE  ItemInv'
    <3>1. (Release(w) \/ DeadLetter(w)) /\ Exists(at[w]) => ItemInv'
      BY FinishItem DEF Release, DeadLetter
    <3> QED BY <2>1, <3>1, QuietSteps, QuietKeeps, PlaceholderItem, RenameItem, DropItem
  <2>2. CASE Tick
    <3>1. UNCHANGED <<fs, sidecar, spent, pc, tok, at, spc, snow, hit, found, returned>>
      BY <2>2 DEF Tick, tree, worker, sweep
    <3>2. PlaceInv'
      BY <2>2, <3>1 DEF Tick, ItemInv, PlaceInv
    <3>3. ClockInv'
      BY <2>2, <3>1 DEF Tick, ItemInv, ClockInv, TypeOK, TreeOK, SweepOK
    <3> QED BY <3>1, <3>2, <3>3 DEF ItemInv, SearchInv, SpentInv, FileInv, OneFile,
              QueueInv, Exists
  <2>3. CASE UNCHANGED vars
    BY <2>3 DEF vars, tree, worker, sweep, ItemInv, SearchInv, SpentInv, PlaceInv,
                FileInv, OneFile, QueueInv, ClockInv, Exists
  <2> QED BY <2>1, <2>2, <2>3, EnqueueItem, SweepItem, ReclaimItem DEF Next
<1> QED BY <1>1, <1>2, TypeCorrect, PTL DEF Spec

\* The state of a work item whose file is in a directory of this kind.
Meaning(kind) ==
  CASE kind = "queued"    -> "pending"
    [] kind = "claimed"   -> "in_progress"
    [] kind = "recovered" -> "recovered"
    [] kind = "done"      -> "completed"
    [] kind = "dead"      -> "dead_letter"

\* A job's state, before and after a step, is read off the place of its file.
LEMMA StateAt ==
  ASSUME OneCopy, NEW l \in Loc, fs[l].job \in Jobs
  PROVE  StateOf(fs[l].job) = Meaning(l[1])
<1>1. \A k \in Loc : fs[k].job = fs[l].job => k = l
  BY DEF OneCopy
<1>2. l[1] \in {"queued", "claimed", "recovered", "done", "dead"}
  BY DEF Loc, QueuedLoc, WorkLoc, ClaimedLoc, RecoveredLoc, FinalLoc
<1> QED BY <1>1, <1>2 DEF StateOf, InState, Meaning

LEMMA StateAtNext ==
  ASSUME OneCopy', NEW l \in Loc, fs'[l].job \in Jobs
  PROVE  \A j \in Jobs : j = fs'[l].job => StateOf(j)' = Meaning(l[1])
<1>1. \A k \in Loc : fs'[k].job = fs'[l].job => k = l
  BY DEF OneCopy
<1>2. l[1] \in {"queued", "claimed", "recovered", "done", "dead"}
  BY DEF Loc, QueuedLoc, WorkLoc, ClaimedLoc, RecoveredLoc, FinalLoc
<1> QED BY <1>1, <1>2 DEF StateOf, InState, Meaning

LEMMA StateSame ==
  ASSUME NEW j \in Jobs, \A l \in Loc : fs[l].job = j <=> fs'[l].job = j,
         j \in produced <=> j \in produced'
  PROVE  StateOf(j)' = StateOf(j)
<1>1. \A kind : InState(j, kind)' <=> InState(j, kind)
  BY DEF InState
<1> QED BY <1>1 DEF StateOf

\* A rename moves the item it takes and no other, if it lands on no item.
LEMMA StateMoved ==
  ASSUME TypeOK, CopyInv, CopyInv', UNCHANGED produced,
         NEW l \in Loc, NEW m \in Loc, l # m, fs[m].job \notin Jobs, Move(l, m)
  PROVE  \A j \in Jobs :
           StateOf(j)' = IF j = fs[l].job THEN Meaning(m[1]) ELSE StateOf(j)
<1>1. \A k \in Loc : fs'[k] = IF k = m THEN fs[l] ELSE IF k = l THEN NoFile ELSE fs[k]
  BY DEF Move, TypeOK, TreeOK
<1>2. NoFile.job \notin Jobs
  BY DEF NoFile
<1>3. ASSUME NEW j \in Jobs, j # fs[l].job PROVE StateOf(j)' = StateOf(j)
  <2>1. \A k \in Loc : fs[k].job = j <=> fs'[k].job = j
    BY <1>1, <1>2, <1>3
  <2> QED BY <2>1, StateSame
<1>4. ASSUME NEW j \in Jobs, j = fs[l].job PROVE StateOf(j)' = Meaning(m[1])
  BY <1>1, <1>4, StateAtNext DEF CopyInv
<1> QED BY <1>3, <1>4

LEMMA EnqueuedStates ==
  ASSUME TypeOK, CopyInv, CopyInv', ItemInv, NEW j \in Jobs, Enqueue(j)
  PROVE  /\ StateOf(j) = "absent"
         /\ \A k \in Jobs : StateOf(k)' =
              IF k = j THEN "pending"
              ELSE IF StateOf(k) = "pending" /\ NameOf[k] = NameOf[j]
              THEN "superseded" ELSE StateOf(k)
<1> DEFINE q == Queued(NameOf[j])
<1>1. \A l \in Loc : fs'[l] = IF l = q THEN [job |-> j, mtime |-> now] ELSE fs[l]
  BY DEF Enqueue, TypeOK, TreeOK
<1>2. /\ q \in QueuedLoc /\ q \in Loc /\ q[1] = "queued" /\ q[3] = NameOf[j]
      /\ j \notin produced /\ produced' = produced \union {j}
  BY DEF Enqueue, Queued, QueuedLoc, Loc
<1>3. \A l \in Loc : fs[l].job # j
  BY <1>2 DEF CopyInv
<1>4. StateOf(j) = "absent"
  BY <1>2, <1>3 DEF StateOf, InState
<1>5. StateOf(j)' = "pending"
  BY <1>1, <1>2, StateAtNext DEF CopyInv, Meaning
<1> HIDE DEF q
<1>6. ASSUME NEW k \in Jobs, k # j, fs[q].job = k
      PROVE  /\ StateOf(k)' = "superseded"
             /\ StateOf(k) = "pending" /\ NameOf[k] = NameOf[j]
  <2>1. StateOf(k) = "pending"
    BY <1>2, <1>6, StateAt DEF CopyInv, Meaning
  <2>2. NameOf[k] = NameOf[j]
    <3>1. Exists(q)
      BY <1>6 DEF Exists, NoFile
    <3> QED BY <1>6, <3>1 DEF ItemInv, QueueInv, q
  <2>3. \A l \in Loc : fs'[l].job # k
    BY <1>1, <1>2, <1>6 DEF CopyInv, OneCopy
  <2>4. k \in produced'
    BY <1>2, <1>6 DEF CopyInv
  <2>5. StateOf(k)' = "superseded"
    BY <2>3, <2>4 DEF StateOf, InState
  <2> QED BY <2>1, <2>2, <2>5
<1>7. ASSUME NEW k \in Jobs, k # j, fs[q].job # k
      PROVE  /\ StateOf(k)' = StateOf(k)
             /\ ~(StateOf(k) = "pending" /\ NameOf[k] = NameOf[j])
  <2>1. \A l \in Loc : fs[l].job = k <=> fs'[l].job = k
    BY <1>1, <1>7
  <2>2. StateOf(k)' = StateOf(k)
    BY <1>2, <1>7, <2>1, StateSame
  <2>3. ASSUME StateOf(k) = "pending", NameOf[k] = NameOf[j] PROVE FALSE
    <3>1. InState(k, "queued")
      BY <2>3 DEF StateOf
    <3>2. PICK l \in Loc : l[1] = "queued" /\ fs[l].job = k
      BY <3>1 DEF InState
    <3>3. l \in QueuedLoc
      BY <3>2 DEF Loc, WorkLoc, FinalLoc, ClaimedLoc, RecoveredLoc
    <3>4. l = Queued(l[3]) /\ l[3] \in Names
      BY <3>3, Places
    <3>5. NameOf[k] = l[3]
      <4>1. Exists(l)
        BY <3>2 DEF Exists, NoFile
      <4> QED BY <3>2, <3>4, <4>1 DEF ItemInv, QueueInv
    <3> QED BY <1>7, <2>3, <3>2, <3>4, <3>5 DEF q
  <2> QED BY <2>2, <2>3
<1> QED BY <1>4, <1>5, <1>6, <1>7

\* Every system call is a transition of one work item, or of none.
LEMMA ItemStep ==
  ASSUME TypeOK, CopyInv, CopyInv', ItemInv, [Next]_vars
  PROVE  [Item!Next]_[j \in Jobs |-> StateOf(j)]
<1> DEFINE state == [j \in Jobs |-> StateOf(j)]
<1>1. ASSUME \A j \in Jobs : StateOf(j)' = StateOf(j)
      PROVE  UNCHANGED state
  BY <1>1
<1>2. ASSUME NEW l \in WorkLoc \union QueuedLoc, NEW m \in TokenLoc, l # m,
             fs[m].job \notin Jobs, Move(l, m), UNCHANGED produced,
             \/ /\ Meaning(l[1]) = "pending" /\ Meaning(m[1]) = "in_progress"
             \/ /\ Meaning(l[1]) = "in_progress" /\ Meaning(m[1]) = "recovered"
             \/ /\ Meaning(l[1]) \in {"in_progress", "recovered"}
                /\ Meaning(m[1]) \in {"completed", "dead_letter"}
      PROVE  [Item!Next]_state
  <2>1. \A j \in Jobs :
          StateOf(j)' = IF j = fs[l].job THEN Meaning(m[1]) ELSE StateOf(j)
    BY <1>2, Places, StateMoved
  <2>2. CASE fs[l].job \notin Jobs
    BY <1>1, <2>1, <2>2
  <2>3. CASE fs[l].job \in Jobs
    <3> DEFINE j == fs[l].job
    <3>1. state[j] = Meaning(l[1])
      BY <1>2, <2>3, Places, StateAt DEF CopyInv
    <3>2. state' = [state EXCEPT ![j] = Meaning(m[1])]
      BY <2>1, <2>3
    <3> HIDE DEF state
    <3>3. Item!Claim(j) \/ Item!Recover(j) \/ Item!Release(j) \/ Item!DeadLetter(j)
      BY <1>2, <3>1, <3>2
         DEF Item!Claim, Item!Recover, Item!Release, Item!DeadLetter, Item!Step, state
    <3> QED BY <2>3, <3>3 DEF Item!Next
  <2> QED BY <2>2, <2>3
<1>3. ASSUME UNCHANGED <<fs, produced>> PROVE UNCHANGED state
  BY <1>1, <1>3, StateSame
<1>4. ASSUME NEW j \in Jobs, Enqueue(j) PROVE [Item!Next]_state
  <2>1. Item!Enqueue(j)
    BY <1>4, EnqueuedStates DEF Item!Enqueue
  <2> QED BY <2>1 DEF Item!Next
<1>5. ASSUME NEW w \in Workers, ClaimPlaceholder(w) PROVE UNCHANGED state
  <2>1. PICK n \in Names :
          /\ ~Exists(Claimed(tok[w], n))
          /\ fs' = [fs EXCEPT ![Claimed(tok[w], n)] = [job |-> Phantom, mtime |-> now]]
    BY <1>5 DEF ClaimPlaceholder, TypeOK, WorkerOK
  <2>2. ASSUME NEW j \in Jobs PROVE \A l \in Loc : fs[l].job = j <=> fs'[l].job = j
    BY <2>1 DEF TypeOK, TreeOK, Exists, NoFile
  <2> QED BY <1>1, <1>5, <2>2, StateSame DEF ClaimPlaceholder
<1>6. ASSUME NEW w \in Workers, ClaimLostRace(w) \/ ClaimRenameFails(w)
      PROVE  UNCHANGED state
  <2>1. fs[at[w]].job = Phantom /\ fs' = [fs EXCEPT ![at[w]] = NoFile]
        /\ produced' = produced
    BY <1>6 DEF ItemInv, PlaceInv, ClaimLostRace, ClaimRenameFails
  <2>2. ASSUME NEW j \in Jobs PROVE \A l \in Loc : fs[l].job = j <=> fs'[l].job = j
    BY <2>1 DEF TypeOK, TreeOK, NoFile
  <2> QED BY <1>1, <2>1, <2>2, StateSame
<1>7. ASSUME NEW w \in Workers, ClaimRename(w) PROVE [Item!Next]_state
  <2> DEFINE src == Queued(at[w][3])
  <2>1. at[w] \in ClaimedLoc /\ fs[at[w]].job \notin Jobs /\ at[w] \in TokenLoc
    BY <1>7, Places DEF ClaimRename, ItemInv, PlaceInv
  <2>2. src \in QueuedLoc /\ src # at[w] /\ src[1] = "queued" /\ at[w][1] = "claimed"
    BY <2>1 DEF ClaimedLoc, Queued, QueuedLoc
  <2>3. Move(src, at[w]) /\ UNCHANGED produced
    BY <1>7 DEF ClaimRename
  <2> HIDE DEF src, state
  <2> QED BY <1>2, <2>1, <2>2, <2>3 DEF Meaning
<1>8. ASSUME NEW w \in Workers, NEW kind \in {"done", "dead"}, Finish(w, kind),
             Exists(at[w])
      PROVE  [Item!Next]_state
  <2> DEFINE m == <<kind, tok[w], at[w][3]>>
  <2>1. at[w] \in WorkLoc /\ at[w][2] = tok[w] /\ at[w] \in TokenLoc
    BY <1>8, Places DEF Finish, TypeOK, WorkerOK
  <2>2. /\ m \in TokenLoc /\ m # at[w] /\ m[2] = at[w][2] /\ m[1] = kind
        /\ at[w][1] \in {"claimed", "recovered"}
    BY <2>1 DEF TokenLoc, WorkLoc, FinalLoc, ClaimedLoc, RecoveredLoc
  <2>3. Move(at[w], m) /\ UNCHANGED produced
    BY <1>8 DEF Finish
  <2> HIDE DEF m, state
  <2>4. fs[m].job \notin Jobs
    BY <1>8, <2>1, <2>2 DEF ItemInv, OneFile, Exists, NoFile
  <2> QED BY <1>2, <2>1, <2>2, <2>3, <2>4 DEF Meaning
<1>9. ASSUME NEW r \in Recoverers, SweepRename(r), Exists(hit[r])
      PROVE  [Item!Next]_state
  <2> DEFINE m == <<"recovered", hit[r][2], hit[r][3]>>
  <2>1. hit[r] \in ClaimedLoc /\ hit[r] \in WorkLoc /\ hit[r] \in TokenLoc
    BY <1>9, Places DEF SweepRename, TypeOK, SweepOK, WorkLoc
  <2>2. /\ m \in TokenLoc /\ m # hit[r] /\ m[2] = hit[r][2] /\ m[1] = "recovered"
        /\ hit[r][1] = "claimed"
    BY <2>1 DEF TokenLoc, WorkLoc, ClaimedLoc, RecoveredLoc
  <2>3. Move(hit[r], m) /\ UNCHANGED produced
    BY <1>9 DEF SweepRename
  <2> HIDE DEF m, state
  <2>4. fs[m].job \notin Jobs
    BY <1>9, <2>1, <2>2 DEF ItemInv, OneFile, Exists, NoFile
  <2> QED BY <1>2, <2>1, <2>2, <2>3, <2>4 DEF Meaning
<1>10. \/ UNCHANGED <<fs, produced>>
       \/ \E j \in Jobs : Enqueue(j)
       \/ \E w \in Workers :
            \/ ClaimPlaceholder(w) \/ ClaimRename(w)
            \/ ClaimLostRace(w) \/ ClaimRenameFails(w)
            \/ (Release(w) \/ DeadLetter(w)) /\ Exists(at[w])
       \/ \E r \in Recoverers : SweepRename(r) /\ Exists(hit[r])
  BY DEF Next, Claim, ClaimMkdir, ClaimScan, ClaimRaises, ClaimNone, ClaimSidecar,
         OpenSidecar, WriteSidecar, Renew, Complete, Release, DeadLetter, Finish,
         UnlinkSidecar, Restart, Crash, Adopt, Sweep, SweepStart, SweepEnter,
         SweepList, SweepRaises, SweepFile, SweepRename, SweepUnlink, SweepRmdir,
         SweepEnd, SweepCrash, EndSweep, Tick, vars, tree, clock
<1> HIDE DEF state
<1> QED BY <1>3, <1>4, <1>5, <1>6, <1>7, <1>8, <1>9, <1>10
     DEF Release, DeadLetter, state

\* spec/44 and spec/06: every system call of the queue and of the recoveries
\* is one transition of one work item, or of none, through crashes, lost races
\* and restarts, if every session has a fresh token and no claim stalls for a
\* whole lease between its placeholder and its rename.
THEOREM QueueKeepsItems ==
  ASSUME ~ReuseTokens, PromptClaims, LeaseSeconds > 0
  PROVE  Spec => ImplementsWorkItem
<1>1. Init => Item!Init
  BY DEF Init, Item!Init, StateOf, InState, NoFile, Loc
<1>2. TypeOK /\ CopyInv /\ CopyInv' /\ ItemInv /\ [Next]_vars =>
        [Item!Next]_[j \in Jobs |-> StateOf(j)]
  BY ItemStep
<1> QED BY <1>1, <1>2, TypeCorrect, Copies, ItemInvariance, PTL
     DEF Spec, ImplementsWorkItem, Item!Spec
=============================================================================
