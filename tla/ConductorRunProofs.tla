-------------------------- MODULE ConductorRunProofs --------------------------
(***************************************************************************)
(* Theorems about ConductorRun, for any callers, runs, playbooks and caps. *)
(*                                                                         *)
(* The invariant says what a caller knows at each place: nobody else is in *)
(* the body of run() for its run, nobody else scans, the stage it starts   *)
(* is open, the one it commits is complete, the conflict keys it claims    *)
(* are free, and what it may spend fits under the cap.                     *)
(* That every run follows its playbook rests on OrderInv as well: a stage  *)
(* is touched only when the stages before it are done.                     *)
(***************************************************************************)
EXTENDS ConductorRun, FiniteSetTheorems, TLAPS

RunLock  == \A c, d \in Callers :
              pc[c] \in Body /\ pc[d] \in Body /\ run[c] = run[d] => c = d
ScanLockInv == \A c, d \in Scanning : c = d

\* A gate that awaits a decision.
GateInv ==
  \A r \in Runs, s \in Stages : status[r][s] = "awaiting_decision" =>
    s \in Gates[r] /\ r \in created /\ round[r][s] \in 1..MaxRounds

\* A caller about to claim: no other run awaits a decision on its keys.
KeysFree(c) ==
  \A q \in Runs, t \in Stages :
    q # run[c] /\ status[q][t] = "awaiting_decision"
    => Keys[run[c]][stage[c]] \intersect Keys[q][t] = {}

\* Where a caller is, and what it carries.
PlaceInv ==
  \A c \in Callers :
    /\ pc[c] # "idle" => run[c] \in created
    /\ pc[c] \notin {"idle", "enter", "look"} => stage[c] \in Stages
    /\ pc[c] \in {"heal", "append", "suspend", "answer", "answered"}
         => num[c] \in 1..MaxRounds
    /\ pc[c] \in {"scan", "scanned", "claim", "suspend", "answer", "answered"}
         => stage[c] \in Gates[run[c]]
    /\ pc[c] \in {"start", "dispatch", "account", "commit"}
         => stage[c] \notin Gates[run[c]]
    /\ pc[c] \in {"answer", "answered"} => ruling[c] \in Dispositions

\* What it knows of the goal.
StatusHere(c) == status[run[c]][stage[c]]
KnowsInv ==
  \A c \in Callers :
    /\ pc[c] = "start" => StatusHere(c) \in Open
    /\ pc[c] = "account" => StatusHere(c) \in {"complete", "blocked", "in_progress"}
    /\ pc[c] = "commit" => StatusHere(c) = "complete"
    /\ pc[c] = "answered" /\ StatusHere(c) \in Done => StatusHere(c) = Outcome(ruling[c])
    /\ pc[c] = "claim" => KeysFree(c)

Headroom ==
  \A c \in Callers :
    /\ pc[c] \in {"start", "dispatch"} => spent[run[c]] + num[c] <= Cap
    /\ pc[c] = "account" => spent[run[c]] + num[c] < Cap + Iteration

Inv ==
  /\ TypeOK /\ RunLock /\ ScanLockInv /\ GateInv /\ PlaceInv /\ KnowsInv
  /\ Headroom /\ SpendWithinCap /\ GateExclusion
  /\ CommittedIsComplete /\ CompletedIsDone /\ KeepsItsPlace
-----------------------------------------------------------------------------
\* A caller at work has a run, and from its stage on a stage and a decision.
LEMMA RunTypes ==
  ASSUME Inv, NEW c \in Callers, pc[c] # "idle"
  PROVE  run[c] \in Runs /\ run[c] # None
  BY PlaybookAssumption DEF Inv, TypeOK

LEMMA CallerTypes ==
  ASSUME Inv, NEW c \in Callers, pc[c] \notin {"idle", "enter", "look"}
  PROVE  stage[c] \in Stages /\ <<run[c], stage[c]>> \in Runs \X Stages
  BY RunTypes DEF Inv, PlaceInv

LEMMA DecisionType ==
  ASSUME Inv, NEW c \in Callers,
         pc[c] \in {"heal", "append", "suspend", "answer", "answered"}
  PROVE  <<run[c], stage[c], num[c]>> \in Decisions
<1>1. num[c] \in 1..MaxRounds
  BY DEF Inv, PlaceInv
<1> QED BY <1>1, RunTypes, CallerTypes DEF Decisions

\* The ranges of stage and num.
LEMMA StageRange == Stages \subseteq 0..Length /\ 0 \in 0..Length /\ 0 \in Nat
  BY PlaybookAssumption DEF Stages

\* KeepsItsPlace is kept if no stage becomes lost but one just written, and no
\* caller stops vouching for a lost stage.
LEMMA KeepsPlace ==
  ASSUME Inv, cut \subseteq cut',
         \A r \in Runs, s \in Stages : Lost(r, s)' =>
           \/ Lost(r, s)
           \/ \E c \in Callers : Written(c)' /\ run'[c] = r /\ stage'[c] = s,
         \A d \in Callers, r \in Runs, s \in Stages :
           Written(d) /\ run[d] = r /\ stage[d] = s =>
             \/ Written(d)' /\ run'[d] = r /\ stage'[d] = s
             \/ ~Lost(r, s)'
             \/ <<r, s>> \in cut'
  PROVE  KeepsItsPlace'
<1> SUFFICES ASSUME NEW r \in Runs, NEW s \in Stages, Lost(r, s)'
             PROVE  \/ <<r, s>> \in cut'
                    \/ \E c \in Callers : Written(c)' /\ run'[c] = r /\ stage'[c] = s
  BY Zenon DEF KeepsItsPlace
<1>1. CASE \E c \in Callers : Written(c)' /\ run'[c] = r /\ stage'[c] = s
  BY <1>1
<1>2. CASE Lost(r, s)
  <2>1. CASE <<r, s>> \in cut
    BY <2>1
  <2>2. ASSUME NEW d \in Callers, Written(d), run[d] = r, stage[d] = s
        PROVE  <<r, s>> \in cut' \/ (Written(d)' /\ run'[d] = r /\ stage'[d] = s)
    BY <2>2, Zenon
  <2> QED BY <1>2, <2>1, <2>2 DEF Inv, KeepsItsPlace
<1> QED BY <1>1, <1>2

\* One lemma per action, one step per conjunct of the invariant.
LEMMA CreateKeeps ==
  ASSUME Inv, NEW r \in Runs,
         Create(r)
  PROVE  Inv'
<1>1. TypeOK'
  <2>1. /\ created' \subseteq Runs /\ finished' \subseteq Runs
        /\ output' \subseteq Runs \X Stages /\ committed' \subseteq Runs \X Stages
        /\ cut' \subseteq Runs \X Stages /\ pending' \subseteq Decisions
        /\ rulings' \subseteq Decisions \X Dispositions
    BY DEF Inv, TypeOK, Create
  <2>2. /\ status' \in [Runs -> [Stages -> Status]] /\ faults' \in 0..MaxFaults
        /\ round' \in [Runs -> [Stages -> 0..MaxRounds]] /\ spent' \in [Runs -> Nat]
        /\ queued' \in [Runs -> Decisions \union {None}]
    BY DEF Inv, TypeOK, Create
  <2>3. /\ stage' \in [Callers -> 0..Length]
        /\ run' \in [Callers -> Runs \union {None}]
        /\ ruling' \in [Callers -> Dispositions \union {None}]
    BY DEF Inv, TypeOK, Create, caller
  <2>5. num' \in [Callers -> Nat]
    BY DEF Inv, TypeOK, Create, caller
  <2>4. /\ pc' \in [Callers -> {"idle", "answer", "answered"} \union Body]
        /\ \A d \in Callers : pc'[d] = "idle" <=> run'[d] = None
    BY DEF Inv, TypeOK, Create, caller
  <2> QED BY <2>1, <2>2, <2>3, <2>4, <2>5 DEF TypeOK
<1>2. RunLock'
  BY DEF Inv, TypeOK, Create, caller, RunLock
<1>3. ScanLockInv'
  BY DEF Inv, TypeOK, Create, caller, ScanLockInv, Scanning
<1>4. GateInv'
  BY DEF Inv, TypeOK, Create, GateInv
<1>5. PlaceInv'
  BY DEF Inv, TypeOK, Create, caller, PlaceInv
<1>6. KnowsInv'
  BY DEF Inv, TypeOK, Create, caller, KnowsInv, PlaceInv, KeysFree, StatusHere
<1>7. Headroom'
  BY DEF Inv, TypeOK, Create, caller, Headroom
<1>8. SpendWithinCap'
  BY DEF Inv, TypeOK, Create, SpendWithinCap
<1>9. GateExclusion'
  BY DEF Inv, TypeOK, Create, GateExclusion
<1>10. CommittedIsComplete'
  BY DEF Inv, TypeOK, Create, CommittedIsComplete
<1>11. CompletedIsDone'
  BY DEF Inv, TypeOK, Create, CompletedIsDone
<1>12. KeepsItsPlace'
  <2>1. \A r1 \in Runs, s1 \in Stages : Lost(r1, s1)' <=> Lost(r1, s1)
    BY Zenon DEF Create, ledger, Lost, Passed, Skipped
  <2>2. \A d \in Callers : Written(d) => Written(d)' /\ run'[d] = run[d] /\ stage'[d] = stage[d]
    BY DEF Inv, TypeOK, Create, Written, caller
  <2> QED BY <2>1, <2>2, KeepsPlace, Zenon DEF Create
<1> QED BY <1>1, <1>2, <1>3, <1>4, <1>5, <1>6, <1>7, <1>8, <1>9, <1>10, <1>11,
           <1>12 DEF Inv

LEMMA CallKeeps ==
  ASSUME Inv, NEW c \in Callers, NEW r \in Runs,
         Call(c, r)
  PROVE  Inv'
<1>1. TypeOK'
  BY PlaybookAssumption DEF Inv, TypeOK, Call, Goes, ledger, Body
<1>2. RunLock'
  BY DEF Inv, TypeOK, Call, Goes, Running, RunLock
<1>3. ScanLockInv'
  BY DEF Inv, TypeOK, Call, Goes, ScanLockInv, Scanning
<1>4. GateInv'
  BY DEF Inv, TypeOK, Call, ledger, GateInv
<1>5. PlaceInv'
  BY DEF Inv, TypeOK, Call, Goes, ledger, PlaceInv
<1>6. KnowsInv'
  BY DEF Inv, TypeOK, Call, Goes, ledger, KnowsInv, PlaceInv, KeysFree, StatusHere
<1>7. Headroom'
  BY DEF Inv, TypeOK, Call, Goes, ledger, Headroom
<1>8. SpendWithinCap'
  BY DEF Inv, TypeOK, Call, ledger, SpendWithinCap
<1>9. GateExclusion'
  BY DEF Inv, TypeOK, Call, ledger, GateExclusion
<1>10. CommittedIsComplete'
  BY DEF Inv, TypeOK, Call, ledger, CommittedIsComplete
<1>11. CompletedIsDone'
  BY DEF Inv, TypeOK, Call, ledger, CompletedIsDone
<1>12. KeepsItsPlace'
  <2>1. \A r1 \in Runs, s1 \in Stages : Lost(r1, s1)' <=> Lost(r1, s1)
    BY Zenon DEF Call, ledger, Lost, Passed, Skipped
  <2>2. \A d \in Callers : Written(d) => Written(d)' /\ run'[d] = run[d] /\ stage'[d] = stage[d]
    BY DEF Inv, TypeOK, Call, Written, ledger, Goes
  <2> QED BY <2>1, <2>2, KeepsPlace, Zenon DEF Call
<1> QED BY <1>1, <1>2, <1>3, <1>4, <1>5, <1>6, <1>7, <1>8, <1>9, <1>10, <1>11,
           <1>12 DEF Inv

LEMMA EnterKeeps ==
  ASSUME Inv, NEW c \in Callers,
         Enter(c)
  PROVE  Inv'
<1>1. TypeOK'
  BY DEF Inv, TypeOK, Enter, Goes, Body
<1>2. RunLock'
  BY DEF Inv, TypeOK, Enter, Goes, RunLock
<1>3. ScanLockInv'
  BY DEF Inv, TypeOK, Enter, Goes, ScanLockInv, Scanning
<1>4. GateInv'
  BY DEF Inv, TypeOK, Enter, GateInv
<1>5. PlaceInv'
  BY DEF Inv, TypeOK, Enter, Goes, PlaceInv
<1>6. KnowsInv'
  BY DEF Inv, TypeOK, Enter, Goes, KnowsInv, PlaceInv, KeysFree, StatusHere
<1>7. Headroom'
  BY DEF Inv, TypeOK, Enter, Goes, Headroom
<1>8. SpendWithinCap'
  BY DEF Inv, TypeOK, Enter, SpendWithinCap
<1>9. GateExclusion'
  BY DEF Inv, TypeOK, Enter, GateExclusion
<1>10. CommittedIsComplete'
  BY DEF Inv, TypeOK, Enter, CommittedIsComplete
<1>11. CompletedIsDone'
  BY DEF Inv, TypeOK, Enter, CompletedIsDone
<1>12. KeepsItsPlace'
  <2>1. \A r1 \in Runs, s1 \in Stages : Lost(r1, s1)' <=> Lost(r1, s1)
    BY Zenon DEF Enter, ledger, Lost, Passed, Skipped
  <2>2. \A d \in Callers : Written(d) => Written(d)' /\ run'[d] = run[d] /\ stage'[d] = stage[d]
    BY DEF Inv, TypeOK, Enter, Written, Goes
  <2> QED BY <2>1, <2>2, KeepsPlace, Zenon DEF Enter
<1> QED BY <1>1, <1>2, <1>3, <1>4, <1>5, <1>6, <1>7, <1>8, <1>9, <1>10, <1>11,
           <1>12 DEF Inv

LEMMA MissingLineKeeps ==
  ASSUME Inv, NEW c \in Callers, NEW s \in Stages,
         MissingLine(c, s)
  PROVE  Inv'
<1>1. TypeOK'
  <2>1. /\ created' \subseteq Runs /\ finished' \subseteq Runs
        /\ output' \subseteq Runs \X Stages /\ committed' \subseteq Runs \X Stages
        /\ cut' \subseteq Runs \X Stages /\ pending' \subseteq Decisions
        /\ rulings' \subseteq Decisions \X Dispositions
    BY DEF Inv, TypeOK, MissingLine, ledger
  <2>2. /\ status' \in [Runs -> [Stages -> Status]] /\ faults' \in 0..MaxFaults
        /\ round' \in [Runs -> [Stages -> 0..MaxRounds]] /\ spent' \in [Runs -> Nat]
        /\ queued' \in [Runs -> Decisions \union {None}]
    BY DEF Inv, TypeOK, MissingLine, ledger
  <2>3. /\ stage' \in [Callers -> 0..Length]
        /\ run' \in [Callers -> Runs \union {None}]
        /\ ruling' \in [Callers -> Dispositions \union {None}]
    BY StageRange DEF Inv, TypeOK, MissingLine, Turns
  <2>5. num' \in [Callers -> Nat]
    BY DEF Inv, TypeOK, MissingLine, Turns, Here
  <2>4. /\ pc' \in [Callers -> {"idle", "answer", "answered"} \union Body]
        /\ \A d \in Callers : pc'[d] = "idle" <=> run'[d] = None
    BY DEF Inv, TypeOK, MissingLine, Turns, Goes, Here, Body
  <2> QED BY <2>1, <2>2, <2>3, <2>4, <2>5 DEF TypeOK
<1>2. RunLock'
  BY DEF Inv, TypeOK, MissingLine, Turns, Goes, Here, RunLock
<1>3. ScanLockInv'
  BY DEF Inv, TypeOK, MissingLine, Turns, Goes, ScanLockInv, Scanning
<1>4. GateInv'
  BY DEF Inv, TypeOK, MissingLine, ledger, GateInv
<1>5. PlaceInv'
  BY DEF Inv, TypeOK, MissingLine, Turns, Goes, ledger, Here, PlaceInv, GateInv
<1>6. KnowsInv'
  BY DEF Inv, TypeOK, MissingLine, Turns, Goes, ledger, KnowsInv, PlaceInv, KeysFree,
     StatusHere
<1>7. Headroom'
  BY DEF Inv, TypeOK, MissingLine, Turns, Goes, ledger, Headroom
<1>8. SpendWithinCap'
  BY DEF Inv, TypeOK, MissingLine, ledger, SpendWithinCap
<1>9. GateExclusion'
  BY DEF Inv, TypeOK, MissingLine, ledger, GateExclusion
<1>10. CommittedIsComplete'
  BY DEF Inv, TypeOK, MissingLine, ledger, CommittedIsComplete
<1>11. CompletedIsDone'
  BY DEF Inv, TypeOK, MissingLine, ledger, CompletedIsDone
<1>12. KeepsItsPlace'
  <2>1. \A r1 \in Runs, s1 \in Stages : Lost(r1, s1)' <=> Lost(r1, s1)
    BY Zenon DEF MissingLine, ledger, Lost, Passed, Skipped
  <2>2. \A d \in Callers : Written(d) => Written(d)' /\ run'[d] = run[d] /\ stage'[d] = stage[d]
    BY DEF Inv, TypeOK, MissingLine, Written, ledger, Turns, Goes, Here
  <2> QED BY <2>1, <2>2, KeepsPlace, Zenon DEF MissingLine
<1> QED BY <1>1, <1>2, <1>3, <1>4, <1>5, <1>6, <1>7, <1>8, <1>9, <1>10, <1>11,
           <1>12 DEF Inv

LEMMA RereadKeeps ==
  ASSUME Inv, NEW c \in Callers,
         Reread(c)
  PROVE  Inv'
<1>1. TypeOK'
  BY DEF Inv, TypeOK, Reread, Goes, ledger, Body
<1>2. RunLock'
  BY DEF Inv, TypeOK, Reread, Goes, RunLock, Body
<1>3. ScanLockInv'
  BY DEF Inv, TypeOK, Reread, Goes, ScanLockInv, Scanning
<1>4. GateInv'
  BY DEF Inv, TypeOK, Reread, ledger, GateInv
<1>5. PlaceInv'
  BY DEF Inv, TypeOK, Reread, Goes, ledger, PlaceInv
<1>6. KnowsInv'
  BY DEF Inv, TypeOK, Reread, Goes, ledger, KnowsInv, PlaceInv, KeysFree, StatusHere
<1>7. Headroom'
  BY DEF Inv, TypeOK, Reread, Goes, ledger, Headroom
<1>8. SpendWithinCap'
  BY DEF Inv, TypeOK, Reread, ledger, SpendWithinCap
<1>9. GateExclusion'
  BY DEF Inv, TypeOK, Reread, ledger, GateExclusion
<1>10. CommittedIsComplete'
  BY DEF Inv, TypeOK, Reread, ledger, CommittedIsComplete
<1>11. CompletedIsDone'
  BY DEF Inv, TypeOK, Reread, ledger, CompletedIsDone
<1>12. KeepsItsPlace'
  <2>1. \A r1 \in Runs, s1 \in Stages : Lost(r1, s1)' <=> Lost(r1, s1)
    BY Zenon DEF Reread, ledger, Lost, Passed, Skipped
  <2>2. \A d \in Callers : Written(d) => Written(d)' /\ run'[d] = run[d] /\ stage'[d] = stage[d]
    BY DEF Inv, TypeOK, Reread, Written, ledger, Goes
  <2> QED BY <2>1, <2>2, KeepsPlace, Zenon DEF Reread
<1> QED BY <1>1, <1>2, <1>3, <1>4, <1>5, <1>6, <1>7, <1>8, <1>9, <1>10, <1>11,
           <1>12 DEF Inv

LEMMA HealKeeps ==
  ASSUME Inv, NEW c \in Callers,
         Heal(c)
  PROVE  Inv'
<1>1. TypeOK'
  <2>1. /\ created' \subseteq Runs /\ finished' \subseteq Runs
        /\ output' \subseteq Runs \X Stages /\ committed' \subseteq Runs \X Stages
        /\ cut' \subseteq Runs \X Stages /\ pending' \subseteq Decisions
        /\ rulings' \subseteq Decisions \X Dispositions
    BY DecisionType DEF Inv, TypeOK, Heal
  <2>2. /\ status' \in [Runs -> [Stages -> Status]] /\ faults' \in 0..MaxFaults
        /\ round' \in [Runs -> [Stages -> 0..MaxRounds]] /\ spent' \in [Runs -> Nat]
        /\ queued' \in [Runs -> Decisions \union {None}]
    BY DEF Inv, TypeOK, Heal
  <2>3. /\ stage' \in [Callers -> 0..Length]
        /\ run' \in [Callers -> Runs \union {None}]
        /\ ruling' \in [Callers -> Dispositions \union {None}]
    BY StageRange DEF Inv, TypeOK, Heal, Returns
  <2>5. num' \in [Callers -> Nat]
    BY DEF Inv, TypeOK, Heal, Returns
  <2>4. /\ pc' \in [Callers -> {"idle", "answer", "answered"} \union Body]
        /\ \A d \in Callers : pc'[d] = "idle" <=> run'[d] = None
    BY DEF Inv, TypeOK, Heal, Returns, Goes
  <2> QED BY <2>1, <2>2, <2>3, <2>4, <2>5 DEF TypeOK
<1>2. RunLock'
  BY DEF Inv, TypeOK, Heal, Returns, Goes, RunLock, Body
<1>3. ScanLockInv'
  BY DEF Inv, TypeOK, Heal, Returns, Goes, ScanLockInv, Scanning
<1>4. GateInv'
  BY DEF Inv, TypeOK, Heal, GateInv
<1>5. PlaceInv'
  BY DEF Inv, TypeOK, Heal, Returns, Goes, PlaceInv
<1>6. KnowsInv'
  BY DEF Inv, TypeOK, Heal, Returns, Goes, KnowsInv, PlaceInv, KeysFree, StatusHere
<1>7. Headroom'
  BY DEF Inv, TypeOK, Heal, Returns, Goes, Headroom
<1>8. SpendWithinCap'
  BY DEF Inv, TypeOK, Heal, SpendWithinCap
<1>9. GateExclusion'
  BY DEF Inv, TypeOK, Heal, GateExclusion
<1>10. CommittedIsComplete'
  BY DEF Inv, TypeOK, Heal, CommittedIsComplete
<1>11. CompletedIsDone'
  BY DEF Inv, TypeOK, Heal, CompletedIsDone
<1>12. KeepsItsPlace'
  <2>1. \A r1 \in Runs, s1 \in Stages : Lost(r1, s1)' <=> Lost(r1, s1)
    BY Zenon DEF Heal, ledger, Lost, Passed, Skipped
  <2>2. \A d \in Callers : Written(d) => Written(d)' /\ run'[d] = run[d] /\ stage'[d] = stage[d]
    BY DEF Inv, TypeOK, Heal, Written, Returns, Goes
  <2> QED BY <2>1, <2>2, KeepsPlace, Zenon DEF Heal
<1> QED BY <1>1, <1>2, <1>3, <1>4, <1>5, <1>6, <1>7, <1>8, <1>9, <1>10, <1>11,
           <1>12 DEF Inv

LEMMA RepairKeeps ==
  ASSUME Inv, NEW c \in Callers, NEW s \in Stages,
         Repair(c, s)
  PROVE  Inv'
<1>1. TypeOK'
  BY DEF Inv, TypeOK, Repair, ledger, caller
<1>2. RunLock'
  BY DEF Inv, TypeOK, Repair, caller, RunLock
<1>3. ScanLockInv'
  BY DEF Inv, TypeOK, Repair, caller, ScanLockInv, Scanning
<1>4. GateInv'
  BY DEF Inv, TypeOK, Repair, ledger, GateInv
<1>5. PlaceInv'
  BY DEF Inv, TypeOK, Repair, ledger, caller, PlaceInv
<1>6. KnowsInv'
  BY DEF Inv, TypeOK, Repair, ledger, caller, KnowsInv, PlaceInv, KeysFree, StatusHere
<1>7. Headroom'
  BY DEF Inv, TypeOK, Repair, ledger, caller, Headroom
<1>8. SpendWithinCap'
  BY DEF Inv, TypeOK, Repair, ledger, SpendWithinCap
<1>9. GateExclusion'
  BY DEF Inv, TypeOK, Repair, ledger, GateExclusion
<1>10. CommittedIsComplete'
  BY DEF Inv, TypeOK, Repair, ledger, CommittedIsComplete
<1>11. CompletedIsDone'
  BY DEF Inv, TypeOK, Repair, ledger, CompletedIsDone
<1>12. KeepsItsPlace'
  <2>1. \A r1 \in Runs, s1 \in Stages : Lost(r1, s1)' => Lost(r1, s1)
    BY DEF Repair, ledger, Lost, Passed, Skipped
  <2>2. \A d \in Callers : Written(d) => Written(d)' /\ run'[d] = run[d] /\ stage'[d] = stage[d]
    BY DEF Inv, TypeOK, Repair, Written, ledger, caller
  <2> QED BY <2>1, <2>2, KeepsPlace, Zenon DEF Repair
<1> QED BY <1>1, <1>2, <1>3, <1>4, <1>5, <1>6, <1>7, <1>8, <1>9, <1>10, <1>11,
           <1>12 DEF Inv

LEMMA FinishesKeeps ==
  ASSUME Inv, NEW c \in Callers,
         Finishes(c)
  PROVE  Inv'
<1>1. TypeOK'
  <2>1. /\ created' \subseteq Runs /\ finished' \subseteq Runs
        /\ output' \subseteq Runs \X Stages /\ committed' \subseteq Runs \X Stages
        /\ cut' \subseteq Runs \X Stages /\ pending' \subseteq Decisions
        /\ rulings' \subseteq Decisions \X Dispositions
    BY DEF Inv, TypeOK, Finishes
  <2>2. /\ status' \in [Runs -> [Stages -> Status]] /\ faults' \in 0..MaxFaults
        /\ round' \in [Runs -> [Stages -> 0..MaxRounds]] /\ spent' \in [Runs -> Nat]
        /\ queued' \in [Runs -> Decisions \union {None}]
    BY DEF Inv, TypeOK, Finishes
  <2>3. /\ stage' \in [Callers -> 0..Length]
        /\ run' \in [Callers -> Runs \union {None}]
        /\ ruling' \in [Callers -> Dispositions \union {None}]
    BY StageRange DEF Inv, TypeOK, Finishes, Returns
  <2>5. num' \in [Callers -> Nat]
    BY DEF Inv, TypeOK, Finishes, Returns
  <2>4. /\ pc' \in [Callers -> {"idle", "answer", "answered"} \union Body]
        /\ \A d \in Callers : pc'[d] = "idle" <=> run'[d] = None
    BY DEF Inv, TypeOK, Finishes, Returns, Goes
  <2> QED BY <2>1, <2>2, <2>3, <2>4, <2>5 DEF TypeOK
<1>2. RunLock'
  BY DEF Inv, TypeOK, Finishes, Returns, Goes, RunLock, Body
<1>3. ScanLockInv'
  BY DEF Inv, TypeOK, Finishes, Returns, Goes, ScanLockInv, Scanning
<1>4. GateInv'
  BY DEF Inv, TypeOK, Finishes, GateInv
<1>5. PlaceInv'
  BY DEF Inv, TypeOK, Finishes, Returns, Goes, PlaceInv
<1>6. KnowsInv'
  BY DEF Inv, TypeOK, Finishes, Returns, Goes, KnowsInv, PlaceInv, KeysFree, StatusHere
<1>7. Headroom'
  BY DEF Inv, TypeOK, Finishes, Returns, Goes, Headroom
<1>8. SpendWithinCap'
  BY DEF Inv, TypeOK, Finishes, SpendWithinCap
<1>9. GateExclusion'
  BY DEF Inv, TypeOK, Finishes, GateExclusion
<1>10. CommittedIsComplete'
  BY DEF Inv, TypeOK, Finishes, CommittedIsComplete
<1>11. CompletedIsDone'
  <2>1. \A s \in Stages : status[run[c]][s] \in Done
    BY DEF Finishes, Passed, Done
  <2> QED BY <2>1 DEF Inv, CompletedIsDone, Finishes
<1>12. KeepsItsPlace'
  <2>1. \A r1 \in Runs, s1 \in Stages : Lost(r1, s1)' <=> Lost(r1, s1)
    BY Zenon DEF Finishes, ledger, Lost, Passed, Skipped
  <2>2. \A d \in Callers : Written(d) => Written(d)' /\ run'[d] = run[d] /\ stage'[d] = stage[d]
    BY DEF Inv, TypeOK, Finishes, Written, Returns, Goes
  <2> QED BY <2>1, <2>2, KeepsPlace, Zenon DEF Finishes
<1> QED BY <1>1, <1>2, <1>3, <1>4, <1>5, <1>6, <1>7, <1>8, <1>9, <1>10, <1>11,
           <1>12 DEF Inv

LEMMA ToGateKeeps ==
  ASSUME Inv, NEW c \in Callers, NEW s \in Stages,
         ToGate(c, s)
  PROVE  Inv'
<1>1. TypeOK'
  <2>1. /\ created' \subseteq Runs /\ finished' \subseteq Runs
        /\ output' \subseteq Runs \X Stages /\ committed' \subseteq Runs \X Stages
        /\ cut' \subseteq Runs \X Stages /\ pending' \subseteq Decisions
        /\ rulings' \subseteq Decisions \X Dispositions
    BY DEF Inv, TypeOK, ToGate, ledger
  <2>2. /\ status' \in [Runs -> [Stages -> Status]] /\ faults' \in 0..MaxFaults
        /\ round' \in [Runs -> [Stages -> 0..MaxRounds]] /\ spent' \in [Runs -> Nat]
        /\ queued' \in [Runs -> Decisions \union {None}]
    BY DEF Inv, TypeOK, ToGate, ledger
  <2>3. /\ stage' \in [Callers -> 0..Length]
        /\ run' \in [Callers -> Runs \union {None}]
        /\ ruling' \in [Callers -> Dispositions \union {None}]
    BY StageRange DEF Inv, TypeOK, ToGate, Turns
  <2>5. num' \in [Callers -> Nat]
    BY DEF Inv, TypeOK, ToGate, Turns
  <2>4. /\ pc' \in [Callers -> {"idle", "answer", "answered"} \union Body]
        /\ \A d \in Callers : pc'[d] = "idle" <=> run'[d] = None
    BY DEF Inv, TypeOK, ToGate, Turns, Goes, Here, Body
  <2> QED BY <2>1, <2>2, <2>3, <2>4, <2>5 DEF TypeOK
<1>2. RunLock'
  BY DEF Inv, TypeOK, ToGate, Turns, Goes, Here, RunLock
<1>3. ScanLockInv'
  BY DEF Inv, TypeOK, ToGate, Turns, Goes, ScanLockInv, Scanning
<1>4. GateInv'
  BY DEF Inv, TypeOK, ToGate, ledger, GateInv
<1>5. PlaceInv'
  BY DEF Inv, TypeOK, ToGate, Turns, Goes, ledger, Here, PlaceInv
<1>6. KnowsInv'
  BY DEF Inv, TypeOK, ToGate, Turns, Goes, ledger, KnowsInv, PlaceInv, KeysFree,
     StatusHere
<1>7. Headroom'
  BY DEF Inv, TypeOK, ToGate, Turns, Goes, ledger, Headroom
<1>8. SpendWithinCap'
  BY DEF Inv, TypeOK, ToGate, ledger, SpendWithinCap
<1>9. GateExclusion'
  BY DEF Inv, TypeOK, ToGate, ledger, GateExclusion
<1>10. CommittedIsComplete'
  BY DEF Inv, TypeOK, ToGate, ledger, CommittedIsComplete
<1>11. CompletedIsDone'
  BY DEF Inv, TypeOK, ToGate, ledger, CompletedIsDone
<1>12. KeepsItsPlace'
  <2>1. \A r1 \in Runs, s1 \in Stages : Lost(r1, s1)' <=> Lost(r1, s1)
    BY Zenon DEF ToGate, ledger, Lost, Passed, Skipped
  <2>2. \A d \in Callers : Written(d) => Written(d)' /\ run'[d] = run[d] /\ stage'[d] = stage[d]
    BY DEF Inv, TypeOK, ToGate, Written, ledger, Turns, Goes, Here
  <2> QED BY <2>1, <2>2, KeepsPlace, Zenon DEF ToGate
<1> QED BY <1>1, <1>2, <1>3, <1>4, <1>5, <1>6, <1>7, <1>8, <1>9, <1>10, <1>11,
           <1>12 DEF Inv

LEMMA ScanLockKeeps ==
  ASSUME Inv, NEW c \in Callers,
         ScanLock(c)
  PROVE  Inv'
<1>1. TypeOK'
  BY DEF Inv, TypeOK, ScanLock, Goes, ledger, Body
<1>2. RunLock'
  BY DEF Inv, TypeOK, ScanLock, Goes, RunLock
<1>3. ScanLockInv'
  BY DEF Inv, TypeOK, ScanLock, Goes, ScanLockInv, Scanning
<1>4. GateInv'
  BY DEF Inv, TypeOK, ScanLock, ledger, GateInv
<1>5. PlaceInv'
  BY DEF Inv, TypeOK, ScanLock, Goes, ledger, PlaceInv
<1>6. KnowsInv'
  BY DEF Inv, TypeOK, ScanLock, Goes, ledger, KnowsInv, PlaceInv, KeysFree, StatusHere
<1>7. Headroom'
  BY DEF Inv, TypeOK, ScanLock, Goes, ledger, Headroom
<1>8. SpendWithinCap'
  BY DEF Inv, TypeOK, ScanLock, ledger, SpendWithinCap
<1>9. GateExclusion'
  BY DEF Inv, TypeOK, ScanLock, ledger, GateExclusion
<1>10. CommittedIsComplete'
  BY DEF Inv, TypeOK, ScanLock, ledger, CommittedIsComplete
<1>11. CompletedIsDone'
  BY DEF Inv, TypeOK, ScanLock, ledger, CompletedIsDone
<1>12. KeepsItsPlace'
  <2>1. \A r1 \in Runs, s1 \in Stages : Lost(r1, s1)' <=> Lost(r1, s1)
    BY Zenon DEF ScanLock, ledger, Lost, Passed, Skipped
  <2>2. \A d \in Callers : Written(d) => Written(d)' /\ run'[d] = run[d] /\ stage'[d] = stage[d]
    BY DEF Inv, TypeOK, ScanLock, Written, ledger, Goes
  <2> QED BY <2>1, <2>2, KeepsPlace, Zenon DEF ScanLock
<1> QED BY <1>1, <1>2, <1>3, <1>4, <1>5, <1>6, <1>7, <1>8, <1>9, <1>10, <1>11,
           <1>12 DEF Inv

LEMMA QueuesKeeps ==
  ASSUME Inv, NEW c \in Callers,
         Queues(c)
  PROVE  Inv'
<1>1. TypeOK'
  <2>1. /\ created' \subseteq Runs /\ finished' \subseteq Runs
        /\ output' \subseteq Runs \X Stages /\ committed' \subseteq Runs \X Stages
        /\ cut' \subseteq Runs \X Stages /\ pending' \subseteq Decisions
        /\ rulings' \subseteq Decisions \X Dispositions
    BY DEF Inv, TypeOK, Queues
  <2>2. /\ status' \in [Runs -> [Stages -> Status]] /\ faults' \in 0..MaxFaults
        /\ round' \in [Runs -> [Stages -> 0..MaxRounds]] /\ spent' \in [Runs -> Nat]
        /\ queued' \in [Runs -> Decisions \union {None}]
    BY DEF Inv, TypeOK, Queues, Holders
  <2>3. /\ stage' \in [Callers -> 0..Length]
        /\ run' \in [Callers -> Runs \union {None}]
        /\ ruling' \in [Callers -> Dispositions \union {None}]
    BY StageRange DEF Inv, TypeOK, Queues, Returns
  <2>5. num' \in [Callers -> Nat]
    BY DEF Inv, TypeOK, Queues, Returns
  <2>4. /\ pc' \in [Callers -> {"idle", "answer", "answered"} \union Body]
        /\ \A d \in Callers : pc'[d] = "idle" <=> run'[d] = None
    BY DEF Inv, TypeOK, Queues, Returns, Goes
  <2> QED BY <2>1, <2>2, <2>3, <2>4, <2>5 DEF TypeOK
<1>2. RunLock'
  BY DEF Inv, TypeOK, Queues, Returns, Goes, RunLock, Body
<1>3. ScanLockInv'
  BY DEF Inv, TypeOK, Queues, Returns, Goes, ScanLockInv, Scanning
<1>4. GateInv'
  BY DEF Inv, TypeOK, Queues, GateInv
<1>5. PlaceInv'
  BY DEF Inv, TypeOK, Queues, Returns, Goes, PlaceInv
<1>6. KnowsInv'
  BY DEF Inv, TypeOK, Queues, Returns, Goes, KnowsInv, PlaceInv, KeysFree, StatusHere
<1>7. Headroom'
  BY DEF Inv, TypeOK, Queues, Returns, Goes, Headroom
<1>8. SpendWithinCap'
  BY DEF Inv, TypeOK, Queues, SpendWithinCap
<1>9. GateExclusion'
  BY DEF Inv, TypeOK, Queues, GateExclusion
<1>10. CommittedIsComplete'
  BY DEF Inv, TypeOK, Queues, CommittedIsComplete
<1>11. CompletedIsDone'
  BY DEF Inv, TypeOK, Queues, CompletedIsDone
<1>12. KeepsItsPlace'
  <2>1. \A r1 \in Runs, s1 \in Stages : Lost(r1, s1)' <=> Lost(r1, s1)
    BY Zenon DEF Queues, ledger, Lost, Passed, Skipped
  <2>2. \A d \in Callers : Written(d) => Written(d)' /\ run'[d] = run[d] /\ stage'[d] = stage[d]
    BY DEF Inv, TypeOK, Queues, Written, Returns, Goes
  <2> QED BY <2>1, <2>2, KeepsPlace, Zenon DEF Queues
<1> QED BY <1>1, <1>2, <1>3, <1>4, <1>5, <1>6, <1>7, <1>8, <1>9, <1>10, <1>11,
           <1>12 DEF Inv

LEMMA NoConflictKeeps ==
  ASSUME Inv, NEW c \in Callers,
         NoConflict(c)
  PROVE  Inv'
<1>1. TypeOK'
  BY DEF Inv, TypeOK, NoConflict, Goes, ledger, Body
<1>2. RunLock'
  BY DEF Inv, TypeOK, NoConflict, Goes, RunLock
<1>3. ScanLockInv'
  BY DEF Inv, TypeOK, NoConflict, Goes, ScanLockInv, Scanning
<1>4. GateInv'
  BY DEF Inv, TypeOK, NoConflict, ledger, GateInv
<1>5. PlaceInv'
  BY DEF Inv, TypeOK, NoConflict, Goes, ledger, PlaceInv
<1>6. KnowsInv'
  <2>1. KeysFree(c)
    <3> SUFFICES ASSUME NEW q \in Runs, NEW t \in Stages, q # run[c],
                        status[q][t] = "awaiting_decision"
                 PROVE  Keys[run[c]][stage[c]] \intersect Keys[q][t] = {}
      BY Zenon DEF KeysFree
    <3> DEFINE d == <<q, t, round[q][t]>>
    <3>1. d \in Decisions /\ d[1] = q /\ d[2] = t /\ d[3] = round[q][t] /\ q \in created
      BY DEF Inv, GateInv, Decisions
    <3>2. d \notin Holders(c)
      BY DEF NoConflict
    <3> HIDE DEF d
    <3> QED BY <3>1, <3>2 DEF Holders, Awaits
  <2> QED BY <2>1 DEF Inv, TypeOK, NoConflict, Goes, ledger, KnowsInv, KeysFree,
             StatusHere
<1>7. Headroom'
  BY DEF Inv, TypeOK, NoConflict, Goes, ledger, Headroom
<1>8. SpendWithinCap'
  BY DEF Inv, TypeOK, NoConflict, ledger, SpendWithinCap
<1>9. GateExclusion'
  BY DEF Inv, TypeOK, NoConflict, ledger, GateExclusion
<1>10. CommittedIsComplete'
  BY DEF Inv, TypeOK, NoConflict, ledger, CommittedIsComplete
<1>11. CompletedIsDone'
  BY DEF Inv, TypeOK, NoConflict, ledger, CompletedIsDone
<1>12. KeepsItsPlace'
  <2>1. \A r1 \in Runs, s1 \in Stages : Lost(r1, s1)' <=> Lost(r1, s1)
    BY Zenon DEF NoConflict, ledger, Lost, Passed, Skipped
  <2>2. \A d \in Callers : Written(d) => Written(d)' /\ run'[d] = run[d] /\ stage'[d] = stage[d]
    BY DEF Inv, TypeOK, NoConflict, Written, ledger, Goes
  <2> QED BY <2>1, <2>2, KeepsPlace, Zenon DEF NoConflict
<1> QED BY <1>1, <1>2, <1>3, <1>4, <1>5, <1>6, <1>7, <1>8, <1>9, <1>10, <1>11,
           <1>12 DEF Inv

\* The caller has the scan lock, and the keys it claims are still free: a gate that
\* was suspended meanwhile would have needed that lock.
LEMMA ClaimKeeps ==
  ASSUME Inv, NEW c \in Callers,
         Claim(c)
  PROVE  Inv'
<1>1. TypeOK'
  <2>1. /\ created' \subseteq Runs /\ finished' \subseteq Runs
        /\ output' \subseteq Runs \X Stages /\ committed' \subseteq Runs \X Stages
        /\ cut' \subseteq Runs \X Stages /\ pending' \subseteq Decisions
        /\ rulings' \subseteq Decisions \X Dispositions
    BY DEF Inv, TypeOK, Claim
  <2>2. /\ status' \in [Runs -> [Stages -> Status]] /\ faults' \in 0..MaxFaults
        /\ round' \in [Runs -> [Stages -> 0..MaxRounds]] /\ spent' \in [Runs -> Nat]
        /\ queued' \in [Runs -> Decisions \union {None}]
    <3>1. run[c] \in Runs /\ stage[c] \in Stages
      BY RunTypes, CallerTypes DEF Claim
    <3>2. round[run[c]][stage[c]] + 1 \in 0..MaxRounds
      BY <3>1 DEF Inv, TypeOK, Claim
    <3>3. status' \in [Runs -> [Stages -> Status]]
      BY <3>1 DEF Inv, TypeOK, Claim, Sets, Status
    <3>4. round' \in [Runs -> [Stages -> 0..MaxRounds]]
      BY <3>1, <3>2 DEF Inv, TypeOK, Claim
    <3> QED BY <3>3, <3>4 DEF Inv, TypeOK, Claim
  <2>3. /\ stage' \in [Callers -> 0..Length]
        /\ run' \in [Callers -> Runs \union {None}]
        /\ ruling' \in [Callers -> Dispositions \union {None}]
    BY DEF Inv, TypeOK, Claim, Turns
  <2>5. num' \in [Callers -> Nat]
    <3>0. run[c] \in Runs /\ stage[c] \in Stages
      BY RunTypes, CallerTypes DEF Claim
    <3>1. round[run[c]][stage[c]] \in 0..MaxRounds
      BY <3>0 DEF Inv, TypeOK
    <3>2. round[run[c]][stage[c]] + 1 \in Nat
      BY <3>1, PlaybookAssumption
    <3> QED BY <3>2 DEF Inv, TypeOK, Claim, Turns
  <2>4. /\ pc' \in [Callers -> {"idle", "answer", "answered"} \union Body]
        /\ \A d \in Callers : pc'[d] = "idle" <=> run'[d] = None
    BY DEF Inv, TypeOK, Claim, Turns, Goes, Body
  <2> QED BY <2>1, <2>2, <2>3, <2>4, <2>5 DEF TypeOK
<1>2. RunLock'
  BY DEF Inv, TypeOK, Claim, Turns, Goes, RunLock
<1>3. ScanLockInv'
  BY DEF Inv, TypeOK, Claim, Turns, Goes, ScanLockInv, Scanning
<1>4. GateInv'
  BY DEF Inv, TypeOK, Claim, Sets, GateInv, PlaceInv
<1>5. PlaceInv'
  BY DEF Inv, TypeOK, Claim, Turns, Goes, PlaceInv
<1>6. KnowsInv'
  BY DEF Inv, TypeOK, Claim, Turns, Goes, Sets, KnowsInv, PlaceInv, RunLock,
     ScanLockInv, Scanning, KeysFree, StatusHere, Done, Outcome, Decisions, Dispositions
<1>7. Headroom'
  BY DEF Inv, TypeOK, Claim, Turns, Goes, Headroom
<1>8. SpendWithinCap'
  BY DEF Inv, TypeOK, Claim, SpendWithinCap
<1>9. GateExclusion'
  BY DEF Inv, TypeOK, Claim, Sets, GateExclusion, KnowsInv, KeysFree
<1>10. CommittedIsComplete'
  BY DEF Inv, TypeOK, Claim, Sets, CommittedIsComplete, Open
<1>11. CompletedIsDone'
  BY DEF Inv, TypeOK, Claim, Sets, CompletedIsDone, Open, Done
<1>12. KeepsItsPlace'
  <2>1. \A r1 \in Runs, s1 \in Stages : Lost(r1, s1)' => Lost(r1, s1)
    BY DEF Inv, TypeOK, Claim, Sets, Lost, Passed, Skipped, Done
  <2>2. \A d \in Callers : Written(d) => Written(d)' /\ run'[d] = run[d] /\ stage'[d] = stage[d]
    BY DEF Inv, TypeOK, Claim, Written, Turns, Goes, Sets, Done, Open
  <2> QED BY <2>1, <2>2, KeepsPlace, Zenon DEF Claim
<1> QED BY <1>1, <1>2, <1>3, <1>4, <1>5, <1>6, <1>7, <1>8, <1>9, <1>10, <1>11,
           <1>12 DEF Inv

LEMMA SuspendKeeps ==
  ASSUME Inv, NEW c \in Callers,
         Suspend(c)
  PROVE  Inv'
<1>1. TypeOK'
  <2>1. /\ created' \subseteq Runs /\ finished' \subseteq Runs
        /\ output' \subseteq Runs \X Stages /\ committed' \subseteq Runs \X Stages
        /\ cut' \subseteq Runs \X Stages /\ pending' \subseteq Decisions
        /\ rulings' \subseteq Decisions \X Dispositions
    BY DecisionType DEF Inv, TypeOK, Suspend
  <2>2. /\ status' \in [Runs -> [Stages -> Status]] /\ faults' \in 0..MaxFaults
        /\ round' \in [Runs -> [Stages -> 0..MaxRounds]] /\ spent' \in [Runs -> Nat]
        /\ queued' \in [Runs -> Decisions \union {None}]
    BY DEF Inv, TypeOK, Suspend
  <2>3. /\ stage' \in [Callers -> 0..Length]
        /\ run' \in [Callers -> Runs \union {None}]
        /\ ruling' \in [Callers -> Dispositions \union {None}]
    BY StageRange DEF Inv, TypeOK, Suspend, Returns
  <2>5. num' \in [Callers -> Nat]
    BY DEF Inv, TypeOK, Suspend, Returns
  <2>4. /\ pc' \in [Callers -> {"idle", "answer", "answered"} \union Body]
        /\ \A d \in Callers : pc'[d] = "idle" <=> run'[d] = None
    BY DEF Inv, TypeOK, Suspend, Returns, Goes
  <2> QED BY <2>1, <2>2, <2>3, <2>4, <2>5 DEF TypeOK
<1>2. RunLock'
  BY DEF Inv, TypeOK, Suspend, Returns, Goes, RunLock, Body
<1>3. ScanLockInv'
  BY DEF Inv, TypeOK, Suspend, Returns, Goes, ScanLockInv, Scanning
<1>4. GateInv'
  BY DEF Inv, TypeOK, Suspend, GateInv
<1>5. PlaceInv'
  BY DEF Inv, TypeOK, Suspend, Returns, Goes, PlaceInv
<1>6. KnowsInv'
  BY DEF Inv, TypeOK, Suspend, Returns, Goes, KnowsInv, PlaceInv, KeysFree, StatusHere
<1>7. Headroom'
  BY DEF Inv, TypeOK, Suspend, Returns, Goes, Headroom
<1>8. SpendWithinCap'
  BY DEF Inv, TypeOK, Suspend, SpendWithinCap
<1>9. GateExclusion'
  BY DEF Inv, TypeOK, Suspend, GateExclusion
<1>10. CommittedIsComplete'
  BY DEF Inv, TypeOK, Suspend, CommittedIsComplete
<1>11. CompletedIsDone'
  BY DEF Inv, TypeOK, Suspend, CompletedIsDone
<1>12. KeepsItsPlace'
  <2>1. \A r1 \in Runs, s1 \in Stages : Lost(r1, s1)' <=> Lost(r1, s1)
    BY Zenon DEF Suspend, ledger, Lost, Passed, Skipped
  <2>2. \A d \in Callers : Written(d) => Written(d)' /\ run'[d] = run[d] /\ stage'[d] = stage[d]
    BY DEF Inv, TypeOK, Suspend, Written, Returns, Goes
  <2> QED BY <2>1, <2>2, KeepsPlace, Zenon DEF Suspend
<1> QED BY <1>1, <1>2, <1>3, <1>4, <1>5, <1>6, <1>7, <1>8, <1>9, <1>10, <1>11,
           <1>12 DEF Inv

LEMMA ToStageKeeps ==
  ASSUME Inv, NEW c \in Callers, NEW s \in Stages,
         ToStage(c, s)
  PROVE  Inv'
<1>1. TypeOK'
  <2>1. /\ created' \subseteq Runs /\ finished' \subseteq Runs
        /\ output' \subseteq Runs \X Stages /\ committed' \subseteq Runs \X Stages
        /\ cut' \subseteq Runs \X Stages /\ pending' \subseteq Decisions
        /\ rulings' \subseteq Decisions \X Dispositions
    BY DEF Inv, TypeOK, ToStage, ledger
  <2>2. /\ status' \in [Runs -> [Stages -> Status]] /\ faults' \in 0..MaxFaults
        /\ round' \in [Runs -> [Stages -> 0..MaxRounds]] /\ spent' \in [Runs -> Nat]
        /\ queued' \in [Runs -> Decisions \union {None}]
    BY DEF Inv, TypeOK, ToStage, ledger
  <2>3. /\ stage' \in [Callers -> 0..Length]
        /\ run' \in [Callers -> Runs \union {None}]
        /\ ruling' \in [Callers -> Dispositions \union {None}]
    BY StageRange DEF Inv, TypeOK, ToStage, Turns
  <2>5. num' \in [Callers -> Nat]
    BY PlaybookAssumption DEF Inv, TypeOK, ToStage, Turns, Here
  <2>4. /\ pc' \in [Callers -> {"idle", "answer", "answered"} \union Body]
        /\ \A d \in Callers : pc'[d] = "idle" <=> run'[d] = None
    BY DEF Inv, TypeOK, ToStage, Turns, Goes, Here, Body
  <2> QED BY <2>1, <2>2, <2>3, <2>4, <2>5 DEF TypeOK
<1>2. RunLock'
  BY DEF Inv, TypeOK, ToStage, Turns, Goes, Here, RunLock
<1>3. ScanLockInv'
  BY DEF Inv, TypeOK, ToStage, Turns, Goes, ScanLockInv, Scanning
<1>4. GateInv'
  BY DEF Inv, TypeOK, ToStage, ledger, GateInv
<1>5. PlaceInv'
  BY DEF Inv, TypeOK, ToStage, Turns, Goes, ledger, Here, PlaceInv
<1>6. KnowsInv'
  BY DEF Inv, TypeOK, ToStage, Turns, Goes, ledger, KnowsInv, PlaceInv, KeysFree,
     StatusHere
<1>7. Headroom'
  BY PlaybookAssumption DEF Inv, TypeOK, ToStage, Turns, Goes, ledger, Here, Headroom
<1>8. SpendWithinCap'
  BY DEF Inv, TypeOK, ToStage, ledger, SpendWithinCap
<1>9. GateExclusion'
  BY DEF Inv, TypeOK, ToStage, ledger, GateExclusion
<1>10. CommittedIsComplete'
  BY DEF Inv, TypeOK, ToStage, ledger, CommittedIsComplete
<1>11. CompletedIsDone'
  BY DEF Inv, TypeOK, ToStage, ledger, CompletedIsDone
<1>12. KeepsItsPlace'
  <2>1. \A r1 \in Runs, s1 \in Stages : Lost(r1, s1)' <=> Lost(r1, s1)
    BY Zenon DEF ToStage, ledger, Lost, Passed, Skipped
  <2>2. \A d \in Callers : Written(d) => Written(d)' /\ run'[d] = run[d] /\ stage'[d] = stage[d]
    BY DEF Inv, TypeOK, ToStage, Written, ledger, Turns, Goes, Here
  <2> QED BY <2>1, <2>2, KeepsPlace, Zenon DEF ToStage
<1> QED BY <1>1, <1>2, <1>3, <1>4, <1>5, <1>6, <1>7, <1>8, <1>9, <1>10, <1>11,
           <1>12 DEF Inv

LEMMA NormalizeKeeps ==
  ASSUME Inv, NEW c \in Callers,
         Normalize(c)
  PROVE  Inv'
<1>1. TypeOK'
  BY DEF Inv, TypeOK, Normalize, Sets, caller, Status, Open
<1>2. RunLock'
  BY DEF Inv, TypeOK, Normalize, caller, RunLock
<1>3. ScanLockInv'
  BY DEF Inv, TypeOK, Normalize, caller, ScanLockInv, Scanning
<1>4. GateInv'
  BY DEF Inv, TypeOK, Normalize, Sets, GateInv
<1>5. PlaceInv'
  BY DEF Inv, TypeOK, Normalize, caller, PlaceInv
<1>6. KnowsInv'
  BY DEF Inv, TypeOK, Normalize, Sets, caller, KnowsInv, PlaceInv, KeysFree,
     StatusHere, Open, Done
<1>7. Headroom'
  BY DEF Inv, TypeOK, Normalize, caller, Headroom
<1>8. SpendWithinCap'
  BY DEF Inv, TypeOK, Normalize, SpendWithinCap
<1>9. GateExclusion'
  BY DEF Inv, TypeOK, Normalize, Sets, GateExclusion
<1>10. CommittedIsComplete'
  BY DEF Inv, TypeOK, Normalize, Sets, CommittedIsComplete
<1>11. CompletedIsDone'
  BY DEF Inv, TypeOK, Normalize, Sets, CompletedIsDone, Done
<1>12. KeepsItsPlace'
  <2>1. \A r1 \in Runs, s1 \in Stages : Lost(r1, s1)' => Lost(r1, s1)
    BY DEF Inv, TypeOK, Normalize, Sets, Lost, Passed, Skipped, Done
  <2>2. \A d \in Callers : Written(d) => Written(d)' /\ run'[d] = run[d] /\ stage'[d] = stage[d]
    BY DEF Inv, TypeOK, Normalize, Written, caller, Sets, Done
  <2> QED BY <2>1, <2>2, KeepsPlace, Zenon DEF Normalize
<1> QED BY <1>1, <1>2, <1>3, <1>4, <1>5, <1>6, <1>7, <1>8, <1>9, <1>10, <1>11,
           <1>12 DEF Inv

LEMMA StartKeeps ==
  ASSUME Inv, NEW c \in Callers,
         Start(c)
  PROVE  Inv'
<1>1. TypeOK'
  BY DEF Inv, TypeOK, Start, Sets, Goes, Status, Open, Body
<1>2. RunLock'
  BY DEF Inv, TypeOK, Start, Goes, RunLock
<1>3. ScanLockInv'
  BY DEF Inv, TypeOK, Start, Goes, ScanLockInv, Scanning
<1>4. GateInv'
  BY DEF Inv, TypeOK, Start, Sets, GateInv
<1>5. PlaceInv'
  BY DEF Inv, TypeOK, Start, Goes, PlaceInv
<1>6. KnowsInv'
  BY DEF Inv, TypeOK, Start, Sets, Goes, KnowsInv, PlaceInv, GateExclusion, KeysFree,
     StatusHere, Open, Done, Dispositions
<1>7. Headroom'
  BY DEF Inv, TypeOK, Start, Goes, Headroom
<1>8. SpendWithinCap'
  BY DEF Inv, TypeOK, Start, SpendWithinCap
<1>9. GateExclusion'
  BY DEF Inv, TypeOK, Start, Sets, GateExclusion
<1>10. CommittedIsComplete'
  <2>1. <<run[c], stage[c]>> \notin committed
    BY CallerTypes DEF Inv, CommittedIsComplete, Start, KnowsInv, StatusHere, Open
  <2> QED BY <2>1 DEF Inv, TypeOK, CommittedIsComplete, Start, Sets
<1>11. CompletedIsDone'
  BY PlaybookAssumption DEF Inv, TypeOK, Start, Sets, CompletedIsDone, PlaceInv,
     KnowsInv, StatusHere, Open, Done
<1>12. KeepsItsPlace'
  <2>1. \A r1 \in Runs, s1 \in Stages : Lost(r1, s1)' => Lost(r1, s1)
    BY DEF Inv, TypeOK, Start, Sets, Lost, Passed, Skipped, Done
  <2>2. \A d \in Callers : Written(d) => Written(d)' /\ run'[d] = run[d] /\ stage'[d] = stage[d]
    BY DEF Inv, TypeOK, Start, Written, Sets, Goes, KnowsInv, StatusHere, Done, Open
  <2> QED BY <2>1, <2>2, KeepsPlace, Zenon DEF Start
<1> QED BY <1>1, <1>2, <1>3, <1>4, <1>5, <1>6, <1>7, <1>8, <1>9, <1>10, <1>11,
           <1>12 DEF Inv

\* The iterations are within the headroom.
LEMMA FinishKeeps ==
  ASSUME Inv, NEW c \in Callers, NEW to \in {"complete", "blocked", "in_progress"},
         Finish(c, to)
  PROVE  Inv'
<1>1. TypeOK'
  <2>1. /\ created' \subseteq Runs /\ finished' \subseteq Runs
        /\ output' \subseteq Runs \X Stages /\ committed' \subseteq Runs \X Stages
        /\ cut' \subseteq Runs \X Stages /\ pending' \subseteq Decisions
        /\ rulings' \subseteq Decisions \X Dispositions
    BY DEF Inv, TypeOK, Finish
  <2>2. /\ status' \in [Runs -> [Stages -> Status]] /\ faults' \in 0..MaxFaults
        /\ round' \in [Runs -> [Stages -> 0..MaxRounds]] /\ spent' \in [Runs -> Nat]
        /\ queued' \in [Runs -> Decisions \union {None}]
    BY DEF Inv, TypeOK, Finish, Sets, Status, Open, Done
  <2>3. /\ stage' \in [Callers -> 0..Length]
        /\ run' \in [Callers -> Runs \union {None}]
        /\ ruling' \in [Callers -> Dispositions \union {None}]
    BY DEF Inv, TypeOK, Finish, Turns
  <2>5. num' \in [Callers -> Nat]
    BY DEF Inv, TypeOK, Finish, Turns
  <2>4. /\ pc' \in [Callers -> {"idle", "answer", "answered"} \union Body]
        /\ \A d \in Callers : pc'[d] = "idle" <=> run'[d] = None
    BY DEF Inv, TypeOK, Finish, Turns, Goes, Body
  <2> QED BY <2>1, <2>2, <2>3, <2>4, <2>5 DEF TypeOK
<1>2. RunLock'
  BY DEF Inv, TypeOK, Finish, Turns, Goes, RunLock, Body
<1>3. ScanLockInv'
  BY DEF Inv, TypeOK, Finish, Turns, Goes, ScanLockInv, Scanning
<1>4. GateInv'
  BY DEF Inv, TypeOK, Finish, Sets, GateInv
<1>5. PlaceInv'
  BY DEF Inv, TypeOK, Finish, Turns, Goes, PlaceInv
<1>6. KnowsInv'
  BY DEF Inv, TypeOK, Finish, Turns, Sets, Goes, KnowsInv, PlaceInv, RunLock,
     ScanLockInv, KeysFree, StatusHere, Open, Done, Body, Outcome, Dispositions
<1>7. Headroom'
  BY PlaybookAssumption DEF Inv, TypeOK, Finish, Turns, Goes, Headroom
<1>8. SpendWithinCap'
  BY DEF Inv, TypeOK, Finish, SpendWithinCap
<1>9. GateExclusion'
  BY DEF Inv, TypeOK, Finish, Sets, GateExclusion
<1>10. CommittedIsComplete'
  BY DEF Inv, TypeOK, Finish, Sets, CommittedIsComplete
<1>11. CompletedIsDone'
  BY DEF Inv, TypeOK, Finish, Sets, CompletedIsDone, Done
<1>12. KeepsItsPlace'
  <2>1. \A r1 \in Runs, s1 \in Stages : Lost(r1, s1)' =>
          Lost(r1, s1) \/ \E d \in Callers : Written(d)' /\ run'[d] = r1 /\ stage'[d] = s1
    <3> SUFFICES ASSUME NEW r1 \in Runs, NEW s1 \in Stages, Lost(r1, s1)', ~Lost(r1, s1)
                 PROVE  Written(c)' /\ run'[c] = r1 /\ stage'[c] = s1
      OBVIOUS
    <3>1. status'[r1][s1] # status[r1][s1]
      BY DEF Finish, Lost, Passed, Skipped
    <3>2. run[c] = r1 /\ stage[c] = s1
      BY <3>1 DEF Inv, TypeOK, Finish, Sets
    <3>3. pc'[c] = "account" /\ run'[c] = r1 /\ stage'[c] = s1
      BY <3>2 DEF Inv, TypeOK, Finish, Turns, Goes
    <3> QED BY <3>3 DEF Written, Lost
  <2>2. \A d \in Callers : Written(d) => Written(d)' /\ run'[d] = run[d] /\ stage'[d] = stage[d]
    BY DEF Inv, TypeOK, Finish, Written, Turns, Sets, Goes, Done
  <2> QED BY <2>1, <2>2, KeepsPlace, Zenon DEF Finish
<1> QED BY <1>1, <1>2, <1>3, <1>4, <1>5, <1>6, <1>7, <1>8, <1>9, <1>10, <1>11,
           <1>12 DEF Inv

\* Only the caller adds to spent while it has the run lock, so its headroom holds.
LEMMA AccountDoneKeeps ==
  ASSUME Inv, NEW c \in Callers,
         Account(c),
         status[run[c]][stage[c]] = "complete"
  PROVE  Inv'
<1>1. TypeOK'
  <2>1. /\ created' \subseteq Runs /\ finished' \subseteq Runs
        /\ output' \subseteq Runs \X Stages /\ committed' \subseteq Runs \X Stages
        /\ cut' \subseteq Runs \X Stages /\ pending' \subseteq Decisions
        /\ rulings' \subseteq Decisions \X Dispositions
    BY DEF Inv, TypeOK, Account
  <2>2. /\ status' \in [Runs -> [Stages -> Status]] /\ faults' \in 0..MaxFaults
        /\ round' \in [Runs -> [Stages -> 0..MaxRounds]] /\ spent' \in [Runs -> Nat]
        /\ queued' \in [Runs -> Decisions \union {None}]
    BY DEF Inv, TypeOK, Account
  <2>3. /\ stage' \in [Callers -> 0..Length]
        /\ run' \in [Callers -> Runs \union {None}]
        /\ ruling' \in [Callers -> Dispositions \union {None}]
    BY DEF Inv, TypeOK, Account
  <2>5. num' \in [Callers -> Nat]
    BY DEF Inv, TypeOK, Account
  <2>4. /\ pc' \in [Callers -> {"idle", "answer", "answered"} \union Body]
        /\ \A d \in Callers : pc'[d] = "idle" <=> run'[d] = None
    BY CallerTypes DEF Inv, TypeOK, Account, Returns, Goes, Body
  <2> QED BY <2>1, <2>2, <2>3, <2>4, <2>5 DEF TypeOK
<1>2. RunLock'
  BY DEF Inv, TypeOK, Account, Goes, RunLock, Body
<1>3. ScanLockInv'
  <2>1. Scanning' \subseteq Scanning
    BY DEF Inv, TypeOK, Account, Goes, Scanning
  <2> QED BY <2>1 DEF Inv, ScanLockInv
<1>4. GateInv'
  BY DEF Inv, TypeOK, Account, GateInv
<1>5. PlaceInv'
  BY DEF Inv, TypeOK, Account, Goes, PlaceInv
<1>6. KnowsInv'
  BY DEF Inv, TypeOK, Account, Goes, KnowsInv, PlaceInv, RunLock, KeysFree, StatusHere
<1>7. Headroom'
  <2> SUFFICES ASSUME NEW d \in Callers, pc'[d] \in {"start", "dispatch", "account"}
               PROVE  /\ d # c /\ pc'[d] = pc[d] /\ num'[d] = num[d]
                      /\ run'[d] = run[d] /\ spent'[run[d]] = spent[run[d]]
    BY DEF Inv, Headroom
  <2>1. d # c /\ pc'[d] = pc[d] /\ num'[d] = num[d] /\ run'[d] = run[d]
    BY PlaybookAssumption DEF Inv, TypeOK, Account, Returns, Goes
  <2>2. run[d] \in Runs /\ run[d] # run[c]
    BY <2>1, RunTypes DEF Inv, Account, RunLock, Body
  <2> QED BY <2>1, <2>2 DEF Inv, TypeOK, Account
<1>8. SpendWithinCap'
  BY DEF Inv, TypeOK, Account, SpendWithinCap, Headroom
<1>9. GateExclusion'
  BY DEF Inv, TypeOK, Account, GateExclusion
<1>10. CommittedIsComplete'
  BY DEF Inv, TypeOK, Account, CommittedIsComplete
<1>11. CompletedIsDone'
  BY DEF Inv, TypeOK, Account, CompletedIsDone
<1>12. KeepsItsPlace'
  <2>1. \A r1 \in Runs, s1 \in Stages : Lost(r1, s1)' => Lost(r1, s1)
    BY DEF Account, ledger, Lost, Passed, Skipped
  <2>2. \A d \in Callers : Written(d) => Written(d)' /\ run'[d] = run[d] /\ stage'[d] = stage[d]
    BY DEF Inv, TypeOK, Account, Written, Goes
  <2> QED BY <2>1, <2>2, KeepsPlace, Zenon DEF Account
<1> QED BY <1>1, <1>2, <1>3, <1>4, <1>5, <1>6, <1>7, <1>8, <1>9, <1>10, <1>11,
           <1>12 DEF Inv

LEMMA AccountOtherKeeps ==
  ASSUME Inv, NEW c \in Callers,
         Account(c),
         status[run[c]][stage[c]] # "complete"
  PROVE  Inv'
<1>0. Returns(c) /\ pc[c] = "account"
  BY DEF Account
<1>1. TypeOK'
  <2>1. /\ created' \subseteq Runs /\ finished' \subseteq Runs
        /\ output' \subseteq Runs \X Stages /\ committed' \subseteq Runs \X Stages
        /\ cut' \subseteq Runs \X Stages /\ pending' \subseteq Decisions
        /\ rulings' \subseteq Decisions \X Dispositions
    BY DEF Inv, TypeOK, Account
  <2>2. /\ status' \in [Runs -> [Stages -> Status]] /\ faults' \in 0..MaxFaults
        /\ round' \in [Runs -> [Stages -> 0..MaxRounds]] /\ spent' \in [Runs -> Nat]
        /\ queued' \in [Runs -> Decisions \union {None}]
    BY DEF Inv, TypeOK, Account
  <2>3. /\ stage' \in [Callers -> 0..Length]
        /\ run' \in [Callers -> Runs \union {None}]
        /\ ruling' \in [Callers -> Dispositions \union {None}]
    BY StageRange DEF Inv, TypeOK, Account, Returns
  <2>5. num' \in [Callers -> Nat]
    BY CallerTypes DEF Inv, TypeOK, Account, Returns, Goes
  <2>4. /\ pc' \in [Callers -> {"idle", "answer", "answered"} \union Body]
        /\ \A d \in Callers : pc'[d] = "idle" <=> run'[d] = None
    BY <1>0 DEF Inv, TypeOK, Returns, Goes
  <2> QED BY <2>1, <2>2, <2>3, <2>4, <2>5 DEF TypeOK
<1>2. RunLock'
  BY PlaybookAssumption DEF Inv, TypeOK, Account, Returns, Goes, RunLock, Body
<1>3. ScanLockInv'
  BY DEF Inv, TypeOK, Account, Returns, Goes, ScanLockInv, Scanning
<1>4. GateInv'
  BY DEF Inv, TypeOK, Account, GateInv
<1>5. PlaceInv'
  BY <1>0 DEF Inv, TypeOK, Account, Returns, Goes, PlaceInv
<1>6. KnowsInv'
  BY DEF Inv, TypeOK, Account, Returns, Goes, KnowsInv, PlaceInv, KeysFree, StatusHere
<1>7. Headroom'
  <2> SUFFICES ASSUME NEW d \in Callers, pc'[d] \in {"start", "dispatch", "account"}
               PROVE  /\ d # c /\ pc'[d] = pc[d] /\ num'[d] = num[d]
                      /\ run'[d] = run[d] /\ spent'[run[d]] = spent[run[d]]
    BY DEF Inv, Headroom
  <2>1. d # c /\ pc'[d] = pc[d] /\ num'[d] = num[d] /\ run'[d] = run[d]
    BY <1>0 DEF Inv, TypeOK, Account, Returns, Goes
  <2>2. run[d] \in Runs /\ run[d] # run[c]
    BY <2>1, RunTypes DEF Inv, Account, RunLock, Body
  <2> QED BY <2>1, <2>2 DEF Inv, TypeOK, Account
<1>8. SpendWithinCap'
  BY DEF Inv, TypeOK, Account, SpendWithinCap, Headroom
<1>9. GateExclusion'
  BY DEF Inv, TypeOK, Account, GateExclusion
<1>10. CommittedIsComplete'
  BY DEF Inv, TypeOK, Account, CommittedIsComplete
<1>11. CompletedIsDone'
  BY DEF Inv, TypeOK, Account, CompletedIsDone
<1>12. KeepsItsPlace'
  <2>1. \A r1 \in Runs, s1 \in Stages : Lost(r1, s1)' => Lost(r1, s1)
    BY DEF Account, ledger, Lost, Passed, Skipped
  <2>2. \A d \in Callers : Written(d) => Written(d)' /\ run'[d] = run[d] /\ stage'[d] = stage[d]
    BY DEF Inv, TypeOK, Account, KnowsInv, StatusHere, Written, Done, Returns, Goes
  <2> QED BY <2>1, <2>2, KeepsPlace, Zenon DEF Account
<1> QED BY <1>1, <1>2, <1>3, <1>4, <1>5, <1>6, <1>7, <1>8, <1>9, <1>10, <1>11,
           <1>12 DEF Inv

LEMMA CommitKeeps ==
  ASSUME Inv, NEW c \in Callers,
         Commit(c)
  PROVE  Inv'
<1>1. TypeOK'
  <2>1. /\ created' \subseteq Runs /\ finished' \subseteq Runs
        /\ output' \subseteq Runs \X Stages /\ committed' \subseteq Runs \X Stages
        /\ cut' \subseteq Runs \X Stages /\ pending' \subseteq Decisions
        /\ rulings' \subseteq Decisions \X Dispositions
    BY CallerTypes DEF Inv, TypeOK, Commit, ledger
  <2>2. /\ status' \in [Runs -> [Stages -> Status]] /\ faults' \in 0..MaxFaults
        /\ round' \in [Runs -> [Stages -> 0..MaxRounds]] /\ spent' \in [Runs -> Nat]
        /\ queued' \in [Runs -> Decisions \union {None}]
    BY DEF Inv, TypeOK, Commit, ledger
  <2>3. /\ stage' \in [Callers -> 0..Length]
        /\ run' \in [Callers -> Runs \union {None}]
        /\ ruling' \in [Callers -> Dispositions \union {None}]
    BY DEF Inv, TypeOK, Commit
  <2>5. num' \in [Callers -> Nat]
    BY DEF Inv, TypeOK, Commit
  <2>4. /\ pc' \in [Callers -> {"idle", "answer", "answered"} \union Body]
        /\ \A d \in Callers : pc'[d] = "idle" <=> run'[d] = None
    BY DEF Inv, TypeOK, Commit, Goes, Body
  <2> QED BY <2>1, <2>2, <2>3, <2>4, <2>5 DEF TypeOK
<1>2. RunLock'
  BY DEF Inv, TypeOK, Commit, Goes, RunLock
<1>3. ScanLockInv'
  BY DEF Inv, TypeOK, Commit, Goes, ScanLockInv, Scanning
<1>4. GateInv'
  BY DEF Inv, TypeOK, Commit, ledger, GateInv
<1>5. PlaceInv'
  BY DEF Inv, TypeOK, Commit, Goes, ledger, PlaceInv
<1>6. KnowsInv'
  BY DEF Inv, TypeOK, Commit, Goes, ledger, KnowsInv, PlaceInv, KeysFree, StatusHere
<1>7. Headroom'
  BY DEF Inv, TypeOK, Commit, Goes, ledger, Headroom
<1>8. SpendWithinCap'
  BY DEF Inv, TypeOK, Commit, ledger, SpendWithinCap
<1>9. GateExclusion'
  BY DEF Inv, TypeOK, Commit, ledger, GateExclusion
<1>10. CommittedIsComplete'
  BY DEF Inv, TypeOK, Commit, ledger, CommittedIsComplete, KnowsInv, StatusHere
<1>11. CompletedIsDone'
  BY DEF Inv, TypeOK, Commit, ledger, CompletedIsDone
<1>12. KeepsItsPlace'
  <2>1. \A r1 \in Runs, s1 \in Stages : Lost(r1, s1)' => Lost(r1, s1)
    BY DEF Commit, ledger, Lost, Passed, Skipped
  <2>2. ASSUME NEW r1 \in Runs, NEW s1 \in Stages, Written(c), run[c] = r1, stage[c] = s1
        PROVE  ~Lost(r1, s1)'
    BY <2>2 DEF Inv, Commit, ledger, KnowsInv, StatusHere, Lost, Passed
  <2>3. \A d \in Callers \ {c} : Written(d) => Written(d)' /\ run'[d] = run[d] /\ stage'[d] = stage[d]
    BY DEF Inv, TypeOK, Commit, Written, ledger, Goes
  <2> QED BY <2>1, <2>2, <2>3, KeepsPlace, Zenon DEF Commit
<1> QED BY <1>1, <1>2, <1>3, <1>4, <1>5, <1>6, <1>7, <1>8, <1>9, <1>10, <1>11,
           <1>12 DEF Inv

LEMMA PointKeeps ==
  ASSUME Inv, NEW c \in Callers,
         Point(c)
  PROVE  Inv'
<1>1. TypeOK'
  <2>1. /\ created' \subseteq Runs /\ finished' \subseteq Runs
        /\ output' \subseteq Runs \X Stages /\ committed' \subseteq Runs \X Stages
        /\ cut' \subseteq Runs \X Stages /\ pending' \subseteq Decisions
        /\ rulings' \subseteq Decisions \X Dispositions
    BY CallerTypes DEF Inv, TypeOK, Point, ledger
  <2>2. /\ status' \in [Runs -> [Stages -> Status]] /\ faults' \in 0..MaxFaults
        /\ round' \in [Runs -> [Stages -> 0..MaxRounds]] /\ spent' \in [Runs -> Nat]
        /\ queued' \in [Runs -> Decisions \union {None}]
    BY DEF Inv, TypeOK, Point, ledger
  <2>3. /\ stage' \in [Callers -> 0..Length]
        /\ run' \in [Callers -> Runs \union {None}]
        /\ ruling' \in [Callers -> Dispositions \union {None}]
    BY StageRange DEF Inv, TypeOK, Point, Turns
  <2>5. num' \in [Callers -> Nat]
    BY DEF Inv, TypeOK, Point, Turns
  <2>4. /\ pc' \in [Callers -> {"idle", "answer", "answered"} \union Body]
        /\ \A d \in Callers : pc'[d] = "idle" <=> run'[d] = None
    BY DEF Inv, TypeOK, Point, Turns, Goes, Body
  <2> QED BY <2>1, <2>2, <2>3, <2>4, <2>5 DEF TypeOK
<1>2. RunLock'
  BY DEF Inv, TypeOK, Point, Turns, Goes, RunLock
<1>3. ScanLockInv'
  BY DEF Inv, TypeOK, Point, Turns, Goes, ScanLockInv, Scanning
<1>4. GateInv'
  BY DEF Inv, TypeOK, Point, ledger, GateInv
<1>5. PlaceInv'
  BY DEF Inv, TypeOK, Point, Turns, Goes, ledger, PlaceInv
<1>6. KnowsInv'
  BY DEF Inv, TypeOK, Point, Turns, Goes, ledger, KnowsInv, PlaceInv, KeysFree,
     StatusHere
<1>7. Headroom'
  BY DEF Inv, TypeOK, Point, Turns, Goes, ledger, Headroom
<1>8. SpendWithinCap'
  BY DEF Inv, TypeOK, Point, ledger, SpendWithinCap
<1>9. GateExclusion'
  BY DEF Inv, TypeOK, Point, ledger, GateExclusion
<1>10. CommittedIsComplete'
  BY DEF Inv, TypeOK, Point, ledger, CommittedIsComplete
<1>11. CompletedIsDone'
  BY DEF Inv, TypeOK, Point, ledger, CompletedIsDone
<1>12. KeepsItsPlace'
  <2>1. \A r1 \in Runs, s1 \in Stages : Lost(r1, s1)' => Lost(r1, s1)
    BY DEF Point, ledger, Lost, Passed, Skipped
  <2>2. \A d \in Callers : Written(d) => Written(d)' /\ run'[d] = run[d] /\ stage'[d] = stage[d]
    BY DEF Inv, TypeOK, Point, Written, ledger, Turns, Goes
  <2> QED BY <2>1, <2>2, KeepsPlace, Zenon DEF Point
<1> QED BY <1>1, <1>2, <1>3, <1>4, <1>5, <1>6, <1>7, <1>8, <1>9, <1>10, <1>11,
           <1>12 DEF Inv

LEMMA ResumeKeeps ==
  ASSUME Inv, NEW c \in Callers, NEW r \in Runs, NEW s \in Stages, NEW o \in Dispositions,
         Resume(c, r, s, o)
  PROVE  Inv'
<1>1. TypeOK'
  <2>1. /\ created' \subseteq Runs /\ finished' \subseteq Runs
        /\ output' \subseteq Runs \X Stages /\ committed' \subseteq Runs \X Stages
        /\ cut' \subseteq Runs \X Stages /\ pending' \subseteq Decisions
        /\ rulings' \subseteq Decisions \X Dispositions
    BY DEF Inv, TypeOK, Resume, ledger
  <2>2. /\ status' \in [Runs -> [Stages -> Status]] /\ faults' \in 0..MaxFaults
        /\ round' \in [Runs -> [Stages -> 0..MaxRounds]] /\ spent' \in [Runs -> Nat]
        /\ queued' \in [Runs -> Decisions \union {None}]
    BY DEF Inv, TypeOK, Resume, ledger
  <2>3. /\ stage' \in [Callers -> 0..Length]
        /\ run' \in [Callers -> Runs \union {None}]
        /\ ruling' \in [Callers -> Dispositions \union {None}]
    BY StageRange DEF Inv, TypeOK, Resume
  <2>5. num' \in [Callers -> Nat]
    BY DEF Inv, TypeOK, Resume
  <2>4. /\ pc' \in [Callers -> {"idle", "answer", "answered"} \union Body]
        /\ \A d \in Callers : pc'[d] = "idle" <=> run'[d] = None
    BY PlaybookAssumption DEF Inv, TypeOK, Resume, Goes
  <2> QED BY <2>1, <2>2, <2>3, <2>4, <2>5 DEF TypeOK
<1>2. RunLock'
  BY DEF Inv, TypeOK, Resume, Goes, RunLock, Body
<1>3. ScanLockInv'
  BY DEF Inv, TypeOK, Resume, Goes, ScanLockInv, Scanning
<1>4. GateInv'
  BY DEF Inv, TypeOK, Resume, ledger, GateInv
<1>5. PlaceInv'
  BY DEF Inv, TypeOK, Resume, Goes, ledger, PlaceInv, GateInv
<1>6. KnowsInv'
  BY DEF Inv, TypeOK, Resume, Goes, ledger, KnowsInv, PlaceInv, KeysFree, StatusHere
<1>7. Headroom'
  BY DEF Inv, TypeOK, Resume, Goes, ledger, Headroom
<1>8. SpendWithinCap'
  BY DEF Inv, TypeOK, Resume, ledger, SpendWithinCap
<1>9. GateExclusion'
  BY DEF Inv, TypeOK, Resume, ledger, GateExclusion
<1>10. CommittedIsComplete'
  BY DEF Inv, TypeOK, Resume, ledger, CommittedIsComplete
<1>11. CompletedIsDone'
  BY DEF Inv, TypeOK, Resume, ledger, CompletedIsDone
<1>12. KeepsItsPlace'
  <2>1. \A r1 \in Runs, s1 \in Stages : Lost(r1, s1)' <=> Lost(r1, s1)
    BY Zenon DEF Resume, ledger, Lost, Passed, Skipped
  <2>2. \A d \in Callers : Written(d) => Written(d)' /\ run'[d] = run[d] /\ stage'[d] = stage[d]
    BY DEF Inv, TypeOK, Resume, Written, ledger, Goes
  <2> QED BY <2>1, <2>2, KeepsPlace, Zenon DEF Resume
<1> QED BY <1>1, <1>2, <1>3, <1>4, <1>5, <1>6, <1>7, <1>8, <1>9, <1>10, <1>11,
           <1>12 DEF Inv

\* An answer needs no run lock; it can only take a gate out of awaiting_decision.
LEMMA RuleKeeps ==
  ASSUME Inv, NEW c \in Callers,
         Rule(c)
  PROVE  Inv'
<1>1. TypeOK'
  BY DEF Inv, TypeOK, Rule, Sets, Goes, Outcome, PlaceInv, Status, Done, Dispositions
<1>2. RunLock'
  BY DEF Inv, TypeOK, Rule, Goes, RunLock, Body
<1>3. ScanLockInv'
  BY DEF Inv, TypeOK, Rule, Goes, ScanLockInv, Scanning
<1>4. GateInv'
  BY DEF Inv, TypeOK, Rule, Sets, Awaits, Decision, GateInv
<1>5. PlaceInv'
  BY DEF Inv, TypeOK, Rule, Goes, PlaceInv
<1>6. KnowsInv'
  BY DEF Inv, TypeOK, Rule, Sets, Goes, GoalFree, Awaits, Decision, KnowsInv, KeysFree,
     StatusHere, Open, Done
<1>7. Headroom'
  BY DEF Inv, TypeOK, Rule, Goes, Headroom
<1>8. SpendWithinCap'
  BY DEF Inv, TypeOK, Rule, SpendWithinCap
<1>9. GateExclusion'
  BY DEF Inv, TypeOK, Rule, Sets, Awaits, Decision, GateExclusion
<1>10. CommittedIsComplete'
  BY DEF Inv, TypeOK, Rule, Sets, Awaits, Decision, CommittedIsComplete
<1>11. CompletedIsDone'
  BY DEF Inv, TypeOK, Rule, Sets, Awaits, Decision, CompletedIsDone, Done
<1>12. KeepsItsPlace'
  <2>1. \A r1 \in Runs, s1 \in Stages : Lost(r1, s1)' =>
          Lost(r1, s1) \/ \E d \in Callers : Written(d)' /\ run'[d] = r1 /\ stage'[d] = s1
    BY DEF Inv, TypeOK, Rule, Sets, Goes, Lost, Passed, Skipped, Done, Written
  <2>2. \A d \in Callers : Written(d) => Written(d)' /\ run'[d] = run[d] /\ stage'[d] = stage[d]
    BY DEF Inv, TypeOK, Rule, Written, Sets, Goes, Awaits, Decision, Done
  <2> QED BY <2>1, <2>2, KeepsPlace, Zenon DEF Rule
<1> QED BY <1>1, <1>2, <1>3, <1>4, <1>5, <1>6, <1>7, <1>8, <1>9, <1>10, <1>11,
           <1>12 DEF Inv

LEMMA RecordKeeps ==
  ASSUME Inv, NEW c \in Callers,
         Record(c)
  PROVE  Inv'
<1>1. TypeOK'
  <2>1. /\ created' \subseteq Runs /\ finished' \subseteq Runs
        /\ output' \subseteq Runs \X Stages /\ committed' \subseteq Runs \X Stages
        /\ cut' \subseteq Runs \X Stages /\ pending' \subseteq Decisions
        /\ rulings' \subseteq Decisions \X Dispositions
    BY DecisionType DEF Inv, TypeOK, PlaceInv, Record, Decision
  <2>2. /\ status' \in [Runs -> [Stages -> Status]] /\ faults' \in 0..MaxFaults
        /\ round' \in [Runs -> [Stages -> 0..MaxRounds]] /\ spent' \in [Runs -> Nat]
        /\ queued' \in [Runs -> Decisions \union {None}]
    BY DEF Inv, TypeOK, Record
  <2>3. /\ stage' \in [Callers -> 0..Length]
        /\ run' \in [Callers -> Runs \union {None}]
        /\ ruling' \in [Callers -> Dispositions \union {None}]
    BY StageRange DEF Inv, TypeOK, Record, Returns
  <2>5. num' \in [Callers -> Nat]
    BY DEF Inv, TypeOK, Record, Returns
  <2>4. /\ pc' \in [Callers -> {"idle", "answer", "answered"} \union Body]
        /\ \A d \in Callers : pc'[d] = "idle" <=> run'[d] = None
    BY DEF Inv, TypeOK, Record, Returns, Goes
  <2> QED BY <2>1, <2>2, <2>3, <2>4, <2>5 DEF TypeOK
<1>2. RunLock'
  BY DEF Inv, TypeOK, Record, Returns, Goes, RunLock, Body
<1>3. ScanLockInv'
  BY DEF Inv, TypeOK, Record, Returns, Goes, ScanLockInv, Scanning
<1>4. GateInv'
  BY DEF Inv, TypeOK, Record, GateInv
<1>5. PlaceInv'
  BY DEF Inv, TypeOK, Record, Returns, Goes, PlaceInv
<1>6. KnowsInv'
  BY DEF Inv, TypeOK, Record, Returns, Goes, KnowsInv, PlaceInv, KeysFree, StatusHere
<1>7. Headroom'
  BY DEF Inv, TypeOK, Record, Returns, Goes, Headroom
<1>8. SpendWithinCap'
  BY DEF Inv, TypeOK, Record, SpendWithinCap
<1>9. GateExclusion'
  BY DEF Inv, TypeOK, Record, GateExclusion
<1>10. CommittedIsComplete'
  BY DEF Inv, TypeOK, Record, CommittedIsComplete
<1>11. CompletedIsDone'
  BY DEF Inv, TypeOK, Record, CompletedIsDone
<1>12. KeepsItsPlace'
  <2>1. \A r1 \in Runs, s1 \in Stages : Lost(r1, s1)' => Lost(r1, s1)
    BY DEF Record, ledger, Lost, Passed, Skipped
  <2>2. ASSUME NEW r1 \in Runs, NEW s1 \in Stages, Written(c), run[c] = r1, stage[c] = s1
        PROVE  ~Lost(r1, s1)'
    <3>1. /\ status[r1][s1] = Outcome(ruling[c]) /\ ruling[c] \in Dispositions
          /\ s1 \in Gates[r1] /\ num[c] \in 1..MaxRounds
      BY <2>2 DEF Inv, PlaceInv, KnowsInv, StatusHere, Written, Record
    <3>2. CASE ruling[c] = "skip"
      <4>1. <<<<r1, s1, num[c]>>, "skip">> \in rulings'
         BY <2>2, <3>2 DEF Record, Decision
      <4> QED BY <3>1, <3>2, <4>1 DEF Lost, Passed, Skipped, Outcome, Record
    <3>3. CASE ruling[c] = "continue"
      BY <3>1, <3>3 DEF Lost, Passed, Outcome, Record
    <3>4. CASE ruling[c] = "halt"
      BY <3>1, <3>4 DEF Lost, Done, Outcome, Record
    <3>5. ruling[c] = "skip" \/ ruling[c] = "continue" \/ ruling[c] = "halt"
      BY <3>1 DEF Dispositions
    <3> QED BY <3>2, <3>3, <3>4, <3>5
  <2>3. \A d \in Callers \ {c} : Written(d) => Written(d)' /\ run'[d] = run[d] /\ stage'[d] = stage[d]
    BY DEF Inv, TypeOK, Record, Written, Returns, Goes
  <2> QED BY <2>1, <2>2, <2>3, KeepsPlace, Zenon DEF Record
<1> QED BY <1>1, <1>2, <1>3, <1>4, <1>5, <1>6, <1>7, <1>8, <1>9, <1>10, <1>11,
           <1>12 DEF Inv

LEMMA RequeueKeeps ==
  ASSUME Inv, NEW r \in Runs, NEW s \in Stages,
         Requeue(r, s)
  PROVE  Inv'
<1>1. TypeOK'
  BY DEF Inv, TypeOK, Requeue, Sets, caller, Status, Open
<1>2. RunLock'
  BY DEF Inv, TypeOK, Requeue, caller, RunLock
<1>3. ScanLockInv'
  BY DEF Inv, TypeOK, Requeue, caller, ScanLockInv, Scanning
<1>4. GateInv'
  BY DEF Inv, TypeOK, Requeue, Sets, GateInv
<1>5. PlaceInv'
  BY DEF Inv, TypeOK, Requeue, caller, PlaceInv
<1>6. KnowsInv'
  BY DEF Inv, TypeOK, Requeue, Sets, caller, KnowsInv, PlaceInv, KeysFree, StatusHere,
     Open, Done
<1>7. Headroom'
  BY DEF Inv, TypeOK, Requeue, caller, Headroom
<1>8. SpendWithinCap'
  BY DEF Inv, TypeOK, Requeue, SpendWithinCap
<1>9. GateExclusion'
  BY DEF Inv, TypeOK, Requeue, Sets, GateExclusion
<1>10. CommittedIsComplete'
  BY DEF Inv, TypeOK, Requeue, Sets, CommittedIsComplete
<1>11. CompletedIsDone'
  BY DEF Inv, TypeOK, Requeue, Sets, CompletedIsDone, Done
<1>12. KeepsItsPlace'
  <2>1. \A r1 \in Runs, s1 \in Stages : Lost(r1, s1)' => Lost(r1, s1)
    BY DEF Inv, TypeOK, Requeue, Sets, Lost, Passed, Skipped, Done
  <2>2. \A d \in Callers : Written(d) => Written(d)' /\ run'[d] = run[d] /\ stage'[d] = stage[d]
    BY DEF Inv, TypeOK, Requeue, Written, caller, Sets, Done
  <2> QED BY <2>1, <2>2, KeepsPlace, Zenon DEF Requeue
<1> QED BY <1>1, <1>2, <1>3, <1>4, <1>5, <1>6, <1>7, <1>8, <1>9, <1>10, <1>11,
           <1>12 DEF Inv

\* A stage whose proof is lost with its caller is in cut.
LEMMA CrashKeeps ==
  ASSUME Inv, NEW c \in Callers,
         Crash(c)
  PROVE  Inv'
<1>1. TypeOK'
  <2>1. /\ created' \subseteq Runs /\ finished' \subseteq Runs
        /\ output' \subseteq Runs \X Stages /\ committed' \subseteq Runs \X Stages
        /\ cut' \subseteq Runs \X Stages /\ pending' \subseteq Decisions
        /\ rulings' \subseteq Decisions \X Dispositions
    BY CallerTypes DEF Inv, TypeOK, Crash, ledger, Written
  <2>2. /\ status' \in [Runs -> [Stages -> Status]] /\ faults' \in 0..MaxFaults
        /\ round' \in [Runs -> [Stages -> 0..MaxRounds]] /\ spent' \in [Runs -> Nat]
        /\ queued' \in [Runs -> Decisions \union {None}]
    BY PlaybookAssumption DEF Inv, TypeOK, Crash, ledger
  <2>3. /\ stage' \in [Callers -> 0..Length]
        /\ run' \in [Callers -> Runs \union {None}]
        /\ ruling' \in [Callers -> Dispositions \union {None}]
    BY StageRange DEF Inv, TypeOK, Crash, Returns
  <2>5. num' \in [Callers -> Nat]
    BY DEF Inv, TypeOK, Crash, Returns
  <2>4. /\ pc' \in [Callers -> {"idle", "answer", "answered"} \union Body]
        /\ \A d \in Callers : pc'[d] = "idle" <=> run'[d] = None
    BY DEF Inv, TypeOK, Crash, Returns, Goes
  <2> QED BY <2>1, <2>2, <2>3, <2>4, <2>5 DEF TypeOK
<1>2. RunLock'
  BY DEF Inv, TypeOK, Crash, Returns, Goes, RunLock, Body
<1>3. ScanLockInv'
  BY DEF Inv, TypeOK, Crash, Returns, Goes, ScanLockInv, Scanning
<1>4. GateInv'
  BY DEF Inv, TypeOK, Crash, ledger, GateInv
<1>5. PlaceInv'
  BY DEF Inv, TypeOK, Crash, Returns, Goes, ledger, PlaceInv
<1>6. KnowsInv'
  BY DEF Inv, TypeOK, Crash, Returns, Goes, ledger, KnowsInv, PlaceInv, KeysFree,
     StatusHere
<1>7. Headroom'
  BY DEF Inv, TypeOK, Crash, Returns, Goes, ledger, Headroom
<1>8. SpendWithinCap'
  BY DEF Inv, TypeOK, Crash, ledger, SpendWithinCap
<1>9. GateExclusion'
  BY DEF Inv, TypeOK, Crash, ledger, GateExclusion
<1>10. CommittedIsComplete'
  BY DEF Inv, TypeOK, Crash, ledger, CommittedIsComplete
<1>11. CompletedIsDone'
  BY DEF Inv, TypeOK, Crash, ledger, CompletedIsDone
<1>12. KeepsItsPlace'
  <2>1. \A r1 \in Runs, s1 \in Stages : Lost(r1, s1)' <=> Lost(r1, s1)
    BY Zenon DEF Crash, ledger, Lost, Passed, Skipped
  <2>2. \A d \in Callers : Written(d) =>
          \/ Written(d)' /\ run'[d] = run[d] /\ stage'[d] = stage[d]
          \/ <<run[d], stage[d]>> \in cut'
    BY DEF Inv, TypeOK, Crash, Written, Returns, Goes, ledger
  <2>3. cut \subseteq cut'
    BY DEF Crash
  <2> QED BY <2>1, <2>2, <2>3, KeepsPlace, Zenon
<1> QED BY <1>1, <1>2, <1>3, <1>4, <1>5, <1>6, <1>7, <1>8, <1>9, <1>10, <1>11,
           <1>12 DEF Inv

\* The ways out of a call that write nothing.
LEMMA OnlyReturnsKeeps ==
  ASSUME Inv, NEW c \in Callers, ~Written(c), pc[c] # "idle",
         OnlyReturns(c)
  PROVE  Inv'
<1>1. TypeOK'
  <2>1. /\ created' \subseteq Runs /\ finished' \subseteq Runs
        /\ output' \subseteq Runs \X Stages /\ committed' \subseteq Runs \X Stages
        /\ cut' \subseteq Runs \X Stages /\ pending' \subseteq Decisions
        /\ rulings' \subseteq Decisions \X Dispositions
    BY DEF Inv, TypeOK, OnlyReturns, ledger
  <2>2. /\ status' \in [Runs -> [Stages -> Status]] /\ faults' \in 0..MaxFaults
        /\ round' \in [Runs -> [Stages -> 0..MaxRounds]] /\ spent' \in [Runs -> Nat]
        /\ queued' \in [Runs -> Decisions \union {None}]
    BY DEF Inv, TypeOK, OnlyReturns, ledger
  <2>3. /\ stage' \in [Callers -> 0..Length]
        /\ run' \in [Callers -> Runs \union {None}]
        /\ ruling' \in [Callers -> Dispositions \union {None}]
    BY StageRange DEF Inv, TypeOK, OnlyReturns, Returns
  <2>5. num' \in [Callers -> Nat]
    BY DEF Inv, TypeOK, OnlyReturns, Returns
  <2>4. /\ pc' \in [Callers -> {"idle", "answer", "answered"} \union Body]
        /\ \A d \in Callers : pc'[d] = "idle" <=> run'[d] = None
    BY DEF Inv, TypeOK, OnlyReturns, Returns, Goes
  <2> QED BY <2>1, <2>2, <2>3, <2>4, <2>5 DEF TypeOK
<1>2. RunLock'
  BY DEF Inv, TypeOK, OnlyReturns, Returns, Goes, RunLock, Body
<1>3. ScanLockInv'
  BY DEF Inv, TypeOK, OnlyReturns, Returns, Goes, ScanLockInv, Scanning
<1>4. GateInv'
  BY DEF Inv, TypeOK, OnlyReturns, ledger, GateInv
<1>5. PlaceInv'
  BY DEF Inv, TypeOK, OnlyReturns, Returns, Goes, ledger, PlaceInv
<1>6. KnowsInv'
  BY DEF Inv, TypeOK, OnlyReturns, Returns, Goes, ledger, KnowsInv, PlaceInv, KeysFree,
     StatusHere
<1>7. Headroom'
  BY DEF Inv, TypeOK, OnlyReturns, Returns, Goes, ledger, Headroom
<1>8. SpendWithinCap'
  BY DEF Inv, TypeOK, OnlyReturns, ledger, SpendWithinCap
<1>9. GateExclusion'
  BY DEF Inv, TypeOK, OnlyReturns, ledger, GateExclusion
<1>10. CommittedIsComplete'
  BY DEF Inv, TypeOK, OnlyReturns, ledger, CommittedIsComplete
<1>11. CompletedIsDone'
  BY DEF Inv, TypeOK, OnlyReturns, ledger, CompletedIsDone
<1>12. KeepsItsPlace'
  <2>1. \A r1 \in Runs, s1 \in Stages : Lost(r1, s1)' <=> Lost(r1, s1)
    BY Zenon DEF OnlyReturns, ledger, Lost, Passed, Skipped
  <2>2. \A d \in Callers : Written(d) => Written(d)' /\ run'[d] = run[d] /\ stage'[d] = stage[d]
    BY DEF Inv, TypeOK, OnlyReturns, Written, ledger, Returns, Goes
  <2> QED BY <2>1, <2>2, KeepsPlace, Zenon DEF OnlyReturns
<1> QED BY <1>1, <1>2, <1>3, <1>4, <1>5, <1>6, <1>7, <1>8, <1>9, <1>10, <1>11,
           <1>12 DEF Inv

\* The invariant holds at first and is kept by every step.
LEMMA InitInv == Init => Inv
<1> SUFFICES ASSUME Init PROVE Inv
  OBVIOUS
<1>1. TypeOK
  BY PlaybookAssumption DEF Init, TypeOK, Status, Open
<1>2. RunLock /\ ScanLockInv /\ GateInv /\ PlaceInv /\ KnowsInv /\ Headroom
  BY DEF Init, RunLock, ScanLockInv, Scanning, GateInv, PlaceInv, KnowsInv, Headroom,
     Body
<1>3. SpendWithinCap /\ GateExclusion /\ CommittedIsComplete /\ CompletedIsDone
  BY PlaybookAssumption DEF Init, SpendWithinCap, GateExclusion, CommittedIsComplete,
     CompletedIsDone
<1>4. KeepsItsPlace
  BY DEF Init, KeepsItsPlace, Lost, Done
<1> QED BY <1>1, <1>2, <1>3, <1>4 DEF Inv

\* What the caller finds at the stage it has come to.
LEMMA LooksKeep ==
  ASSUME Inv, NEW c \in Callers, NEW s \in Stages, Looks(c, s)
  PROVE  Inv'
<1>1. CASE Resurface(c, s)
  BY <1>1, OnlyReturnsKeeps DEF Resurface, Here, Written
<1>2. CASE MissingLine(c, s)
  BY <1>2, MissingLineKeeps
<1>3. CASE FailsClosed(c, s)
  BY <1>3, OnlyReturnsKeeps DEF FailsClosed, Here, Written
<1>4. CASE Repair(c, s)
  BY <1>4, RepairKeeps
<1>5. CASE Halts(c, s)
  BY <1>5, OnlyReturnsKeeps DEF Halts, Here, Written
<1>6. CASE ToGate(c, s)
  BY <1>6, ToGateKeeps
<1>7. CASE ToStage(c, s)
  BY <1>7, ToStageKeeps
<1> QED BY <1>1, <1>2, <1>3, <1>4, <1>5, <1>6, <1>7 DEF Looks

LEMMA StepKeeps ==
  ASSUME Inv, NEW c \in Callers, Step(c)
  PROVE  Inv'
<1>1. CASE StaysDeferred(c)
  BY <1>1, OnlyReturnsKeeps DEF StaysDeferred, Written
<1>2. CASE SkipHeal(c)
  BY <1>2, OnlyReturnsKeeps DEF SkipHeal, Written
<1>3. CASE Stale(c)
  BY <1>3, OnlyReturnsKeeps DEF Stale, Written
<1>4. CASE Enter(c) \/ Finishes(c) \/ Reread(c) \/ Heal(c)
  BY <1>4, EnterKeeps, FinishesKeeps, RereadKeeps, HealKeeps
<1>5. CASE ScanLock(c) \/ Queues(c) \/ NoConflict(c) \/ Claim(c) \/ Suspend(c)
  BY <1>5, ScanLockKeeps, QueuesKeeps, NoConflictKeeps, ClaimKeeps, SuspendKeeps
<1>6. CASE Normalize(c) \/ Start(c) \/ Commit(c) \/ Point(c)
  BY <1>6, NormalizeKeeps, StartKeeps, CommitKeeps, PointKeeps
<1>7. CASE Account(c)
  BY <1>7, AccountDoneKeeps, AccountOtherKeeps
<1>8. CASE Rule(c) \/ Record(c)
  BY <1>8, RuleKeeps, RecordKeeps
<1>9. CASE \E s \in Stages : Looks(c, s)
  BY <1>9, LooksKeep
<1>10. CASE \E to \in {"complete", "blocked", "in_progress"} : Finish(c, to)
  BY <1>10, FinishKeeps
<1> QED BY <1>1, <1>2, <1>3, <1>4, <1>5, <1>6, <1>7, <1>8, <1>9, <1>10 DEF Step

LEMMA StutterKeeps == Inv /\ UNCHANGED vars => Inv'
<1> SUFFICES ASSUME Inv, UNCHANGED vars PROVE Inv'
  OBVIOUS
<1> USE DEF vars, ledger, caller
<1>1. TypeOK' /\ RunLock' /\ ScanLockInv' /\ GateInv' /\ PlaceInv' /\ Headroom'
  BY DEF Inv, TypeOK, RunLock, ScanLockInv, Scanning, GateInv, PlaceInv, Headroom
<1>2. KnowsInv'
  BY DEF Inv, KnowsInv, KeysFree, StatusHere
<1>3. SpendWithinCap' /\ GateExclusion' /\ CommittedIsComplete' /\ CompletedIsDone'
  BY DEF Inv, SpendWithinCap, GateExclusion, CommittedIsComplete, CompletedIsDone
<1>4. KeepsItsPlace'
  <2>1. \A r \in Runs, s \in Stages : Lost(r, s)' <=> Lost(r, s)
    BY Zenon DEF Lost, Passed, Skipped
  <2>2. \A d \in Callers : Written(d) => Written(d)' /\ run'[d] = run[d] /\ stage'[d] = stage[d]
    BY DEF Written
  <2> QED BY <2>1, <2>2, KeepsPlace, Zenon
<1> QED BY <1>1, <1>2, <1>3, <1>4 DEF Inv

LEMMA NextInv == Inv /\ [Next]_vars => Inv'
<1> SUFFICES ASSUME Inv, [Next]_vars PROVE Inv'
  OBVIOUS
<1>1. ASSUME NEW r \in Runs, Create(r) PROVE Inv'
  BY <1>1, CreateKeeps
<1>2. ASSUME NEW r \in Runs, NEW s \in Stages, Requeue(r, s) PROVE Inv'
  BY <1>2, RequeueKeeps
<1>3. ASSUME NEW c \in Callers, NEW r \in Runs, Call(c, r) PROVE Inv'
  BY <1>3, CallKeeps
<1>4. ASSUME NEW c \in Callers, NEW r \in Runs, NEW s \in Stages,
             NEW d \in Dispositions, Resume(c, r, s, d)
      PROVE  Inv'
  BY <1>4, ResumeKeeps
<1>5. ASSUME NEW c \in Callers, Step(c) PROVE Inv'
  BY <1>5, StepKeeps
<1>6. ASSUME NEW c \in Callers, Crash(c) PROVE Inv'
  BY <1>6, CrashKeeps
<1>7. CASE UNCHANGED vars
  BY <1>7, StutterKeeps
<1> QED BY <1>1, <1>2, <1>3, <1>4, <1>5, <1>6, <1>7 DEF Next

LEMMA Invariance == Spec => []Inv
  BY InitInv, NextInv, PTL DEF Spec
-----------------------------------------------------------------------------
\* A gate leaves "awaiting_decision" only by a ruling on that very suspension:
\* the other actions that write a status find the stage in another one.
Ruled(r, s) ==
  \E c \in Callers : /\ pc[c] = "answer" /\ Decision(c) = <<r, s, round[r][s]>>
                     /\ status'[r][s] = Outcome(ruling[c])

LEMMA OtherwiseOpen ==
  ASSUME Inv, NEW c \in Callers, Claim(c) \/ Normalize(c) \/ Start(c)
                                 \/ \E to \in Status : Finish(c, to)
  PROVE  \E to \in Status : /\ StatusHere(c) # "awaiting_decision"
                            /\ Sets(run[c], stage[c], to)
<1>1. CASE Claim(c)
  BY <1>1 DEF Claim, StatusHere, Open, Status
<1>2. CASE Normalize(c)
  BY <1>2 DEF Normalize, StatusHere, Open, Status
<1>3. CASE Start(c)
  BY <1>3 DEF Start, Open, Status, Inv, KnowsInv
<1>4. CASE \E to \in Status : Finish(c, to)
  BY <1>4 DEF Finish, StatusHere
<1> QED BY <1>1, <1>2, <1>3, <1>4

LEMMA RuledStep ==
  ASSUME Inv, [Next]_vars, NEW r \in Runs, NEW s \in Stages,
         status[r][s] = "awaiting_decision", status'[r][s] # "awaiting_decision"
  PROVE  Ruled(r, s)
<1>1. status' # status
  OBVIOUS
<1>2. CASE \E c \in Callers : Rule(c)
  <2>1. PICK c \in Callers : Rule(c)
    BY <1>2
  <2>2. run[c] \in Runs /\ stage[c] \in Stages /\ num[c] = round[run[c]][stage[c]]
    BY <2>1, CallerTypes DEF Rule, Awaits, Decision
  <2>3. r = run[c] /\ s = stage[c]
    BY <2>1, <2>2 DEF Rule, Sets, Inv, TypeOK
  <2>4. status'[r][s] = Outcome(ruling[c])
    BY <2>1, <2>3 DEF Rule, Sets, Inv, TypeOK
  <2> QED BY <2>1, <2>2, <2>3, <2>4 DEF Rule, Ruled, Decision
<1>3. CASE \E c \in Callers : Claim(c) \/ Normalize(c) \/ Start(c)
                              \/ \E to \in Status : Finish(c, to)
  <2>1. PICK c \in Callers, to \in Status :
               StatusHere(c) # "awaiting_decision" /\ Sets(run[c], stage[c], to)
    BY <1>3, OtherwiseOpen
  <2> QED BY <2>1 DEF Sets, StatusHere, Inv, TypeOK
<1>4. CASE \E q \in Runs, t \in Stages : Requeue(q, t)
  BY <1>4 DEF Requeue, Sets, Inv, TypeOK
<1>5. CASE \E c \in Callers, t \in Stages : Looks(c, t)
  BY <1>1, <1>5 DEF Looks, Resurface, MissingLine, FailsClosed, Repair, Halts, ToGate,
     ToStage, OnlyReturns, ledger
<1>6. CASE \E c \in Callers : \/ StaysDeferred(c) \/ Enter(c) \/ Finishes(c)
                              \/ Reread(c) \/ SkipHeal(c) \/ Heal(c) \/ ScanLock(c)
                              \/ Queues(c) \/ NoConflict(c) \/ Suspend(c)
  BY <1>1, <1>6 DEF StaysDeferred, Enter, Finishes, Reread, SkipHeal, Heal, ScanLock,
     Queues, NoConflict, Suspend, OnlyReturns, ledger
<1>7. CASE \E c \in Callers : \/ Account(c) \/ Commit(c) \/ Point(c)
                              \/ Stale(c) \/ Record(c) \/ Crash(c)
  BY <1>1, <1>7 DEF Account, Commit, Point, Stale, Record, Crash, OnlyReturns, ledger
<1>8. CASE \/ \E q \in Runs : Create(q)
           \/ \E c \in Callers, q \in Runs : Call(c, q)
           \/ \E c \in Callers, q \in Runs, t \in Stages, d \in Dispositions :
                Resume(c, q, t, d)
           \/ UNCHANGED vars
  BY <1>1, <1>8 DEF Create, Call, Resume, vars, ledger
<1>9. {"complete", "blocked", "in_progress"} \subseteq Status
  BY DEF Status, Open, Done
<1> QED BY <1>2, <1>3, <1>4, <1>5, <1>6, <1>7, <1>8, <1>9 DEF Next, Step
-----------------------------------------------------------------------------
\* Each variable keeps its type, and a caller is idle exactly when it has no run.
THEOREM TypeCorrect == Spec => []TypeOK
  BY Invariance, PTL DEF Inv

\* No two runs ever wait at gates that hold a common conflict key, however many
\* callers scan and claim (_scan_active_conflicts under the scan lock).
THEOREM GatesExclude == Spec => []GateExclusion
  BY Invariance, PTL DEF Inv

\* The costs on a run's lines exceed its cap by less than one iteration, for any
\* number of callers, crashes and reruns: each dispatch checks the headroom that
\* the lines leave, and nobody else adds to them while it runs (spec/50, C6).
THEOREM SpendCapped == Spec => []SpendWithinCap
  BY Invariance, PTL DEF Inv

\* A COMPLETED idempotency record always has a complete sub-goal: the branch of
\* run() for the other case is never taken.
THEOREM CommittedComplete == Spec => []CommittedIsComplete
  BY Invariance, PTL DEF Inv

\* Once a conductor_run_completed line is written, every stage of the run is
\* complete or skipped, for good.
THEOREM CompletedDone == Spec => []CompletedIsDone
  BY Invariance, PTL DEF Inv

\* A done stage can be passed by the next call unless a caller died between its
\* status and its result or ruling line.
THEOREM PlaceKept == Spec => []KeepsItsPlace
  BY Invariance, PTL DEF Inv

\* An answer decides exactly the suspension it was given for
\* (expected_decision_id in _record_gate_answer).
THEOREM AnswersFit == Spec => RulingFits
<1>1. Inv /\ [Next]_vars =>
        [\A r \in Runs, s \in Stages :
           status[r][s] = "awaiting_decision" /\ status'[r][s] # "awaiting_decision"
           => Ruled(r, s)]_vars
  BY RuledStep
<1> QED BY <1>1, Invariance, PTL DEF Spec, RulingFits, Ruled
-----------------------------------------------------------------------------
\* A stage is touched only when the ones before it are done, and stays behind
\* them: a caller that came to a stage, and every stage with a status.
DoneBefore(r, s) == \A t \in 1..(s - 1) : status[r][t] \in Done
OrderInv ==
  /\ \A c \in Callers : pc[c] \notin {"idle", "enter", "look"} =>
       DoneBefore(run[c], stage[c])
  /\ \A r \in Runs, s \in Stages :
       status[r][s] # "pending" => DoneBefore(r, s)

\* Where the stage of a caller that has one comes from.
LEMMA StageOrigin ==
  ASSUME Inv, [Next]_vars, NEW d \in Callers, pc'[d] \notin {"idle", "enter", "look"}
  PROVE  \/ /\ pc[d] \notin {"idle", "enter", "look"}
            /\ run'[d] = run[d] /\ stage'[d] = stage[d]
         \/ \E s \in Stages : Here(d, s) /\ run'[d] = run[d] /\ stage'[d] = s
         \/ \E r \in Runs, s \in Stages :
              /\ status[r][s] = "awaiting_decision"
              /\ run'[d] = r /\ stage'[d] = s
<1> USE DEF Inv, TypeOK, Goes
<1>1. ASSUME NEW c \in Callers, Step(c) 
      PROVE  \/ /\ pc[d] \notin {"idle", "enter", "look"}
                /\ run'[d] = run[d] /\ stage'[d] = stage[d]
             \/ \E s \in Stages : Here(d, s) /\ run'[d] = run[d] /\ stage'[d] = s
  <2>1. CASE StaysDeferred(c)
    BY <2>1 DEF StaysDeferred, OnlyReturns, Returns
  <2>2. CASE Enter(c)
    BY <2>2 DEF Enter
  <2>3. CASE Finishes(c)
    BY <2>3 DEF Finishes, Returns
  <2>4. CASE \E s \in Stages : Looks(c, s)
    BY <2>4 DEF Looks, Resurface, MissingLine, FailsClosed, Repair, Halts, ToGate,
       ToStage, OnlyReturns, Returns, Turns, caller
  <2>5. CASE Reread(c)
    BY <2>5 DEF Reread
  <2>6. CASE SkipHeal(c)
    BY <2>6 DEF SkipHeal, OnlyReturns, Returns
  <2>7. CASE Heal(c)
    BY <2>7 DEF Heal, Returns
  <2>8. CASE ScanLock(c)
    BY <2>8 DEF ScanLock
  <2>9. CASE Queues(c)
    BY <2>9 DEF Queues, Returns
  <2>10. CASE NoConflict(c)
    BY <2>10 DEF NoConflict
  <2>11. CASE Claim(c)
    BY <2>11 DEF Claim, Turns
  <2>12. CASE Suspend(c)
    BY <2>12 DEF Suspend, Returns
  <2>13. CASE Normalize(c)
    BY <2>13 DEF Normalize, caller
  <2>14. CASE Start(c)
    BY <2>14 DEF Start
  <2>15. CASE Account(c)
    BY <2>15 DEF Account, Returns
  <2>16. CASE Commit(c)
    BY <2>16 DEF Commit
  <2>17. CASE Point(c)
    BY <2>17 DEF Point, Turns
  <2>18. CASE \E to \in {"complete", "blocked", "in_progress"} : Finish(c, to)
    BY <2>18 DEF Finish, Turns
  <2>19. CASE Rule(c)
    BY <2>19 DEF Rule
  <2>20. CASE Stale(c)
    BY <2>20 DEF Stale, OnlyReturns, Returns
  <2>21. CASE Record(c)
    BY <2>21 DEF Record, Returns
  <2> QED BY <1>1, <2>1, <2>2, <2>3, <2>4, <2>5, <2>6, <2>7, <2>8, <2>9, <2>10, <2>11,
             <2>12, <2>13, <2>14, <2>15, <2>16, <2>17, <2>18, <2>19, <2>20,
             <2>21 DEF Step
<1>2. ASSUME NEW c \in Callers, NEW r \in Runs, NEW s \in Stages,
             NEW k \in Dispositions, Resume(c, r, s, k)
      PROVE  \/ /\ pc[d] \notin {"idle", "enter", "look"}
                /\ run'[d] = run[d] /\ stage'[d] = stage[d]
             \/ /\ status[r][s] = "awaiting_decision"
                /\ run'[d] = r /\ stage'[d] = s
  BY <1>2 DEF Resume
<1>3. CASE \E c \in Callers, r \in Runs : Call(c, r)
  BY <1>3 DEF Call
<1>4. CASE \E c \in Callers : Crash(c)
  BY <1>4 DEF Crash, Returns
<1>5. CASE \/ \E r \in Runs : Create(r)
           \/ \E r \in Runs, s \in Stages : Requeue(r, s)
           \/ UNCHANGED vars
  BY <1>5 DEF Create, Requeue, caller, vars
<1> QED BY <1>1, <1>2, <1>3, <1>4, <1>5 DEF Next

\* How a step changes the status of one stage: never of one that is done.
Changes(r, s, v) ==
  /\ status' = [status EXCEPT ![r][s] = v]
  /\ DoneBefore(r, s)
  /\ \/ status[r][s] \in Open /\ v \in Open
     \/ status[r][s] \in Open /\ s \in Gates[r] /\ v = "awaiting_decision"
     \/ status[r][s] \in Open /\ s \notin Gates[r] /\ v = "complete"
     \/ status[r][s] = "awaiting_decision" /\ v \in Done \union {"abandoned"}
     \/ status[r][s] = "abandoned" /\ v = "pending"

LEMMA StatusChange ==
  ASSUME Inv, OrderInv, [Next]_vars
  PROVE  \/ status' = status
         \/ \E r \in Runs, s \in Stages, v \in Status : Changes(r, s, v)
<1>1. ASSUME NEW c \in Callers, pc[c] \notin {"idle", "enter", "look"}
      PROVE  run[c] \in Runs /\ stage[c] \in Stages /\ DoneBefore(run[c], stage[c])
  BY <1>1, RunTypes, CallerTypes DEF OrderInv
<1>2. ASSUME NEW c \in Callers, Claim(c)
      PROVE  Changes(run[c], stage[c], "awaiting_decision")
  BY <1>1, <1>2 DEF Claim, Sets, Changes, Inv, PlaceInv
<1>3. ASSUME NEW c \in Callers, Normalize(c) \/ Start(c)
      PROVE  Changes(run[c], stage[c], "in_progress")
  BY <1>1, <1>3 DEF Normalize, Start, Sets, Changes, Inv, KnowsInv, StatusHere, Open
<1>4. ASSUME NEW c \in Callers, NEW to \in {"complete", "blocked", "in_progress"},
             Finish(c, to)
      PROVE  Changes(run[c], stage[c], to)
  BY <1>1, <1>4 DEF Finish, Sets, Changes, Inv, PlaceInv, Open
<1>5. ASSUME NEW c \in Callers, Rule(c)
      PROVE  Changes(run[c], stage[c], Outcome(ruling[c]))
  <2>1. Outcome(ruling[c]) \in Done \union {"abandoned"}
    BY <1>5 DEF Rule, Inv, PlaceInv, Dispositions, Outcome, Done
  <2> QED BY <1>1, <1>5, <2>1 DEF Rule, Sets, Awaits, Decision, Changes
<1>6. ASSUME NEW r \in Runs, NEW s \in Stages, Requeue(r, s)
      PROVE  Changes(r, s, "pending")
  BY <1>6 DEF Requeue, Sets, Changes, OrderInv
<1>7. \A c \in Callers : ruling[c] \in Dispositions =>
         Outcome(ruling[c]) \in Status
  BY DEF Outcome, Dispositions, Status, Done
<1>8. ASSUME NEW c \in Callers, Step(c)
      PROVE  \/ status' = status \/ Claim(c) \/ Normalize(c) \/ Start(c) \/ Rule(c)
             \/ \E to \in {"complete", "blocked", "in_progress"} : Finish(c, to)
  BY <1>8 DEF Step, Looks, StaysDeferred, Enter, Finishes, Resurface, MissingLine,
       FailsClosed, Repair, Halts, ToGate, ToStage, Reread, SkipHeal, Heal,
       ScanLock, Queues, NoConflict, Suspend, Account, Commit, Point, Stale,
       Record, OnlyReturns, ledger
<1>9. CASE \E c \in Callers : Step(c)
  <2> PICK c \in Callers : Step(c)
    BY <1>9
  <2>1. CASE Rule(c)
    BY <1>1, <1>5, <1>7, <2>1 DEF Rule, Inv, PlaceInv
  <2>2. CASE Claim(c) \/ Normalize(c) \/ Start(c)
    BY <1>1, <1>2, <1>3, <2>2 DEF Claim, Normalize, Start, Status, Open
  <2>3. CASE \E to \in {"complete", "blocked", "in_progress"} : Finish(c, to)
    BY <1>1, <1>4, <2>3 DEF Finish, Status, Open, Done
  <2> QED BY <1>8, <2>1, <2>2, <2>3
<1>10. CASE \E r \in Runs, s \in Stages : Requeue(r, s)
  BY <1>6, <1>10 DEF Status, Open
<1>11. CASE \/ \E r \in Runs : Create(r)
            \/ \E c \in Callers, r \in Runs : Call(c, r)
            \/ \E c \in Callers, r \in Runs, s \in Stages, k \in Dispositions :
                 Resume(c, r, s, k)
            \/ \E c \in Callers : Crash(c)
            \/ UNCHANGED vars
  BY <1>11 DEF Create, Call, Resume, Crash, ledger, vars
<1> QED BY <1>9, <1>10, <1>11 DEF Next

\* What is done stays done.
LEMMA DoneStays ==
  ASSUME Inv, OrderInv, [Next]_vars, NEW r \in Runs, NEW s \in Stages,
         status[r][s] \in Done
  PROVE  status'[r][s] \in Done
<1>1. ASSUME NEW q \in Runs, NEW t \in Stages, NEW v \in Status, Changes(q, t, v)
      PROVE  status'[r][s] \in Done
  BY <1>1 DEF Changes, Inv, TypeOK, Open, Done
<1> QED BY <1>1, StatusChange

LEMMA OrderStep ==
  ASSUME Inv, OrderInv, [Next]_vars
  PROVE  OrderInv'
<1>1. ASSUME NEW r \in Runs, NEW s \in Stages, DoneBefore(r, s)
      PROVE  DoneBefore(r, s)'
  <2>1. 1..(s - 1) \subseteq Stages
    BY PlaybookAssumption DEF Stages
  <2> QED BY <1>1, <2>1, DoneStays DEF DoneBefore
<1>2. ASSUME NEW c \in Callers, pc'[c] \notin {"idle", "enter", "look"}
      PROVE  DoneBefore(run[c], stage[c])'
  <2>1. CASE /\ pc[c] \notin {"idle", "enter", "look"}
             /\ run'[c] = run[c] /\ stage'[c] = stage[c]
    BY <1>1, <2>1, RunTypes, CallerTypes DEF OrderInv, DoneBefore
  <2>2. ASSUME NEW s \in Stages, Here(c, s), run'[c] = run[c], stage'[c] = s
        PROVE  DoneBefore(run[c], stage[c])'
    <3>1. run[c] \in Runs
      BY <2>2, RunTypes DEF Here
    <3>2. DoneBefore(run[c], s)
      BY <2>2 DEF Here, Passed, DoneBefore, Done
    <3> QED BY <1>1, <2>2, <3>1, <3>2 DEF DoneBefore
  <2>3. ASSUME NEW r \in Runs, NEW s \in Stages, status[r][s] = "awaiting_decision",
               run'[c] = r, stage'[c] = s
        PROVE  DoneBefore(run[c], stage[c])'
    <3>1. DoneBefore(r, s)
      BY <2>3 DEF OrderInv
    <3> QED BY <1>1, <2>3, <3>1 DEF DoneBefore
  <2> QED BY <1>2, <2>1, <2>2, <2>3, StageOrigin
<1>3. ASSUME NEW r \in Runs, NEW s \in Stages, status'[r][s] # "pending"
      PROVE  DoneBefore(r, s)'
  <2>1. DoneBefore(r, s)
    <3>1. CASE status' = status
      BY <1>3, <3>1 DEF OrderInv
    <3>2. ASSUME NEW q \in Runs, NEW t \in Stages, NEW v \in Status, Changes(q, t, v)
          PROVE  DoneBefore(r, s)
      BY <1>3, <3>2 DEF OrderInv, Changes, Inv, TypeOK
    <3> QED BY <3>1, <3>2, StatusChange
  <2> QED BY <1>1, <2>1
<1> QED BY <1>2, <1>3 DEF OrderInv

LEMMA OrderInvariance == Spec => []OrderInv
<1>1. Init => OrderInv
  BY DEF Init, OrderInv
<1> QED BY <1>1, OrderStep, Invariance, PTL DEF Spec

-----------------------------------------------------------------------------
\* Before, Place and Phase of a run whose stages have the statuses f.
DoneUpTo(f, s) == \A t \in 1..(s - 1) : f[t] \in Done
BeforeOf(f)    == {s \in Stages : \A t \in 1..s : f[t] \in Done}
PlaceOf(f)     == Cardinality(BeforeOf(f)) + 1
PhaseOf(v)     == CASE v = "awaiting_decision" -> "asked"
                    [] v = "abandoned" -> "halted"
                    [] OTHER -> "ready"

\* The stages before the place of a run are an initial interval: a set of
\* stages that is closed downwards has as many members as its largest one.
LEMMA BeforeIsPrefix ==
  ASSUME NEW f
  PROVE  PlaceOf(f) \in 1..(Length + 1) /\ BeforeOf(f) = 1..(PlaceOf(f) - 1)
<1> DEFINE n == Cardinality(BeforeOf(f))
<1>1. IsFiniteSet(Stages) /\ Cardinality(Stages) = Length
  BY FS_Interval, PlaybookAssumption DEF Stages
<1>2. BeforeOf(f) \in SUBSET Stages
  BY DEF BeforeOf
<1>3. IsFiniteSet(BeforeOf(f)) /\ n \in Nat /\ n <= Length
  BY <1>1, <1>2, FS_Subset, FS_CardinalityType
<1>4. ASSUME NEW s \in BeforeOf(f) PROVE s <= n
  <2>1. s \in Nat /\ s >= 1 /\ s <= Length
    BY <1>2, PlaybookAssumption DEF Stages
  <2>2. 1..s \in SUBSET BeforeOf(f)
    BY <2>1, PlaybookAssumption DEF BeforeOf, Stages
  <2>3. Cardinality(1..s) <= n
    BY <1>3, <2>2, FS_Subset
  <2> QED BY <2>1, <2>3, FS_Interval
<1>5. IsFiniteSet(1..n) /\ Cardinality(1..n) = n
  BY <1>3, FS_Interval
<1>6. BeforeOf(f) \in SUBSET (1..n)
  BY <1>2, <1>3, <1>4 DEF Stages
<1>7. BeforeOf(f) = 1..n
  BY <1>5, <1>6, FS_Subset
<1>8. PlaceOf(f) = n + 1
  BY DEF PlaceOf
<1> HIDE DEF n
<1> QED BY <1>3, <1>7, <1>8, PlaybookAssumption

\* The place of a run is its first stage that is not done.
LEMMA PlaceIsFirst ==
  ASSUME NEW f, NEW s \in 1..(Length + 1), DoneUpTo(f, s),
         s \in Stages => f[s] \notin Done
  PROVE  PlaceOf(f) = s
<1>1. PlaceOf(f) \in 1..(Length + 1) /\ BeforeOf(f) = 1..(PlaceOf(f) - 1)
  BY BeforeIsPrefix
<1>2. s \in Nat /\ s >= 1 /\ s <= Length + 1
  BY PlaybookAssumption
<1>3. 1..(s - 1) \subseteq BeforeOf(f)
  BY <1>2, PlaybookAssumption DEF BeforeOf, DoneUpTo, Stages
<1>4. s \notin BeforeOf(f)
  BY <1>2 DEF BeforeOf
<1> QED BY <1>1, <1>2, <1>3, <1>4, PlaybookAssumption

\* No stage beyond the place of a run has been touched.
LEMMA NeverAhead ==
  ASSUME NEW f, NEW s \in Stages, DoneUpTo(f, s)
  PROVE  s <= PlaceOf(f)
<1>1. PlaceOf(f) \in 1..(Length + 1) /\ BeforeOf(f) = 1..(PlaceOf(f) - 1)
  BY BeforeIsPrefix
<1> SUFFICES ASSUME s > PlaceOf(f) PROVE FALSE
  BY <1>1, PlaybookAssumption DEF Stages
<1>2. PlaceOf(f) \in BeforeOf(f)
  BY <1>1, PlaybookAssumption DEF BeforeOf, DoneUpTo, Stages
<1> QED BY <1>1, <1>2

\* So the phase of a run goes by the status of the stage at its place, in this
\* state and in the next.
LEMMA PlaceIs ==
  ASSUME NEW r \in Runs
  PROVE  Place(r) = PlaceOf(status[r]) /\ Place(r)' = PlaceOf(status'[r])
  BY DEF Place, PlaceOf, Before, BeforeOf

LEMMA PhaseIs ==
  ASSUME OrderInv, NEW r \in Runs
  PROVE  Phase(r) = IF Place(r) > Length THEN "ready"
                    ELSE PhaseOf(status[r][Place(r)])
<1>1. ~ \E s \in Stages : s > Place(r) /\ status[r][s] # "pending"
  BY PlaceIs, NeverAhead, BeforeIsPrefix, PlaybookAssumption
     DEF OrderInv, DoneBefore, DoneUpTo, Stages
<1> QED BY <1>1 DEF Phase, PhaseOf

LEMMA NextPhaseIs ==
  ASSUME OrderInv', NEW r \in Runs
  PROVE  Phase(r)' = IF Place(r)' > Length THEN "ready"
                     ELSE PhaseOf(status'[r][Place(r)'])
<1>1. ~ \E s \in Stages : s > Place(r)' /\ status'[r][s] # "pending"
  BY PlaceIs, NeverAhead, BeforeIsPrefix, PlaybookAssumption
     DEF OrderInv, DoneBefore, DoneUpTo, Stages
<1> QED BY <1>1 DEF Phase, PhaseOf

\* What a step makes of the place and the phase of each run.
LEMMA SamePlace ==
  ASSUME OrderInv, OrderInv', NEW r \in Runs, status'[r] = status[r]
  PROVE  Place(r)' = Place(r) /\ Phase(r)' = Phase(r)
<1>1. Before(r)' = Before(r)
  BY DEF Before
<1> QED BY <1>1 DEF Place, Phase

LEMMA ChangedPlace ==
  ASSUME Inv, OrderInv, OrderInv', NEW r \in Runs, NEW s \in Stages,
         NEW v \in Status, Changes(r, s, v)
  PROVE  /\ Place(r) = s /\ Phase(r) = PhaseOf(status[r][s])
         /\ Place(r)' = IF v \in Done THEN s + 1 ELSE s
         /\ Phase(r)' = IF v \in Done THEN "ready" ELSE PhaseOf(v)
         /\ \A q \in Runs : q # r => Place(q)' = Place(q) /\ Phase(q)' = Phase(q)
<1>1. /\ s \in Nat /\ s >= 1 /\ s <= Length /\ s \in 1..(Length + 1)
      /\ s + 1 \in 1..(Length + 1)
  BY PlaybookAssumption DEF Stages
<1>2. status[r][s] \notin Done /\ DoneBefore(r, s)
  BY DEF Changes, Open, Done
<1>3. Place(r) = s
  BY <1>1, <1>2, PlaceIsFirst, PlaceIs DEF DoneBefore, DoneUpTo
<1>4. Phase(r) = PhaseOf(status[r][s])
  BY <1>1, <1>3, PhaseIs, PlaybookAssumption
<1>5. /\ status'[r][s] = v
      /\ \A t \in Stages : t # s => status'[r][t] = status[r][t]
      /\ \A q \in Runs : q # r => status'[q] = status[q]
  BY DEF Changes, Inv, TypeOK
<1>6. \A q \in Runs : q # r => Place(q)' = Place(q) /\ Phase(q)' = Phase(q)
  BY <1>5, SamePlace
<1>7. DoneUpTo(status'[r], s)
  BY <1>1, <1>2, <1>5, PlaybookAssumption DEF DoneBefore, DoneUpTo, Stages
<1>8. CASE v \notin Done
  <2>1. Place(r)' = s
    BY <1>1, <1>5, <1>7, <1>8, PlaceIsFirst, PlaceIs
  <2>2. Phase(r)' = PhaseOf(v)
    BY <1>1, <1>5, <2>1, NextPhaseIs, PlaybookAssumption
  <2> QED BY <1>3, <1>4, <1>6, <1>8, <2>1, <2>2
<1>9. CASE v \in Done
  <2>1. DoneUpTo(status'[r], s + 1)
    BY <1>1, <1>5, <1>7, <1>9 DEF DoneUpTo
  <2>2. s + 1 \in Stages => status'[r][s + 1] = "pending"
    BY <1>1, <1>2, <1>5 DEF OrderInv, DoneBefore
  <2>3. Place(r)' = s + 1
    BY <1>1, <2>1, <2>2, PlaceIsFirst, PlaceIs DEF Done
  <2>4. Phase(r)' = "ready"
    BY <1>1, <2>2, <2>3, NextPhaseIs, PlaybookAssumption DEF PhaseOf, Stages
  <2> QED BY <1>3, <1>4, <1>6, <1>9, <2>3, <2>4
<1> QED BY <1>8, <1>9

\* Every step of the conductor is a step of the playbook, or none.
LEMMA PlaybookStep ==
  ASSUME Inv, OrderInv, OrderInv', [Next]_vars
  PROVE  [Abstract!Next]_<<[r \in Runs |-> Place(r)], [r \in Runs |-> Phase(r)]>>
<1> DEFINE place == [r \in Runs |-> Place(r)]
           phase == [r \in Runs |-> Phase(r)]
<1>1. CASE status' = status
  BY <1>1, SamePlace
<1>2. ASSUME NEW r \in Runs, NEW s \in Stages, NEW v \in Status, Changes(r, s, v)
      PROVE  [Abstract!Next]_<<place, phase>>
  <2>1. /\ place[r] = s /\ phase[r] = PhaseOf(status[r][s])
        /\ place' = [place EXCEPT ![r] = IF v \in Done THEN s + 1 ELSE s]
        /\ phase' = [phase EXCEPT ![r] = IF v \in Done THEN "ready" ELSE PhaseOf(v)]
    BY <1>2, ChangedPlace
  <2> HIDE DEF place, phase
  <2>2. CASE status[r][s] \in Open /\ v \in Open
    BY <2>1, <2>2 DEF PhaseOf, Open, Done, place, phase
  <2>3. CASE /\ status[r][s] \in Open /\ s \in Gates[r]
             /\ v = "awaiting_decision"
    <3>1. Abstract!Ask(r)
      BY <2>1, <2>3 DEF Abstract!Ask, Abstract!Moves, PhaseOf, Open, Done, place, phase
    <3> QED BY <3>1 DEF Abstract!Next
  <2>4. CASE status[r][s] \in Open /\ s \notin Gates[r] /\ v = "complete"
    <3>1. Abstract!Stage(r)
      BY <2>1, <2>4 DEF Abstract!Stage, Abstract!Moves, PhaseOf, Open, Done,
           Stages, place, phase
    <3> QED BY <3>1 DEF Abstract!Next
  <2>5. CASE status[r][s] = "awaiting_decision" /\ v \in Done
    <3>1. Abstract!Proceed(r)
      BY <2>1, <2>5 DEF Abstract!Proceed, Abstract!Moves, PhaseOf, place, phase
    <3> QED BY <3>1 DEF Abstract!Next
  <2>6. CASE status[r][s] = "awaiting_decision" /\ v = "abandoned"
    <3>1. Abstract!Halt(r)
      BY <2>1, <2>6 DEF Abstract!Halt, Abstract!Moves, PhaseOf, Done, place, phase
    <3> QED BY <3>1 DEF Abstract!Next
  <2>7. CASE status[r][s] = "abandoned" /\ v = "pending"
    <3>1. Abstract!Requeue(r)
      BY <2>1, <2>7 DEF Abstract!Requeue, Abstract!Moves, PhaseOf, Done, place, phase
    <3> QED BY <3>1 DEF Abstract!Next
  <2> QED BY <1>2, <2>2, <2>3, <2>4, <2>5, <2>6, <2>7 DEF Changes
<1> QED BY <1>1, <1>2, StatusChange

\* docs/spec/50-conductor.md: every run does its stages in order, each once,
\* and waits at its gates, for any callers, runs, gates and crashes.
THEOREM RunsFollowPlaybook == Spec => ImplementsPlaybook
<1>1. Init => Abstract!Init
  <2> SUFFICES ASSUME Init PROVE Abstract!Init
    OBVIOUS
  <2>1. OrderInv
    BY DEF Init, OrderInv
  <2>2. ASSUME NEW r \in Runs PROVE Place(r) = 1 /\ Phase(r) = "ready"
    <3>1. DoneUpTo(status[r], 1) /\ 1 \in 1..(Length + 1)
      BY PlaybookAssumption DEF DoneUpTo
    <3>2. \A s \in Stages : status[r][s] = "pending"
      BY DEF Init
    <3>3. Place(r) = 1
      BY <3>1, <3>2, PlaceIsFirst, PlaceIs DEF Done
    <3>4. Phase(r) = "ready"
      BY <2>1, <3>2, <3>3, PhaseIs, PlaybookAssumption DEF PhaseOf, Stages
    <3> QED BY <3>3, <3>4
  <2> QED BY <2>2 DEF Abstract!Init
<1>2. Inv /\ OrderInv /\ OrderInv' /\ [Next]_vars =>
        [Abstract!Next]_<<[r \in Runs |-> Place(r)], [r \in Runs |-> Phase(r)]>>
  BY PlaybookStep
<1> QED
  BY <1>1, <1>2, Invariance, OrderInvariance, PTL
     DEF Spec, ImplementsPlaybook, Abstract!Spec

=============================================================================
