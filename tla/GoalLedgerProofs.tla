--------------------------- MODULE GoalLedgerProofs ---------------------------
(***************************************************************************)
(* Theorems about GoalLedger, for any processes, sub-goals and bounds.     *)
(*                                                                         *)
(* The invariant says what the lock protects: while a process holds it,    *)
(* goal.md is as the line it will append says, or as the copy in the       *)
(* archive, and a goal_created line is the first of its goal.              *)
(***************************************************************************)
EXTENDS GoalLedger, SequenceTheorems, TLAPS

Agrees(g, e) ==
  e.event # "rejected" =>
    g # None /\ g.gen = e.gen /\ (e.sub # None => g.status[e.sub] = e.status)

Fresh(e) ==
  e.event = "created" => \A i \in 1..Len(history) : history[i].gen # e.gen

LineInv ==
  \A p \in Processes : pc[p] = "append" =>
    /\ Agrees(md, ev[p]) /\ Fresh(ev[p])
    /\ ev[p].event \in {"started", "reset"} => cur[p] \in Subs

UnlinkInv == \A p \in Processes : pc[p] = "unlink" => md # None /\ archive = md

GenInv ==
  /\ \A i \in 1..Len(history) : history[i].gen <= gens
  /\ md # None => md.gen <= gens
  /\ \A p \in Processes :
       /\ view[p] # None => view[p].gen <= gens
       /\ ev[p] # None => ev[p].gen <= gens

Inv == TypeOK /\ LineInv /\ UnlinkInv /\ GenInv /\ CreatedFirst
-----------------------------------------------------------------------------
LEMMA NewGoalType ==
  ASSUME NEW g \in 1..MaxGoals
  PROVE  NewGoal(g) \in Goals /\ NewGoal(g).gen = g
  BY GoalAssumption DEF NewGoal, Goals, Statuses

\* Giving one sub-goal another status, and perhaps another blocker, keeps a
\* goal a goal, and the same one.
LEMMA ChangedType ==
  ASSUME NEW g \in Goals, NEW s \in Subs, NEW to \in Statuses,
         NEW b \in Subs \union {None}
  PROVE  LET h == [g EXCEPT !.status[s] = to, !.blocker[s] = b]
         IN  h \in Goals /\ h.gen = g.gen /\ h.status[s] = to
  BY DEF Goals

LEMMA MarkedType ==
  ASSUME NEW g \in Goals, NEW m \in Marked(g)
  PROVE  m \in Goals /\ m.gen = g.gen
<1>1. ASSUME NEW s \in Subs,
             m = [g EXCEPT !.status[s] = "in_progress", !.blocker[s] = None]
      PROVE  m \in Goals /\ m.gen = g.gen
  <2>1. "in_progress" \in Statuses
    BY DEF Statuses
  <2> QED BY <1>1, <2>1 DEF Goals
<1>2. ASSUME NEW s \in Subs, m = [g EXCEPT !.status[s] = "complete"]
      PROVE  m \in Goals /\ m.gen = g.gen
  <2>1. "complete" \in Statuses
    BY DEF Statuses
  <2> QED BY <1>2, <2>1 DEF Goals
<1>3. \/ \E s \in Subs :
            m = [g EXCEPT !.status[s] = "in_progress", !.blocker[s] = None]
      \/ \E s \in Subs : m = [g EXCEPT !.status[s] = "complete"]
  BY Zenon DEF Marked
<1> QED BY <1>1, <1>2, <1>3

LEMMA EventType ==
  ASSUME NEW g \in Goals, NEW s \in Subs \union {None},
         NEW to \in Statuses \union {None},
         NEW n \in {"created", "rejected", "started", "reset", "dispatched"}
  PROVE  /\ Event(n, g, s, to) \in Events
         /\ Event(n, g, s, to).gen = g.gen /\ Event(n, g, s, to).event = n
         /\ Event(n, g, s, to).sub = s /\ Event(n, g, s, to).status = to
  BY DEF Event, Events, Goals

LEMMA NoneNot == /\ None \notin Goals /\ None \notin Events
                 /\ None \notin Processes /\ None \notin Subs
  BY NoneAssumption

LEMMA InitInv == Init => Inv
<1> SUFFICES ASSUME Init PROVE Inv
  OBVIOUS
<1>1. md \in Goals \union {None} /\ gens \in 0..MaxGoals
      /\ (md # None => md.gen <= gens)
  <2>1. 1 \in 1..MaxGoals
    BY GoalAssumption
  <2>2. NewGoal(1) \in Goals /\ NewGoal(1).gen = 1
    BY <2>1, NewGoalType
  <2> QED BY <2>1, <2>2, GoalAssumption DEF Init
<1>2. history \in Seq(Lines) /\ Len(history) = 0
  BY DEF Init
<1>3. \A p \in Processes : pc[p] = "idle" /\ view[p] = None /\ ev[p] = None
  BY DEF Init
<1>4. TypeOK
  BY <1>1, <1>2, <1>3, NoneNot DEF Init, TypeOK, Locked
<1>5. LineInv /\ UnlinkInv
  BY <1>3 DEF LineInv, UnlinkInv
<1>6. GenInv /\ CreatedFirst
  BY <1>1, <1>2, <1>3 DEF GenInv, CreatedFirst
<1> QED BY <1>4, <1>5, <1>6 DEF Inv
-----------------------------------------------------------------------------
\* A write of goal.md under the lock, with a line that says what it writes.
LEMMA CommitStep ==
  ASSUME Inv, NEW p \in Processes, NEW g \in Goals \union {None},
         NEW e \in Events, Commit(p, g, e), cur' = cur,
         gens' \in 0..MaxGoals, gens <= gens',
         g # None => g.gen <= gens', e.gen <= gens',
         Agrees(g, e), Fresh(e),
         e.event \in {"started", "reset"} => cur[p] \in Subs
  PROVE  Inv'
<1>1. TypeOK'
  BY NoneNot DEF Inv, TypeOK, Commit, Locked
<1>2. \A q \in Processes : q # p => pc'[q] \notin Locked
  BY <1>1, NoneNot DEF Inv, TypeOK, Commit, Locked
<1>3. pc'[p] = "append" /\ ev'[p] = e /\ md' = g /\ history' = history
  BY DEF Inv, TypeOK, Commit
<1>4. Agrees(g, e)' /\ Fresh(e)'
  BY <1>3 DEF Agrees, Fresh
<1>5. LineInv' /\ UnlinkInv'
  BY <1>2, <1>3, <1>4 DEF LineInv, UnlinkInv, Locked, Agrees, Fresh
<1>6. GenInv'
  <2>1. \A i \in 1..Len(history) : history[i].gen \in Nat
    <3>1. \A i \in 1..Len(history) : history[i] \in Lines
      BY ElementOfSeq DEF Inv, TypeOK
    <3> QED BY <3>1, GoalAssumption DEF Lines
  <2>2. \A q \in Processes :
          /\ view'[q] # None => view'[q] = view[q]
          /\ ev'[q] = ev[q] \/ ev'[q] = e
    BY DEF Inv, TypeOK, Commit
  <2>3. \A q \in Processes : /\ view[q] # None => view[q].gen \in Nat
                             /\ ev[q] # None => ev[q].gen \in Nat
    BY DEF Inv, TypeOK, Goals, Events
  <2>4. gens \in Nat /\ gens' \in Nat
    BY GoalAssumption DEF Inv, TypeOK
  <2> QED BY <1>3, <2>1, <2>2, <2>3, <2>4 DEF Inv, GenInv
<1>7. CreatedFirst'
  BY <1>3 DEF Inv, CreatedFirst
<1> QED BY <1>1, <1>5, <1>6, <1>7 DEF Inv

\* A process that leaves releases the lock it has, and touches goal.md only
\* if no other process has it.
LEMMA LeaveStep ==
  ASSUME Inv, NEW p \in Processes, Leave(p),
         lock' = IF lock = p THEN None ELSE lock,
         md' \in Goals \union {None}, md' # None => md'.gen <= gens,
         lock \in {None, p} \/ md' = md,
         UNCHANGED <<history, archive, gens>>
  PROVE  Inv'
<1>1. TypeOK'
  BY NoneNot DEF Inv, TypeOK, Leave, Locked
<1>2. /\ pc'[p] = "idle" /\ view'[p] = None /\ ev'[p] = None
      /\ \A q \in Processes \ {p} : /\ pc'[q] = pc[q] /\ cur'[q] = cur[q]
                                    /\ view'[q] = view[q] /\ ev'[q] = ev[q]
  BY DEF Inv, TypeOK, Leave
<1>3. \A q \in Processes \ {p} : pc[q] \in Locked => md' = md
  BY NoneNot DEF Inv, TypeOK
<1>4. LineInv'
  BY <1>2, <1>3 DEF Inv, LineInv, Locked, Agrees, Fresh
<1>5. UnlinkInv'
  BY <1>2, <1>3 DEF Inv, UnlinkInv, Locked
<1>6. GenInv' /\ CreatedFirst'
  BY <1>2 DEF Inv, GenInv, CreatedFirst
<1> QED BY <1>1, <1>4, <1>5, <1>6 DEF Inv

\* A step of a process without the lock that leaves the files alone.
LEMMA MoveStep ==
  ASSUME Inv, NEW p \in Processes, NEW to \in {"loaded", "running", "archive"},
         NEW v \in Goals \union {None}, NEW s \in Subs \union {None},
         pc[p] \notin Locked, pc' = [pc EXCEPT ![p] = to],
         view' = [view EXCEPT ![p] = v], cur' = [cur EXCEPT ![p] = s],
         to = "loaded" <=> v # None, v # None => v.gen <= gens,
         to # "archive" /\ p \in Dispatchers => s \in Subs,
         UNCHANGED <<files, ev>>
  PROVE  Inv'
<1> USE DEF files
<1>1. TypeOK'
  BY NoneNot DEF Inv, TypeOK, Locked
<1>2. /\ pc'[p] \notin Locked /\ view'[p] = v
      /\ \A q \in Processes \ {p} : /\ pc'[q] = pc[q] /\ cur'[q] = cur[q]
                                    /\ view'[q] = view[q]
  BY DEF Inv, TypeOK, Locked
<1>3. LineInv' /\ UnlinkInv'
  BY <1>2 DEF Inv, LineInv, UnlinkInv, Locked, Agrees, Fresh
<1>4. GenInv' /\ CreatedFirst'
  BY <1>2 DEF Inv, GenInv, CreatedFirst
<1> QED BY <1>1, <1>3, <1>4 DEF Inv
LEMMA TransitionStep ==
  ASSUME Inv, NEW d \in Dispatchers, NEW from, NEW to \in Statuses,
         NEW clear \in BOOLEAN, NEW n \in {"started", "reset", "dispatched"},
         cur[d] \in Subs, Transition(d, cur[d], from, to, clear, n)
  PROVE  Inv' /\ md' \in Goals
<1> DEFINE s == cur[d]
           b == IF clear THEN None ELSE md.blocker[s]
           g == [md EXCEPT !.status[s] = to, !.blocker[s] = b]
           e == Event(n, g, s, to)
<1>1. md \in Goals /\ md # None /\ s \in Subs /\ d \in Processes
  BY DEF Transition, Inv, TypeOK, Processes
<1>2. b \in Subs \union {None}
  BY <1>1 DEF Goals
<1>3. g \in Goals /\ g.gen = md.gen /\ g.status[s] = to
  <2> HIDE DEF s, b
  <2> QED BY <1>1, <1>2 DEF Goals
<1>4. Commit(d, g, e) /\ cur' = cur /\ gens' = gens
  <2>1. Commit(d, [md EXCEPT !.status[s] = to,
                             !.blocker[s] = IF clear THEN None ELSE @], e)
    BY DEF Transition, Event, Goals
  <2>2. g = [md EXCEPT !.status[s] = to,
                       !.blocker[s] = IF clear THEN None ELSE @]
    BY <1>1 DEF Goals
  <2> QED BY <2>1, <2>2 DEF Transition
<1> HIDE DEF b, g
<1>5. /\ e \in Events /\ e.gen = g.gen /\ e.event = n /\ e.sub = s
      /\ e.status = to
  BY <1>1, <1>3, EventType
<1> HIDE DEF e, s
<1>6. Agrees(g, e) /\ Fresh(e)
  BY <1>3, <1>5, NoneNot DEF Agrees, Fresh
<1>7. gens \in 0..MaxGoals /\ gens <= gens /\ g.gen <= gens
  BY <1>1, <1>3, GoalAssumption DEF Inv, TypeOK, GenInv
<1>8. md' = g
  BY <1>4 DEF Commit
<1> QED BY <1>1, <1>3, <1>4, <1>5, <1>6, <1>7, <1>8, CommitStep DEF s

LEMMA AppendStep ==
  ASSUME Inv, NEW p \in Processes, AppendLine(p)
  PROVE  Inv'
<1> DEFINE e == ev[p]
           n == Len(history)
<1>1. /\ lock = p /\ pc[p] = "append" /\ e \in Events /\ e # None
      /\ Agrees(md, e) /\ Fresh(e) /\ e.gen <= gens
      /\ e.event \in {"started", "reset"} => cur[p] \in Subs
  BY NoneNot DEF Inv, TypeOK, LineInv, GenInv, AppendLine, Locked
<1>2. \A q \in Processes \ {p} : pc[q] \notin Locked
  BY <1>1 DEF Inv, TypeOK
<1>3. /\ UNCHANGED <<md, archive, gens>> /\ lock' = None
      /\ history' = Append(history, Line(e))
  BY DEF AppendLine
<1>4. Line(e) \in Lines /\ Line(e).gen = e.gen
      /\ (Line(e).created => e.event = "created")
  BY <1>1 DEF Line, Lines, Events
<1>5. /\ history' \in Seq(Lines) /\ Len(history') = n + 1 /\ n \in Nat
      /\ \A i \in 1..n : history'[i] = history[i]
      /\ history'[n + 1] = Line(e)
  <2>1. history \in Seq(Lines)
    BY DEF Inv, TypeOK
  <2> QED BY <2>1, <1>3, <1>4, AppendProperties, LenProperties
<1>6. /\ \A q \in Processes \ {p} : /\ pc'[q] = pc[q] /\ cur'[q] = cur[q]
                                    /\ view'[q] = view[q] /\ ev'[q] = ev[q]
      /\ pc' \in [Processes -> {"idle", "loaded", "running", "archive"} \union Locked]
      /\ cur' \in [Processes -> Subs \union {None}]
      /\ view' \in [Processes -> Goals \union {None}]
      /\ ev' \in [Processes -> Events \union {None}]
      /\ ev'[p] = None
      /\ pc'[p] = "loaded" => view'[p] = md
      /\ pc'[p] # "loaded" => view'[p] = None
      /\ pc'[p] = "loaded" => md # None
      /\ pc'[p] \in {"idle", "loaded", "running"}
      /\ pc'[p] # "idle" => cur'[p] \in Subs
  <2>1. CASE e.event = "started"
    BY <1>1, <2>1 DEF AppendLine, Inv, TypeOK
  <2>2. CASE e.event = "reset"
    BY <1>1, <2>2 DEF AppendLine, Inv, TypeOK, Agrees
  <2>3. CASE e.event \notin {"started", "reset"}
    <3>1. Leave(p)
      BY <2>3 DEF AppendLine
    <3> QED BY <3>1 DEF Leave, Inv, TypeOK
  <2> QED BY <2>1, <2>2, <2>3
<1> HIDE DEF e, n
<1>7. TypeOK'
  <2>1. \A q \in Processes :
          /\ pc'[q] \in Locked <=> lock' = q
          /\ pc'[q] = "append" <=> ev'[q] # None
          /\ pc'[q] = "loaded" <=> view'[q] # None
          /\ pc'[q] \in {"loaded", "running"} /\ q \in Dispatchers => cur'[q] \in Subs
    <3>1. ASSUME NEW q \in Processes \ {p}
          PROVE  /\ pc'[q] \in Locked <=> lock' = q
                 /\ pc'[q] = "append" <=> ev'[q] # None
                 /\ pc'[q] = "loaded" <=> view'[q] # None
                 /\ pc'[q] \in {"loaded", "running"} /\ q \in Dispatchers
                      => cur'[q] \in Subs
      BY <1>2, <1>3, <1>6, NoneNot DEF Inv, TypeOK
    <3>2. /\ pc'[p] \in Locked <=> lock' = p
          /\ pc'[p] = "append" <=> ev'[p] # None
          /\ pc'[p] = "loaded" <=> view'[p] # None
          /\ pc'[p] \in {"loaded", "running"} /\ p \in Dispatchers => cur'[p] \in Subs
      BY <1>3, <1>6, NoneNot DEF Locked
    <3> QED BY <3>1, <3>2
  <2> QED BY <1>3, <1>5, <1>6, <2>1 DEF Inv, TypeOK
<1>8. LineInv' /\ UnlinkInv'
  BY <1>2, <1>6 DEF LineInv, UnlinkInv, Locked
<1>9. GenInv'
  <2>1. \A i \in 1..Len(history') : history'[i].gen <= gens'
    BY <1>1, <1>3, <1>4, <1>5 DEF Inv, GenInv, n
  <2> QED BY <1>3, <1>6, <2>1 DEF Inv, GenInv
<1>10. CreatedFirst'
  <2> SUFFICES ASSUME NEW i \in 1..(n + 1), NEW j \in 1..(n + 1), i < j,
                      history'[i].gen = history'[j].gen
               PROVE  ~history'[j].created
    BY <1>5 DEF CreatedFirst
  <2>1. CASE j = n + 1
    BY <1>1, <1>4, <1>5, <2>1 DEF Fresh, n
  <2>2. CASE j # n + 1
    BY <1>5, <2>2 DEF Inv, CreatedFirst, n
  <2> QED BY <2>1, <2>2
<1> QED BY <1>7, <1>8, <1>9, <1>10 DEF Inv

LEMMA ArchiveStep ==
  ASSUME Inv, NEW o \in Processes, Archive(o)
  PROVE  Inv'
<1>1. TypeOK'
  BY NoneNot DEF Inv, TypeOK, Archive, Locked
<1>2. /\ pc'[o] = "unlink" /\ archive' = md /\ md' = md /\ md # None
      /\ \A q \in Processes \ {o} : pc'[q] = pc[q] /\ pc[q] \notin Locked
  BY NoneNot DEF Inv, TypeOK, Archive
<1>3. LineInv' /\ UnlinkInv'
  BY <1>2 DEF LineInv, UnlinkInv, Locked
<1>4. GenInv' /\ CreatedFirst'
  BY DEF Archive, Inv, GenInv, CreatedFirst
<1> QED BY <1>1, <1>3, <1>4 DEF Inv
LEMMA DispatchStep ==
  ASSUME Inv, NEW d \in Dispatchers, Dispatch(d)
  PROVE  Inv' /\ (md' = md \/ md' \in Goals)
<1>1. d \in Processes
  BY DEF Processes
<1>2. ASSUME NEW s \in Subs, Load(d, s) PROVE Inv' /\ md' = md
  <2>1. md \in Goals /\ md.gen <= gens /\ pc[d] \notin Locked
    BY <1>1, <1>2, NoneNot DEF Load, Inv, TypeOK, GenInv, Locked
  <2> QED BY <1>1, <1>2, <2>1, NoneNot, MoveStep DEF Load, files
<1>3. pc[d] \in {"loaded", "running"} => cur[d] \in Subs
  BY <1>1 DEF Inv, TypeOK
<1>4. "in_progress" \in Statuses /\ "complete" \in Statuses
      /\ "blocked" \in Statuses
  BY DEF Statuses
<1>5. CASE Rerun(d)
  BY <1>3, <1>4, <1>5, TransitionStep DEF Rerun
<1>6. CASE Reject(d)
  <2> DEFINE e == Event("rejected", view[d], None, None)
  <2>1. view[d] \in Goals /\ view[d].gen <= gens
    BY <1>1, <1>6, NoneNot DEF Reject, Inv, TypeOK, GenInv
  <2>2. e \in Events /\ e.gen = view[d].gen /\ e.event = "rejected"
    BY <2>1, EventType
  <2>3. /\ md \in Goals \union {None}
        /\ md # None => md.gen <= gens
        /\ gens \in 0..MaxGoals /\ gens <= gens
    BY GoalAssumption DEF Inv, TypeOK, GenInv
  <2>4. Commit(d, md, e) /\ cur' = cur /\ gens' = gens
    BY <1>6 DEF Reject
  <2> HIDE DEF e
  <2>5. Agrees(md, e) /\ Fresh(e)
    BY <2>2 DEF Agrees, Fresh
  <2>6. md' = md
    BY <2>4 DEF Commit
  <2> QED BY <1>1, <2>1, <2>2, <2>3, <2>4, <2>5, <2>6, CommitStep
<1>7. CASE Start(d)
  BY <1>3, <1>4, <1>7, TransitionStep DEF Start
<1>8. CASE Resume(d)
  <2>1. pc[d] \notin Locked /\ cur' = [cur EXCEPT ![d] = cur[d]]
    BY <1>1, <1>8 DEF Resume, Inv, TypeOK, Locked
  <2> QED BY <1>1, <1>3, <1>8, <2>1, MoveStep DEF Resume, files
<1>9. CASE Finish(d)
  BY <1>3, <1>4, <1>9, TransitionStep DEF Finish
<1>10. CASE Refused(d)
  <2>1. lock = None /\ Leave(d) /\ UNCHANGED files
    BY <1>10 DEF Refused
  <2> QED BY <1>1, <2>1, LeaveStep DEF Inv, TypeOK, GenInv, files
<1> QED
  BY <1>2, <1>5, <1>6, <1>7, <1>8, <1>9, <1>10 DEF Dispatch

LEMMA OperateStep ==
  ASSUME Inv, NEW o \in Operators, Operate(o)
  PROVE  Inv'
<1>1. o \in Processes /\ o \notin Dispatchers
  BY GoalAssumption DEF Processes
<1>2. cur' = cur => cur' = [cur EXCEPT ![o] = cur[o]] /\ cur[o] \in Subs \union {None}
  BY <1>1 DEF Inv, TypeOK
<1>3. view' = view => view' = [view EXCEPT ![o] = view[o]]
  BY <1>1 DEF Inv, TypeOK
<1>4. CASE OpLoad(o)
  <2>1. md \in Goals /\ md.gen <= gens /\ pc[o] \notin Locked
    BY <1>4 DEF OpLoad, Inv, TypeOK, GenInv, Locked
  <2> QED BY <1>1, <1>2, <1>4, <2>1, NoneNot, MoveStep DEF OpLoad
<1>5. CASE Save(o)
  <2>1. view[o] \in Goals /\ view[o].gen <= gens /\ lock = None
    BY <1>1, <1>5, NoneNot DEF Save, Inv, TypeOK, GenInv
  <2>2. md' \in Goals /\ md'.gen <= gens
    BY <1>5, <2>1, MarkedType DEF Save
  <2> QED BY <1>1, <1>5, <2>1, <2>2, LeaveStep DEF Save
<1>6. CASE OpArchive(o)
  <2>1. view[o] = None /\ pc[o] \notin Locked
    BY <1>1, <1>6 DEF OpArchive, Inv, TypeOK, Locked
  <2> QED BY <1>1, <1>2, <1>3, <1>6, <2>1, MoveStep DEF OpArchive
<1>7. CASE Archive(o)
  BY <1>1, <1>7, ArchiveStep
<1>8. CASE Unlink(o)
  <2>1. lock = o
    BY <1>1, <1>8 DEF Unlink, Inv, TypeOK, Locked
  <2> QED BY <1>1, <1>8, <2>1, LeaveStep DEF Unlink
<1>9. CASE ArchiveGone(o)
  BY <1>1, <1>9, LeaveStep DEF ArchiveGone, Inv, TypeOK, GenInv, files
<1> QED BY <1>4, <1>5, <1>6, <1>7, <1>8, <1>9 DEF Operate

LEMMA CreateStep ==
  ASSUME Inv, NEW c \in Creators, Create(c) \/ Heal(c)
  PROVE  Inv'
<1>1. c \in Processes /\ gens \in 0..MaxGoals
  BY DEF Processes, Inv, TypeOK
<1>2. CASE Create(c)
  <2> DEFINE n == gens + 1
             g == NewGoal(n)
             e == Event("created", g, None, None)
  <2>1. n \in 1..MaxGoals /\ n \in 0..MaxGoals /\ gens <= n
    BY <1>1, <1>2, GoalAssumption DEF Create
  <2>2. g \in Goals /\ g.gen = n
    BY <2>1, NewGoalType
  <2>3. Commit(c, g, e) /\ cur' = cur /\ gens' = n
    BY <1>2 DEF Create
  <2> HIDE DEF g
  <2>4. e \in Events /\ e.gen = n /\ e.event = "created" /\ e.sub = None
    BY <2>2, EventType
  <2> HIDE DEF e
  <2>5. Fresh(e)
    <3> SUFFICES ASSUME NEW i \in 1..Len(history)
                 PROVE  history[i].gen # n
      BY <2>4 DEF Fresh
    <3>1. history[i].gen <= gens
      BY DEF Inv, GenInv
    <3>2. history[i] \in Lines
      BY ElementOfSeq DEF Inv, TypeOK
    <3> QED BY <1>1, <3>1, <3>2, GoalAssumption DEF Lines
  <2>6. Agrees(g, e)
    BY <2>2, <2>4, NoneNot DEF Agrees
  <2>7. n <= n
    BY <2>1
  <2> QED BY <1>1, <2>1, <2>2, <2>3, <2>4, <2>5, <2>6, <2>7, CommitStep
<1>3. CASE Heal(c)
  <2> DEFINE e == Event("created", md, None, None)
  <2>1. md \in Goals /\ md.gen <= gens /\ md # None
    BY <1>3 DEF Heal, Heals, Inv, TypeOK, GenInv
  <2>2. e \in Events /\ e.gen = md.gen /\ e.event = "created" /\ e.sub = None
    BY <2>1, EventType
  <2>3. Commit(c, md, e) /\ cur' = cur /\ gens' = gens
    BY <1>3 DEF Heal
  <2> HIDE DEF e
  <2>4. Len(history) = 0
    BY <1>3 DEF Heal, Heals, Verdict
  <2>5. Agrees(md, e) /\ Fresh(e)
    BY <2>1, <2>2, <2>4 DEF Agrees, Fresh
  <2>6. gens <= gens
    BY <1>1, GoalAssumption
  <2> QED BY <1>1, <2>1, <2>2, <2>3, <2>5, <2>6, CommitStep
<1> QED BY <1>2, <1>3

LEMMA NextInv ==
  ASSUME Inv, [Next]_vars
  PROVE  Inv'
<1>1. ASSUME NEW p \in Processes, Crash(p) PROVE Inv'
  BY <1>1, LeaveStep DEF Crash, Inv, TypeOK, GenInv
<1>2. CASE UNCHANGED vars
  BY <1>2 DEF vars, Inv, TypeOK, LineInv, UnlinkInv, GenInv, CreatedFirst,
     Agrees, Fresh
<1> QED
  BY <1>1, <1>2, DispatchStep, OperateStep, CreateStep, AppendStep DEF Next

LEMMA Invariance == Spec => []Inv
  BY InitInv, NextInv, PTL DEF Spec
-----------------------------------------------------------------------------
\* Whatever the number of processes and sub-goals, the files, the lock and
\* what each process remembers fit together.
THEOREM TypeCorrect == Spec => []TypeOK
<1>1. Inv => TypeOK
  BY DEF Inv
<1> QED BY <1>1, Invariance, PTL

\* create_goal, its crashes and retries leave at most one goal_created line
\* per goal, and it is the first of that goal: the line is written for a goal
\* that no line is about, under the lock that every other line needs.
THEOREM CreatedIsFirst == Spec => []CreatedFirst
<1>1. Inv => CreatedFirst
  BY DEF Inv
<1> QED BY <1>1, Invariance, PTL

\* spec/41 MUST 6: when a line is appended, goal.md is as the line says.
THEOREM AuditedAsWritten == Spec => AuditMatchesGoal
<1> DEFINE Matches ==
      history' # history =>
        LET e == ev[lock]
        IN  e.event # "rejected" =>
              /\ md # None /\ md.gen = e.gen
              /\ e.sub # None => md.status[e.sub] = e.status
<1>1. Inv /\ [Next]_vars => Matches
  <2> SUFFICES ASSUME Inv, [Next]_vars, history' # history PROVE Matches
    OBVIOUS
  <2>1. PICK p \in Processes : AppendLine(p)
    BY DEF Next, vars, files, Dispatch, Operate, Load, Rerun, Reject, Start,
       Resume, Finish, Refused, OpLoad, Save, OpArchive, Archive, Unlink,
       ArchiveGone, Create, Heal, Crash, Transition, Commit
  <2>2. lock = p /\ Agrees(md, ev[p])
    BY <2>1 DEF AppendLine, Inv, TypeOK, LineInv, Locked
  <2> QED BY <2>2 DEF Agrees
<1>2. [Next]_vars /\ Matches => [Matches]_vars
  OBVIOUS
<1> QED BY <1>1, Invariance, PTL DEF Spec, AuditMatchesGoal

\* spec/41 MUST 7: goal.md disappears only when the archive holds it as it is.
THEOREM ArchivedFirst == Spec => ArchiveKeeps
<1> DEFINE Keeps == md # None /\ md' = None => archive = md
<1>1. Inv /\ [Next]_vars => Keeps
  <2> SUFFICES ASSUME Inv, [Next]_vars, md # None, md' = None
               PROVE  archive = md
    OBVIOUS
  <2>1. PICK o \in Operators : Unlink(o)
    <3>1. ASSUME NEW d \in Dispatchers, Dispatch(d) PROVE FALSE
      BY <3>1, DispatchStep, NoneNot
    <3>2. ASSUME NEW o \in Operators, Save(o) PROVE FALSE
      <4>1. view[o] \in Goals
        BY <3>2, NoneNot DEF Save, Inv, TypeOK, Processes
      <4> QED BY <3>2, <4>1, MarkedType, NoneNot DEF Save
    <3>3. ASSUME NEW c \in Creators, Create(c) \/ Heal(c) PROVE FALSE
      BY <3>3 DEF Create, Heal, Commit
    <3>4. ASSUME NEW p \in Processes, AppendLine(p) \/ Crash(p) PROVE FALSE
      BY <3>4 DEF AppendLine, Crash
    <3>5. ASSUME UNCHANGED vars PROVE FALSE
      BY <3>5 DEF vars
    <3>6. PICK o \in Operators : Operate(o)
      BY <3>1, <3>3, <3>4, <3>5 DEF Next
    <3>7. Unlink(o)
      BY <3>2, <3>6 DEF Operate, OpLoad, OpArchive, Archive, ArchiveGone, files
    <3> QED BY <3>7
  <2>2. pc[o] = "unlink" /\ o \in Processes
    BY <2>1 DEF Unlink, Processes
  <2> QED BY <2>2 DEF Inv, UnlinkInv
<1> QED BY <1>1, Invariance, PTL DEF Spec, ArchiveKeeps
=============================================================================
