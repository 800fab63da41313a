----------------------------- MODULE GoalLedger -----------------------------
(***************************************************************************)
(* One goal directory (goal/filesystem.py): goal.md, the append-only       *)
(* goal_history.jsonl and goal_archive/, the flock on .goal.lock, and the  *)
(* processes that use them: the goal-outcome coordinator, a conductor that *)
(* reruns a blocked stage, GoalManager, create_goal.  A write of goal.md   *)
(* (temp file and rename) and an append are one step each; loads take no   *)
(* lock, and a process may die between any two steps.                      *)
(***************************************************************************)
EXTENDS Naturals, Sequences

CONSTANTS
  Dispatchers,  \* processes in dispatch_sub_goal_as_outcome
  Conductors,   \* those that first put a blocked stage back in progress
  Operators,    \* processes that use GoalManager
  Creators,     \* processes in create_goal
  Subs,         \* sub-goals
  Blocker,      \* sub-goal: its blocked_by when the goal is written
  MaxGoals,     \* bound on the goals created under this id
  MaxEvents,    \* bound on the lines of goal_history.jsonl
  None          \* no file, no process, no sub-goal

Processes == Dispatchers \union Operators \union Creators

ASSUME GoalAssumption ==
  /\ Conductors \subseteq Dispatchers
  /\ Dispatchers \intersect (Operators \union Creators) = {}
  /\ Operators \intersect Creators = {}
  /\ Blocker \in [Subs -> Subs \union {None}]
  /\ MaxGoals \in Nat \ {0} /\ MaxEvents \in Nat

Statuses == {"pending", "in_progress", "complete", "blocked"}

\* gen tells apart the goals that were created under this id.
Goals == [gen : 1..MaxGoals, status : [Subs -> Statuses],
          blocker : [Subs -> Subs \union {None}]]

\* A line to append, and what is kept of it: whose it is, and whether it is
\* the goal_created line.
Events == [event : {"created", "rejected", "started", "reset", "dispatched"},
           gen : 1..MaxGoals, sub : Subs \union {None},
           status : Statuses \union {None}]
Lines == [gen : 1..MaxGoals, created : BOOLEAN]

ASSUME NoneAssumption ==
  None \notin Goals \union Events \union Processes \union Subs

Event(n, g, s, to) == [event |-> n, gen |-> g.gen, sub |-> s, status |-> to]
Line(e) == [gen |-> e.gen, created |-> e.event = "created"]

VARIABLES
  md,        \* goal.md
  history,   \* goal_history.jsonl
  archive,   \* the newest file in goal_archive/
  gens,      \* how many goals were created
  lock,      \* who holds the flock
  pc,        \* process: "idle", "loaded", "running", "archive", and, with
             \* the lock, "append", "unlink"
  cur,       \* dispatcher: its sub-goal
  view,      \* process: the goal it loaded
  ev         \* process: the line it is about to append

vars == <<md, history, archive, gens, lock, pc, cur, view, ev>>
files == <<md, history, archive, gens, lock>>

Locked == {"append", "unlink"}

TypeOK ==
  /\ md \in Goals \union {None} /\ history \in Seq(Lines)
  /\ archive \in Goals \union {None} /\ gens \in 0..MaxGoals
  /\ lock \in Processes \union {None}
  /\ pc \in [Processes -> {"idle", "loaded", "running", "archive"} \union Locked]
  /\ cur \in [Processes -> Subs \union {None}]
  /\ view \in [Processes -> Goals \union {None}]
  /\ ev \in [Processes -> Events \union {None}]
  /\ \A p \in Processes :
       /\ pc[p] \in Locked <=> lock = p
       /\ pc[p] = "append" <=> ev[p] # None
       /\ pc[p] = "loaded" <=> view[p] # None
       /\ pc[p] \in {"loaded", "running"} /\ p \in Dispatchers => cur[p] \in Subs

NewGoal(g) == [gen |-> g, status |-> [s \in Subs |-> "pending"],
               blocker |-> Blocker]

\* An addressed goal starts with create_goal; the standing goal is there.
Init ==
  /\ md = IF Creators = {} THEN NewGoal(1) ELSE None
  /\ gens = IF Creators = {} THEN 1 ELSE 0
  /\ history = <<>> /\ archive = None /\ lock = None
  /\ pc = [p \in Processes |-> "idle"]
  /\ cur = [p \in Processes |-> None]
  /\ view = [p \in Processes |-> None]
  /\ ev = [p \in Processes |-> None]
-----------------------------------------------------------------------------
\* The process is done, or gives up with an exception.
Leave(p) ==
  /\ pc' = [pc EXCEPT ![p] = "idle"]
  /\ cur' = [cur EXCEPT ![p] = None]
  /\ view' = [view EXCEPT ![p] = None]
  /\ ev' = [ev EXCEPT ![p] = None]

\* Under the lock: goal.md becomes g; the line e is next, still under the lock.
Commit(p, g, e) ==
  /\ lock = None /\ lock' = p
  /\ Len(history) < MaxEvents
  /\ md' = g
  /\ ev' = [ev EXCEPT ![p] = e]
  /\ view' = [view EXCEPT ![p] = None]
  /\ pc' = [pc EXCEPT ![p] = "append"]
  /\ UNCHANGED <<history, archive>>

\* apply_transition: reload under the lock, expected_from_status, write, append.
Transition(p, s, from, to, clear, n) ==
  /\ md # None
  /\ from # None => md.status[s] = from
  /\ LET g == [md EXCEPT !.status[s] = to,
                         !.blocker[s] = IF clear THEN None ELSE @]
     IN  Commit(p, g, Event(n, g, s, to))
  /\ UNCHANGED <<cur, gens>>

\* _append_jsonl, and the lock is released.  A run starts after its "started"
\* line, and a conductor's manager takes the goal it has just reset.
AppendLine(p) ==
  /\ pc[p] = "append"
  /\ history' = Append(history, Line(ev[p]))
  /\ lock' = None
  /\ CASE ev[p].event = "started" ->
            /\ pc' = [pc EXCEPT ![p] = "running"]
            /\ ev' = [ev EXCEPT ![p] = None]
            /\ UNCHANGED <<cur, view>>
       [] ev[p].event = "reset" ->
            /\ pc' = [pc EXCEPT ![p] = "loaded"]
            /\ view' = [view EXCEPT ![p] = md]
            /\ ev' = [ev EXCEPT ![p] = None]
            /\ UNCHANGED cur
       [] OTHER -> Leave(p)
  /\ UNCHANGED <<md, archive, gens>>
-----------------------------------------------------------------------------
\* _classify_create_history, of a goal.md that is there.
Verdict ==
  IF \E i \in 1..Len(history) : history[i].created THEN "complete"
  ELSE IF history = <<>> THEN "empty" ELSE "corrupt"

\* Bug variant of Heals: the older predicate, events but no goal_created heal.
Heals_AnyUncreated == md # None /\ Verdict # "complete"
Heals == md # None /\ Verdict = "empty"

\* create_goal: a fresh goal, or the missing line of a partial one.  Anything
\* else is refused.
Create(p) ==
  /\ pc[p] = "idle"
  /\ md = None /\ gens < MaxGoals
  /\ Commit(p, NewGoal(gens + 1), Event("created", NewGoal(gens + 1), None, None))
  /\ gens' = gens + 1 /\ UNCHANGED cur

Heal(p) ==
  /\ pc[p] = "idle"
  /\ Heals
  /\ Commit(p, md, Event("created", md, None, None))
  /\ UNCHANGED <<cur, gens>>
-----------------------------------------------------------------------------
Accepts(g, s) ==
  /\ g.status[s] \in {"pending", "in_progress"}
  /\ g.blocker[s] # None => g.status[g.blocker[s]] = "complete"

\* load_goal, and the checks of step 1; a conductor also goes for a blocked
\* stage, and resets it first.
Load(d, s) ==
  /\ pc[d] = "idle" /\ md # None
  /\ Accepts(md, s) \/ (d \in Conductors /\ md.status[s] = "blocked")
  /\ pc' = [pc EXCEPT ![d] = "loaded"]
  /\ cur' = [cur EXCEPT ![d] = s]
  /\ view' = [view EXCEPT ![d] = md]
  /\ UNCHANGED <<files, ev>>

ViewStatus(d) == view[d].status[cur[d]]

\* _normalize_stage_for_rerun.
Rerun(d) ==
  /\ pc[d] = "loaded" /\ ViewStatus(d) = "blocked"
  /\ Transition(d, cur[d], "blocked", "in_progress", TRUE, "reset")

\* The cost gate refuses: the audit line first, whatever became of goal.md.
Reject(d) ==
  /\ pc[d] = "loaded" /\ ViewStatus(d) # "blocked"
  /\ Commit(d, md, Event("rejected", view[d], None, None))
  /\ UNCHANGED <<cur, gens>>

\* Step 3, without a compare-and-set, ...
Start(d) ==
  /\ pc[d] = "loaded" /\ ViewStatus(d) = "pending"
  /\ Transition(d, cur[d], None, "in_progress", FALSE, "started")

\* ... and skipped if the sub-goal was in progress when it was loaded.
Resume(d) ==
  /\ pc[d] = "loaded" /\ ViewStatus(d) = "in_progress"
  /\ pc' = [pc EXCEPT ![d] = "running"]
  /\ view' = [view EXCEPT ![d] = None]
  /\ UNCHANGED <<files, cur, ev>>

\* Step 5: satisfied, max_iterations_reached or failed, interrupted.
Finish(d) ==
  /\ pc[d] = "running"
  /\ \/ Transition(d, cur[d], "in_progress", "complete", FALSE, "dispatched")
     \/ Transition(d, cur[d], "in_progress", "blocked", TRUE, "dispatched")
     \/ Transition(d, cur[d], "in_progress", "in_progress", FALSE, "dispatched")

OnDisk(s, st) == md # None /\ md.status[s] = st

\* apply_transition raises: no goal.md, or GoalConcurrentModification.
Refused(d) ==
  /\ lock = None
  /\ \/ pc[d] = "loaded" /\ ViewStatus(d) = "pending" /\ md = None
     \/ pc[d] = "loaded" /\ ViewStatus(d) = "blocked" /\ ~OnDisk(cur[d], "blocked")
     \/ pc[d] = "running" /\ ~OnDisk(cur[d], "in_progress")
  /\ Leave(d)
  /\ UNCHANGED files
-----------------------------------------------------------------------------
\* GoalManager.load; the command line loads anew for every command.
OpLoad(o) ==
  /\ pc[o] = "idle" /\ md # None
  /\ pc' = [pc EXCEPT ![o] = "loaded"]
  /\ view' = [view EXCEPT ![o] = md]
  /\ UNCHANGED <<files, cur, ev>>

\* mark_in_progress, mark_complete: what becomes of g in memory.
Marked(g) ==
  {[g EXCEPT !.status[s] = "in_progress", !.blocker[s] = None] :
     s \in {t \in Subs : g.status[t] \in {"pending", "blocked"}}}
  \union
  {[g EXCEPT !.status[s] = "complete"] :
     s \in {t \in Subs : g.status[t] \in {"pending", "in_progress", "complete"}}}

\* Bug variant of Save: save_goal as it was before #655, without the lock.
Save_Unlocked(o) ==
  /\ pc[o] = "loaded"
  /\ \E g \in Marked(view[o]) : md' = g
  /\ Leave(o)
  /\ UNCHANGED <<history, archive, gens, lock>>

\* save_goal: the whole file, as the manager has it in memory.
Save(o) ==
  /\ pc[o] = "loaded" /\ lock = None
  /\ \E g \in Marked(view[o]) : md' = g
  /\ Leave(o)
  /\ UNCHANGED <<history, archive, gens, lock>>

\* GoalManager.archive, abandon: the check without the lock.
OpArchive(o) ==
  /\ pc[o] = "idle" /\ md # None
  /\ pc' = [pc EXCEPT ![o] = "archive"]
  /\ UNCHANGED <<files, cur, view, ev>>

\* Bug variant of Archive: copies without the lock.
Archive_Unlocked(o) ==
  /\ pc[o] = "archive" /\ lock = None /\ md # None
  /\ archive' = md
  /\ pc' = [pc EXCEPT ![o] = "unlink"]
  /\ UNCHANGED <<md, history, gens, lock, cur, view, ev>>

\* archive_goal: the copy first, under a name that is free, ...
Archive(o) ==
  /\ pc[o] = "archive" /\ lock = None /\ md # None
  /\ archive' = md
  /\ lock' = o
  /\ pc' = [pc EXCEPT ![o] = "unlink"]
  /\ UNCHANGED <<md, history, gens, cur, view, ev>>

\* ... then the unlink of goal.md.
Unlink(o) ==
  /\ pc[o] = "unlink"
  /\ md' = None /\ lock' = None
  /\ Leave(o)
  /\ UNCHANGED <<history, archive, gens>>

\* No goal.md any more: the newest archive is returned.
ArchiveGone(o) ==
  /\ pc[o] = "archive" /\ lock = None /\ md = None
  /\ Leave(o)
  /\ UNCHANGED files
-----------------------------------------------------------------------------
\* Bug variant of Crash: a lock file that outlives its process.
Crash_KeepsLock(p) ==
  /\ pc[p] # "idle"
  /\ Leave(p)
  /\ UNCHANGED files

\* The process dies, or a write raises; the flock goes with it.
Crash(p) ==
  /\ pc[p] # "idle"
  /\ lock' = IF lock = p THEN None ELSE lock
  /\ Leave(p)
  /\ UNCHANGED <<md, history, archive, gens>>

Dispatch(d) ==
  \/ \E s \in Subs : Load(d, s)
  \/ Rerun(d) \/ Reject(d) \/ Start(d) \/ Resume(d) \/ Finish(d) \/ Refused(d)

Operate(o) ==
  OpLoad(o) \/ Save(o) \/ OpArchive(o) \/ Archive(o) \/ Unlink(o) \/ ArchiveGone(o)

Next ==
  \/ \E d \in Dispatchers : Dispatch(d)
  \/ \E o \in Operators : Operate(o)
  \/ \E c \in Creators : Create(c) \/ Heal(c)
  \/ \E p \in Processes : AppendLine(p) \/ Crash(p)

Spec == Init /\ [][Next]_vars

\* A process that has the lock goes on, or dies.
FairSpec ==
  /\ Spec
  /\ \A p \in Processes : WF_vars(AppendLine(p))
  /\ \A o \in Operators : WF_vars(Unlink(o))
-----------------------------------------------------------------------------
\* spec/41 MUST 6: a line about a goal or a sub-goal is appended while goal.md
\* says the same: no transition, save or archive comes between write and line.
AuditMatchesGoal ==
  [][history' # history =>
       LET e == ev[lock]
       IN  e.event # "rejected" =>
             /\ md # None /\ md.gen = e.gen
             /\ e.sub # None => md.status[e.sub] = e.status]_vars

\* spec/41 MUST 11: create_goal, its crashes and retries leave at most one
\* goal_created line per goal, and nothing about that goal before it.
CreatedFirst ==
  \A i, j \in 1..Len(history) :
    i < j /\ history[i].gen = history[j].gen => ~history[j].created

\* spec/41 MUST 7: goal.md goes only when the archive has it as it is, with
\* nothing written to it since the copy.
ArchiveKeeps == [][md # None /\ md' = None => archive = md]_vars

\* Whoever holds the lock releases it, dead or alive.
LockFreed == \A p \in Processes : lock = p ~> lock # p

\* spec/41, goal-outcome composition: only a pending or in_progress sub-goal
\* is dispatched, so no dispatch takes back a completed one.
CompletedStays ==
  [][\A s \in Subs :
       md # None /\ md' # None /\ md.status[s] = "complete"
         => md'.gen # md.gen \/ md'.status[s] = "complete"]_vars
=============================================================================
