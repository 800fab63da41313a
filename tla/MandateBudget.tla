---------------------------- MODULE MandateBudget ----------------------------
(***************************************************************************)
(* Budget reservations of a mandate (atomic_agents/judge/                  *)
(* mandate_reservations.py, steps 7 and 8 of judge/mandate_check.py, the   *)
(* tool loop of agent.py and the boot recovery of mandate/filesystem.py).  *)
(*                                                                         *)
(* Processes are instances of one agent: they share its log, take turns    *)
(* under its call lock, and each recovers orphan reservations when it is   *)
(* constructed, which the call lock does not cover.  A call is a loop of   *)
(* turns; a turn judges its tool calls one by one, reserving budget for    *)
(* each one it allows, and then runs them.  The TTL watcher of a           *)
(* reservation is a thread of its own.                                     *)
(*                                                                         *)
(* Money is counted in units: every projection is one unit and exact.  A   *)
(* turn costs one unit of tokens, an external action one unit of money.    *)
(***************************************************************************)
EXTENDS Integers, FiniteSets

CONSTANTS
  Processes,     \* instances of the agent
  Proposals,     \* proposals that cite the mandate, each made once
  Kind,          \* cost_kind of the reservations: "token" or "external"
  Cap,           \* cumulative_token_usd or cumulative_external_usd
  Ttl,           \* reservation_ttl_s: when the watcher expires a reservation
  Window,        \* ttl_s of compute_outstanding: how long one is counted
  PromptJudge,   \* does judging one turn take less than Ttl and Window?
  Failures,      \* what may go wrong: "crash", "tool", "append", "raise"
  MaxTime,       \* bound: then the clock only waits for watchers
  MaxFaults,     \* bound on the failures
  Scopes,        \* mandate scopes: "agent", and "project" in a cascade
  Null           \* no process, no proposal

ASSUME BudgetAssumption ==
  /\ Kind \in {"token", "external"} /\ PromptJudge \in BOOLEAN
  /\ Cap \in Nat /\ Ttl \in Nat \ {0} /\ Window \in Nat \ {0}
  /\ MaxTime \in Nat /\ MaxFaults \in Nat
ASSUME ScopeAssumption == Scopes \in {{"agent"}, {"agent", "project"}}
ASSUME NullAssumption == Null \notin Processes /\ Null \notin Proposals

Own        == {"committed", "rolled_back", "expired"}
Resolution == Own \union {"recovered"}        \* _RESOLUTION_EVENTS
Events     == {"reservation"} \union Resolution

VARIABLES
  now,        \* time, in units of the TTL clock
  faults,     \* failures so far
  log,        \* <<proposal, event>> -> how often the log holds it
  tagged,     \* proposals with a cost event that carries their proposal_id
  recorded,   \* prior spend: what _sum_prior_..._cost reads from the log
  ts,         \* proposal -> when its reservation was made
  fresh,      \* proposals not made yet
  lock,       \* holder of the agent's call lock
  recLock,    \* scope -> holder of the lock mandate-recovery:<scope>
  scope,      \* the scope a booting process recovers
  pc,         \* where each process is
  todo,       \* orphans to recover, tool calls to judge or to run
  cur,        \* the proposal the process is busy with
  admitted,   \* proposals allowed in the current turn
  rids,       \* those whose create() returned a reservation id
  pending,    \* _pending: reservations that this process may still resolve
  popped,     \* reservations the TTL watcher popped and has not logged yet
  outcome,    \* the event _resolve was called for
  bill,       \* cost of the call so far, not in the log yet
  cite        \* last entry of _successful_mandate_cites_this_call

clock == <<now, faults>>
money == <<tagged, recorded>>
call  == <<todo, cur, admitted, rids, outcome, bill, cite>>
table == <<pending, popped>>
recov == <<recLock, scope>>
vars  == <<clock, log, money, ts, fresh, lock, recov, pc, call, table>>

PC == {"boot", "scan", "emit", "idle", "turn", "judge", "create", "append",
       "run", "resolve", "write"}

\* The type invariant; a process between two steps on a proposal has one.
LogOK ==
  /\ now \in Nat /\ faults \in 0..MaxFaults
  /\ log \in [Proposals \X Events -> Nat]
  /\ tagged \subseteq Proposals /\ recorded \in Nat
  /\ ts \in [Proposals -> Nat] /\ fresh \subseteq Proposals
  /\ lock \in Processes \union {Null}
  /\ recLock \in [Scopes -> Processes \union {Null}]
ProcessOK ==
  /\ pc \in [Processes -> PC] /\ scope \in [Processes -> Scopes]
  /\ todo \in [Processes -> SUBSET Proposals]
  /\ cur \in [Processes -> Proposals \union {Null}]
  /\ admitted \in [Processes -> SUBSET Proposals]
  /\ rids \in [Processes -> SUBSET Proposals]
  /\ pending \in [Processes -> SUBSET Proposals]
  /\ popped \in [Processes -> SUBSET Proposals]
  /\ outcome \in [Processes -> {"none", "committed", "rolled_back"}]
  /\ bill \in [Processes -> Nat]
  /\ cite \in [Processes -> Proposals \union {Null}]
  /\ \A a \in Processes :
       /\ pc[a] \in {"create", "append", "resolve", "write"} =>
            cur[a] \in Proposals
       /\ pc[a] \in {"resolve", "write"} => outcome[a] # "none"
TypeOK == LogOK /\ ProcessOK

Init ==
  /\ now = 0 /\ faults = 0
  /\ log = [e \in Proposals \X Events |-> 0]
  /\ tagged = {} /\ recorded = 0
  /\ ts = [p \in Proposals |-> 0] /\ fresh = Proposals
  /\ lock = Null /\ recLock = [s \in Scopes |-> Null]
  /\ scope = [a \in Processes |-> "agent"]
  /\ pc = [a \in Processes |-> "boot"]
  /\ todo = [a \in Processes |-> {}]
  /\ cur = [a \in Processes |-> Null]
  /\ admitted = [a \in Processes |-> {}]
  /\ rids = [a \in Processes |-> {}]
  /\ pending = [a \in Processes |-> {}]
  /\ popped = [a \in Processes |-> {}]
  /\ outcome = [a \in Processes |-> "none"]
  /\ bill = [a \in Processes |-> 0]
  /\ cite = [a \in Processes |-> Null]
-----------------------------------------------------------------------------
Goto(a, p)   == pc' = [pc EXCEPT ![a] = p]
Append(p, e) == log' = [log EXCEPT ![<<p, e>>] = @ + 1]
Fault(kind)  == kind \in Failures /\ faults < MaxFaults /\ faults' = faults + 1

Resolved(p) == \/ \E e \in Resolution : log[<<p, e>>] > 0
               \/ p \in tagged
\* compute_outstanding: clauses 1 to 3, and the age of the event.  Steps 7
\* and 8 pass it no ttl_s, so a reservation counts for the default of 60 s
\* whatever the TTL of its watcher.
Outstanding ==
  {p \in Proposals : /\ log[<<p, "reservation">>] > 0 /\ ~Resolved(p)
                     /\ now - ts[p] < Window}
\* Bug variant of Orphans: the age gate of compute_outstanding applies.
Orphans_Aged == Outstanding

\* _scan_orphan_reservations: the same without the age.
Orphans == {p \in Proposals : log[<<p, "reservation">>] > 0 /\ ~Resolved(p)}
-----------------------------------------------------------------------------
\* The pass over one scope is over: the project scope comes after the agent's.
NextPass(a) ==
  IF scope[a] = "agent" /\ "project" \in Scopes
  THEN scope' = [scope EXCEPT ![a] = "project"] /\ Goto(a, "boot")
  ELSE scope' = [scope EXCEPT ![a] = "agent"] /\ Goto(a, "idle")

\* Bug variant of Boot: no recovery lock.
Boot_Unlocked(a) ==
  /\ pc[a] = "boot"
  /\ Goto(a, "scan")
  /\ UNCHANGED <<clock, log, money, ts, fresh, lock, recov, call, table>>

\* AtomicAgent.__init__: acquire the scope's recovery lock, or skip the pass
\* when it stays busy.
Boot(a) ==
  /\ pc[a] = "boot"
  /\ IF recLock[scope[a]] = Null
     THEN recLock' = [recLock EXCEPT ![scope[a]] = a] /\ Goto(a, "scan")
          /\ UNCHANGED scope
     ELSE NextPass(a) /\ UNCHANGED recLock
  /\ UNCHANGED <<clock, log, money, ts, fresh, lock, call, table>>

\* _scan_orphan_reservations reads the whole log, whatever the scope.
Scan(a) ==
  /\ pc[a] = "scan"
  /\ todo' = [todo EXCEPT ![a] = Orphans]
  /\ Goto(a, "emit")
  /\ UNCHANGED <<clock, log, money, ts, fresh, lock, recov, cur, admitted,
                 rids, outcome, bill, cite, table>>

\* _emit_recovery_for_orphan; the event carries no cost_source and no cost.
Emit(a, p) ==
  /\ pc[a] = "emit"
  /\ p \in todo[a]
  /\ Append(p, "recovered")
  /\ todo' = [todo EXCEPT ![a] = @ \ {p}]
  /\ UNCHANGED <<clock, money, ts, fresh, lock, recov, pc, cur, admitted,
                 rids, outcome, bill, cite, table>>

\* An append that raises ends the pass: its caller logs and goes on.  Of an
\* external orphan it may be the second event, _external_unverified.
EmitFails(a, p) ==
  /\ pc[a] = "emit"
  /\ p \in todo[a]
  /\ Fault("append")
  /\ UNCHANGED log \/ (Kind = "external" /\ Append(p, "recovered"))
  /\ todo' = [todo EXCEPT ![a] = {}]
  /\ recLock' = [recLock EXCEPT ![scope[a]] = Null]
  /\ NextPass(a)
  /\ UNCHANGED <<now, money, ts, fresh, lock, cur, admitted, rids, outcome,
                 bill, cite, table>>

Booted(a) ==
  /\ pc[a] = "emit"
  /\ todo[a] = {}
  /\ recLock' = [recLock EXCEPT ![scope[a]] = Null]
  /\ NextPass(a)
  /\ UNCHANGED <<clock, log, money, ts, fresh, lock, call, table>>
-----------------------------------------------------------------------------
StartCall(a) ==
  /\ pc[a] = "idle" /\ lock = Null
  /\ lock' = a
  /\ Goto(a, "turn")
  /\ UNCHANGED <<clock, log, money, ts, fresh, recov, call, table>>

\* One LLM round trip: it costs tokens and proposes the actions of S.
StartTurn(a, S) ==
  /\ pc[a] = "turn"
  /\ S # {} /\ S \subseteq fresh
  /\ fresh' = fresh \ S
  /\ todo' = [todo EXCEPT ![a] = S]
  /\ admitted' = [admitted EXCEPT ![a] = {}]
  /\ rids' = [rids EXCEPT ![a] = {}]
  /\ bill' = [bill EXCEPT ![a] = @ + 1]
  /\ Goto(a, "judge")
  /\ UNCHANGED <<clock, log, money, ts, lock, recov, cur, outcome, cite, table>>

\* Bug variant of Admits: outstanding reservations are not counted.
Admits_Unreserved == recorded + 1 <= Cap

\* _step7_token_budget, _step8_external_budget: prior + projected + reserved.
Admits == recorded + 1 + Cardinality(Outstanding) <= Cap

\* Bug variant of Allow: the proposal is not handed to create().
Allow_Forgets(a, p) ==
  /\ pc[a] = "judge"
  /\ p \in todo[a]
  /\ Admits
  /\ todo' = [todo EXCEPT ![a] = @ \ {p}]
  /\ admitted' = [admitted EXCEPT ![a] = @ \union {p}]
  /\ Goto(a, "create")
  /\ UNCHANGED <<clock, log, money, ts, fresh, lock, recov, cur, rids,
                 outcome, bill, cite, table>>

Allow(a, p) ==
  /\ pc[a] = "judge"
  /\ p \in todo[a]
  /\ Admits
  /\ todo' = [todo EXCEPT ![a] = @ \ {p}]
  /\ admitted' = [admitted EXCEPT ![a] = @ \union {p}]
  /\ cur' = [cur EXCEPT ![a] = p]
  /\ Goto(a, "create")
  /\ UNCHANGED <<clock, log, money, ts, fresh, lock, recov, rids, outcome,
                 bill, cite, table>>

\* The cap, a rule of the mandate, another judge or an unreadable log blocks.
Block(a, p) ==
  /\ pc[a] = "judge"
  /\ p \in todo[a]
  /\ todo' = [todo EXCEPT ![a] = @ \ {p}]
  /\ UNCHANGED <<clock, log, money, ts, fresh, lock, recov, pc, cur, admitted,
                 rids, outcome, bill, cite, table>>

\* create(): the entry and its TTL watcher, under the manager's lock.
Create(a) ==
  /\ pc[a] = "create"
  /\ pending' = [pending EXCEPT ![a] = @ \union {cur[a]}]
  /\ ts' = [ts EXCEPT ![cur[a]] = now]
  /\ Goto(a, "append")
  /\ UNCHANGED <<clock, log, money, fresh, lock, recov, call, popped>>

\* create(): then the event; without it the action runs unreserved.
AppendReservation(a) ==
  /\ pc[a] = "append"
  /\ \/ /\ Append(cur[a], "reservation")
        /\ rids' = [rids EXCEPT ![a] = @ \union {cur[a]}]
        /\ UNCHANGED faults
     \/ /\ Fault("append")
        /\ UNCHANGED <<log, rids>>
  /\ Goto(a, "judge")
  /\ UNCHANGED <<now, money, ts, fresh, lock, recov, todo, cur, admitted,
                 outcome, bill, cite, table>>

\* Every tool call is judged: run those that were admitted.
Judged(a) ==
  /\ pc[a] = "judge"
  /\ todo[a] = {}
  /\ todo' = [todo EXCEPT ![a] = admitted[a]]
  /\ Goto(a, "run")
  /\ UNCHANGED <<clock, log, money, ts, fresh, lock, recov, cur, admitted,
                 rids, outcome, bill, cite, table>>

\* tool_registry.execute; an action without a reservation id settles nothing.
Execute(a, p) ==
  /\ pc[a] = "run"
  /\ p \in todo[a]
  /\ todo' = [todo EXCEPT ![a] = @ \ {p}]
  /\ \/ /\ outcome' = [outcome EXCEPT ![a] = "committed"]
        /\ UNCHANGED faults
     \/ /\ Fault("tool")
        /\ outcome' = [outcome EXCEPT ![a] = "rolled_back"]
  /\ cur' = [cur EXCEPT ![a] = p]
  /\ IF p \in rids[a] THEN Goto(a, "resolve") ELSE UNCHANGED pc
  /\ UNCHANGED <<now, log, money, ts, fresh, lock, recov, admitted, rids, bill,
                 cite, table>>

\* policy.md denies the tool: the call goes on to the next action, and nobody
\* but the watcher settles the reservation.
Deny(a, p) ==
  /\ pc[a] = "run"
  /\ p \in todo[a]
  /\ todo' = [todo EXCEPT ![a] = @ \ {p}]
  /\ UNCHANGED <<clock, log, money, ts, fresh, lock, recov, pc, cur, admitted,
                 rids, outcome, bill, cite, table>>

\* commit() and rollback() return normally when the watcher was first.
Cited(a) == cite' = IF outcome[a] = "committed"
                    THEN [cite EXCEPT ![a] = cur[a]] ELSE cite

\* Bug variant of Resolve: the entry stays until its event is written.
Resolve_KeepsEntry(a) ==
  /\ pc[a] = "resolve"
  /\ Goto(a, "write")
  /\ UNCHANGED <<clock, log, money, ts, fresh, lock, recov, call, table>>

\* _resolve: pop the entry and cancel its watcher, under the manager's lock.
Resolve(a) ==
  /\ pc[a] = "resolve"
  /\ IF cur[a] \in pending[a]
     THEN /\ pending' = [pending EXCEPT ![a] = @ \ {cur[a]}]
          /\ Goto(a, "write")
          /\ UNCHANGED cite
     ELSE /\ Cited(a)
          /\ Goto(a, "run")
          /\ UNCHANGED pending
  /\ UNCHANGED <<clock, log, money, ts, fresh, lock, recov, todo, cur,
                 admitted, rids, outcome, bill, popped>>

\* ... and append the event.
WriteResolution(a) ==
  /\ pc[a] = "write"
  /\ \/ /\ Append(cur[a], outcome[a])
        /\ Cited(a)
        /\ UNCHANGED faults
     \/ /\ Fault("append")
        /\ UNCHANGED <<log, cite>>
  /\ Goto(a, "run")
  /\ UNCHANGED <<now, money, ts, fresh, lock, recov, todo, cur, admitted,
                 rids, outcome, bill, table>>

\* The tool results go back to the LLM for another turn.
EndTurn(a) ==
  /\ pc[a] = "run"
  /\ todo[a] = {}
  /\ Goto(a, "turn")
  /\ UNCHANGED <<clock, log, money, ts, fresh, lock, recov, call, table>>

\* The agent_call record: the only cost event of the call.  It bears the
\* mandate and the last cite; external spend is written by nobody.
EndCall(a) ==
  /\ pc[a] = "turn"
  /\ lock' = Null
  /\ IF cite[a] = Null THEN UNCHANGED <<tagged, recorded>>
     ELSE /\ tagged' = tagged \union {cite[a]}
          /\ recorded' = IF Kind = "token" THEN recorded + bill[a] ELSE recorded
  /\ bill' = [bill EXCEPT ![a] = 0]
  /\ cite' = [cite EXCEPT ![a] = Null]
  /\ Goto(a, "idle")
  /\ UNCHANGED <<clock, log, ts, fresh, recov, todo, cur, admitted,
                 rids, outcome, table>>

\* The call raises between two steps: the lock is released, no cost event
\* bears the mandate, and the reservations are left to their watchers.
Raise(a) ==
  /\ pc[a] \in {"turn", "judge", "run"}
  /\ Fault("raise")
  /\ lock' = Null
  /\ todo' = [todo EXCEPT ![a] = {}]
  /\ bill' = [bill EXCEPT ![a] = 0]
  /\ cite' = [cite EXCEPT ![a] = Null]
  /\ Goto(a, "idle")
  /\ UNCHANGED <<now, log, money, ts, fresh, recov, cur, admitted, rids,
                 outcome, table>>
-----------------------------------------------------------------------------
\* _expire: the watcher pops the entry, unless it was resolved ...
Expire(a, p) ==
  /\ p \in pending[a]
  /\ now >= ts[p] + Ttl
  /\ pending' = [pending EXCEPT ![a] = @ \ {p}]
  /\ popped' = [popped EXCEPT ![a] = @ \union {p}]
  /\ UNCHANGED <<clock, log, money, ts, fresh, lock, recov, pc, call>>

\* ... and appends the event.
WriteExpired(a, p) ==
  /\ p \in popped[a]
  /\ popped' = [popped EXCEPT ![a] = @ \ {p}]
  /\ \/ Append(p, "expired") /\ UNCHANGED faults
     \/ Fault("append") /\ UNCHANGED log
  /\ UNCHANGED <<now, money, ts, fresh, lock, recov, pc, call, pending>>

\* The process dies, or exits: the table, its watchers and the locks go.
Stop(a) ==
  /\ pc[a] # "boot" \/ scope[a] # "agent"
  /\ Fault("crash")
  /\ Goto(a, "boot")
  /\ lock' = IF lock = a THEN Null ELSE lock
  /\ recLock' = [s \in Scopes |-> IF recLock[s] = a THEN Null ELSE recLock[s]]
  /\ scope' = [scope EXCEPT ![a] = "agent"]
  /\ todo' = [todo EXCEPT ![a] = {}]
  /\ cur' = [cur EXCEPT ![a] = Null]
  /\ admitted' = [admitted EXCEPT ![a] = {}]
  /\ rids' = [rids EXCEPT ![a] = {}]
  /\ pending' = [pending EXCEPT ![a] = {}]
  /\ popped' = [popped EXCEPT ![a] = {}]
  /\ outcome' = [outcome EXCEPT ![a] = "none"]
  /\ bill' = [bill EXCEPT ![a] = 0]
  /\ cite' = [cite EXCEPT ![a] = Null]
  /\ UNCHANGED <<now, log, money, ts, fresh>>

\* With PromptJudge a turn is judged before its first reservation expires or
\* stops being counted.
Tick ==
  /\ now < MaxTime \/ \E a \in Processes : \E p \in pending[a] :
                         now < ts[p] + Ttl
  /\ PromptJudge => \A a \in Processes : \A p \in admitted[a] :
       (pc[a] \in {"judge", "append"} \/ (pc[a] = "create" /\ p # cur[a]))
         => now + 1 < ts[p] + Ttl /\ now + 1 < ts[p] + Window
  /\ now' = now + 1
  /\ UNCHANGED <<faults, log, money, ts, fresh, lock, recov, pc, call, table>>
-----------------------------------------------------------------------------
Recover(a) ==
  \/ Boot(a) \/ Scan(a) \/ Booted(a)
  \/ \E p \in Proposals : Emit(a, p) \/ EmitFails(a, p)

Call(a) ==
  \/ \E S \in SUBSET Proposals : StartTurn(a, S)
  \/ \E p \in Proposals : Allow(a, p) \/ Block(a, p) \/ Execute(a, p)
                           \/ Deny(a, p)
  \/ Create(a) \/ AppendReservation(a) \/ Judged(a) \/ Resolve(a)
  \/ WriteResolution(a) \/ EndTurn(a) \/ EndCall(a)

Watcher(a) == \E p \in Proposals : Expire(a, p) \/ WriteExpired(a, p)

Next ==
  \/ \E a \in Processes : Recover(a) \/ StartCall(a) \/ Call(a) \/ Watcher(a)
                          \/ Stop(a) \/ Raise(a)
  \/ Tick

Spec == Init /\ [][Next]_vars

\* A process that stopped is started again, its threads run on, time passes.
Fairness ==
  /\ \A a \in Processes : WF_vars(Recover(a)) /\ WF_vars(Call(a))
                          /\ WF_vars(Watcher(a))
  /\ WF_vars(Tick)

FairSpec == Spec /\ Fairness
-----------------------------------------------------------------------------
\* "The final log has commit XOR expire, never both" (_expire): a reservation
\* is resolved at most once by the process that made it, whatever the order
\* in which its call and its TTL watcher get there.
ResolvedOnce ==
  \A p \in Proposals :
    log[<<p, "committed">>] + log[<<p, "rolled_back">>] + log[<<p, "expired">>]
      <= 1

\* spec/29 Risk B: replicas that boot at the same time over-report an orphan
\* once, not once each.
RecoveredOnce == \A p \in Proposals : log[<<p, "recovered">>] <= 1

\* spec/29, stale-budget race: the actions admitted in one turn fit together
\* under what the cap leaves, although none of them has been paid yet.
TurnFits ==
  \A a \in Processes :
    admitted[a] # {} /\ pc[a] \in {"judge", "create", "append", "run"} =>
      recorded + Cardinality(admitted[a]) <= Cap

\* A reservation does not stay open in the log: it is committed, rolled back,
\* expired, recovered or covered by the cost event of its call.
EventuallyResolved ==
  \A p \in Proposals : log[<<p, "reservation">>] > 0 ~> Resolved(p)
=============================================================================
