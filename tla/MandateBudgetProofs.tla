------------------------- MODULE MandateBudgetProofs -------------------------
(***************************************************************************)
(* Theorems about MandateBudget, for any number of processes and           *)
(* proposals, any cap, TTL and failures.                                   *)
(*                                                                         *)
(* Why ResolvedOnce holds: from the turn that makes it to the event that   *)
(* resolves it a proposal is in exactly one place of one process - to be   *)
(* created, in the table, popped by the watcher, or popped by the call -   *)
(* and only leaving the last two places writes an event.                   *)
(* Why RecoveredOnce holds with one scope: only the holder of the recovery *)
(* lock emits, and while it holds the lock nobody else can resolve what it *)
(* scanned by a recovery.                                                  *)
(* Why TurnFits holds with one process: what a turn admitted is counted as *)
(* outstanding when its next action is judged, because it is logged, not   *)
(* settled while the turn lasts, and not recovered.  ReservedFits is what  *)
(* remains when other processes recover and appends fail.                  *)
(***************************************************************************)
EXTENDS MandateBudget, FiniteSetTheorems, TLAPS

Turning == {"judge", "create", "append"}

\* Where process a has proposal p.
Early(a, p)   == \/ pc[a] \in Turning /\ p \in todo[a]
                 \/ pc[a] = "create" /\ p = cur[a]
Writing(a, p) == pc[a] = "write" /\ p = cur[a]

\* How often each proposal was settled by its process, and recovered.
Settled    == [p \in Proposals |-> log[<<p, "committed">>]
                 + log[<<p, "rolled_back">>] + log[<<p, "expired">>]]
Recoveries == [p \in Proposals |-> log[<<p, "recovered">>]]

\* A proposal that is on its way is in one place and not settled yet.
EarlyInv ==
  \A a \in Processes, p \in Proposals : Early(a, p) =>
    /\ p \notin fresh /\ Settled[p] = 0
    /\ \A b \in Processes :
         /\ Early(b, p) => a = b
         /\ p \notin pending[b] /\ p \notin popped[b] /\ ~Writing(b, p)
TableInv ==
  \A a \in Processes, p \in Proposals : p \in pending[a] =>
    /\ p \notin fresh /\ Settled[p] = 0
    /\ \A b \in Processes : /\ p \in pending[b] => a = b
                            /\ p \notin popped[b] /\ ~Writing(b, p)
PoppedInv ==
  \A a \in Processes, p \in Proposals : p \in popped[a] =>
    /\ p \notin fresh /\ Settled[p] = 0
    /\ \A b \in Processes : (p \in popped[b] => a = b) /\ ~Writing(b, p)
WritingInv ==
  \A a \in Processes, p \in Proposals : Writing(a, p) =>
    /\ p \notin fresh /\ Settled[p] = 0
    /\ \A b \in Processes : Writing(b, p) => a = b
SettledInv ==
  /\ \A p \in Proposals : Settled[p] <= 1 /\ (p \in fresh => Settled[p] = 0)
  /\ \A a \in Processes : pc[a] = "create" => cur[a] \notin todo[a]

PlaceInv == EarlyInv /\ TableInv /\ PoppedInv /\ WritingInv /\ SettledInv

\* The recovery lock serializes scan and emission.
RecoveryInv ==
  /\ \A a \in Processes : pc[a] \in {"scan", "emit"} => recLock["agent"] = a
  /\ \A a \in Processes : pc[a] = "emit" =>
       \A p \in todo[a] : Recoveries[p] = 0
  /\ \A p \in Proposals : Recoveries[p] <= 1

-----------------------------------------------------------------------------
\* What an appended event changes, and what nothing else does.
LEMMA CountsType == TypeOK => /\ Settled \in [Proposals -> Nat]
                              /\ Recoveries \in [Proposals -> Nat]
  BY DEF TypeOK, LogOK, Settled, Recoveries, Events, Resolution, Own

LEMMA CountsFrame ==
  ASSUME UNCHANGED log
  PROVE  Settled' = Settled /\ Recoveries' = Recoveries
  BY DEF Settled, Recoveries

LEMMA AppendLog ==
  ASSUME TypeOK, NEW p \in Proposals, NEW e \in Events, Append(p, e)
  PROVE  /\ log' \in [Proposals \X Events -> Nat]
         /\ log'[<<p, e>>] = log[<<p, e>>] + 1
         /\ \A q \in Proposals, f \in Events :
              <<q, f>> # <<p, e>> => log'[<<q, f>>] = log[<<q, f>>]
<1>1. <<p, e>> \in Proposals \X Events
  OBVIOUS
<1>2. \A x \in Proposals \X Events :
         log'[x] = IF x = <<p, e>> THEN log[x] + 1 ELSE log[x]
  BY <1>1 DEF TypeOK, LogOK, Append
<1>3. log' \in [Proposals \X Events -> Nat]
  BY <1>1 DEF TypeOK, LogOK, Append
<1> QED
  BY <1>1, <1>2, <1>3

LEMMA AppendCounts ==
  ASSUME TypeOK, NEW p \in Proposals, NEW e \in Events, Append(p, e)
  PROVE  /\ Settled' = IF e \in Own THEN [Settled EXCEPT ![p] = @ + 1]
                      ELSE Settled
         /\ Recoveries' = IF e = "recovered"
                         THEN [Recoveries EXCEPT ![p] = @ + 1] ELSE Recoveries
<1>1. \A q \in Proposals, f \in Events :
         /\ log[<<q, f>>] \in Nat
         /\ log'[<<q, f>>] = IF q = p /\ f = e THEN log[<<q, f>>] + 1
                            ELSE log[<<q, f>>]
  BY AppendLog DEF TypeOK, LogOK
<1>2. ASSUME e \in Own PROVE Settled' = [Settled EXCEPT ![p] = @ + 1]
  <2>1. \A q \in Proposals \ {p} : Settled'[q] = Settled[q]
    BY <1>1 DEF Settled, Events, Resolution, Own
  <2>2. Settled'[p] = Settled[p] + 1
    <3>1. /\ Settled[p] = log[<<p, "committed">>] + log[<<p, "rolled_back">>]
                           + log[<<p, "expired">>]
          /\ Settled'[p] = log'[<<p, "committed">>] + log'[<<p, "rolled_back">>]
                            + log'[<<p, "expired">>]
      BY DEF Settled
    <3>2. \A f \in Own : /\ log[<<p, f>>] \in Nat
                         /\ log'[<<p, f>>] = IF f = e THEN log[<<p, f>>] + 1
                                            ELSE log[<<p, f>>]
      BY <1>1 DEF Events, Resolution
    <3> QED BY <1>2, <3>1, <3>2 DEF Own
  <2> QED
    BY <2>1, <2>2 DEF Settled
<1>3. CASE e = "recovered"
  BY <1>1, <1>3 DEF Settled, Recoveries, Events, Resolution, Own
<1>4. CASE e = "reservation"
  BY <1>1, <1>4 DEF Settled, Recoveries, Events, Resolution, Own
<1>5. ASSUME e \in Own PROVE Recoveries' = Recoveries
  BY <1>1, <1>5 DEF Recoveries, Events, Resolution, Own
<1> QED
  BY <1>2, <1>3, <1>4, <1>5 DEF Events, Resolution, Own
-----------------------------------------------------------------------------
\* The initial states have the types and the invariants.
LEMMA InvInit == Init => TypeOK /\ PlaceInv /\ RecoveryInv
<1> SUFFICES ASSUME Init PROVE TypeOK /\ PlaceInv /\ RecoveryInv
  OBVIOUS
<1>1. LogOK
  BY BudgetAssumption, ScopeAssumption DEF Init, LogOK
<1>2. ProcessOK
  BY ScopeAssumption DEF Init, ProcessOK, PC
<1>3. /\ Settled = [p \in Proposals |-> 0]
      /\ Recoveries = [p \in Proposals |-> 0]
  BY DEF Init, Settled, Recoveries, Events, Resolution, Own
<1>4. PlaceInv
  BY <1>3 DEF Init, PlaceInv, EarlyInv, TableInv, PoppedInv, WritingInv, SettledInv,
     Early, Writing, Turning
<1>5. RecoveryInv
  BY <1>3 DEF Init, RecoveryInv
<1> QED
  BY <1>1, <1>2, <1>4, <1>5 DEF TypeOK

\* Every step of a process, of a watcher and of the clock keeps the types.
LEMMA TypeStep ==
  ASSUME TypeOK, [Next]_vars
  PROVE  TypeOK'
<1> USE DEF clock, money, recov, call, table, Goto, Fault
<1> now \in Nat /\ faults \in Nat /\ MaxTime \in Nat /\ MaxFaults \in Nat
  BY BudgetAssumption DEF TypeOK, LogOK
<1>1. ASSUME NEW a \in Processes, Recover(a) PROVE TypeOK'
  <2>1. CASE Boot(a)
    BY <2>1, ScopeAssumption DEF Boot, NextPass, TypeOK, LogOK, ProcessOK, PC
  <2>2. CASE Scan(a)
    BY <2>2 DEF Scan, Orphans, TypeOK, LogOK, ProcessOK, PC
  <2>3. CASE \E p \in Proposals : Emit(a, p)
    BY <2>3, AppendLog DEF Emit, TypeOK, LogOK, ProcessOK, PC, Events, Resolution
  <2>4. CASE Booted(a)
    BY <2>4, ScopeAssumption DEF Booted, NextPass, TypeOK, LogOK, ProcessOK, PC
  <2>5. CASE \E p \in Proposals : EmitFails(a, p)
    <3>1. log' \in [Proposals \X Events -> Nat]
      <4>1. "recovered" \in Events
        BY DEF Events, Resolution
      <4> QED BY <2>5, <4>1, AppendLog DEF EmitFails, TypeOK, LogOK
    <3>2. LogOK'
      <4>1. /\ recLock' = [recLock EXCEPT ![scope[a]] = Null]
            /\ faults < MaxFaults /\ faults' = faults + 1
            /\ UNCHANGED <<now, tagged, recorded, ts, fresh, lock>>
        BY <2>5 DEF EmitFails
      <4>2. recLock' \in [Scopes -> Processes \union {Null}]
        BY <4>1 DEF TypeOK, LogOK
      <4>3. faults' \in 0..MaxFaults
        BY <4>1
      <4> QED BY <3>1, <4>1, <4>2, <4>3 DEF TypeOK, LogOK
    <3>3. ProcessOK'
      BY <2>5, ScopeAssumption DEF EmitFails, NextPass, TypeOK, ProcessOK, PC
    <3> QED BY <3>2, <3>3 DEF TypeOK
  <2> QED BY <1>1, <2>1, <2>2, <2>3, <2>4, <2>5 DEF Recover
<1>2. ASSUME NEW a \in Processes, Call(a) PROVE TypeOK'
  <2>1. CASE \E S \in SUBSET Proposals : StartTurn(a, S)
    BY <2>1 DEF StartTurn, TypeOK, LogOK, ProcessOK, PC
  <2>2. CASE \E p \in Proposals : Allow(a, p)
    BY <2>2 DEF Allow, TypeOK, LogOK, ProcessOK, PC
  <2>3. CASE \E p \in Proposals : Block(a, p)
    BY <2>3 DEF Block, TypeOK, LogOK, ProcessOK, PC
  <2>4. CASE \E p \in Proposals : Execute(a, p)
    <3> PICK p \in Proposals : Execute(a, p)
      BY <2>4
    <3>1. LogOK'
      BY DEF Execute, TypeOK, LogOK
    <3>2. /\ todo' \in [Processes -> SUBSET Proposals]
          /\ cur' = [cur EXCEPT ![a] = p]
          /\ outcome' = [outcome EXCEPT ![a] = outcome'[a]]
          /\ outcome'[a] \in {"committed", "rolled_back"}
          /\ pc' = [pc EXCEPT ![a] = pc'[a]] /\ pc'[a] \in {"resolve", "run"}
      BY DEF Execute, TypeOK, ProcessOK
    <3>3. ProcessOK'
      BY <3>2 DEF Execute, TypeOK, ProcessOK, PC
    <3> QED BY <3>1, <3>3 DEF TypeOK
  <2>5. CASE Create(a)
    BY <2>5 DEF Create, TypeOK, LogOK, ProcessOK, PC
  <2>6. CASE AppendReservation(a)
    <3>1. cur[a] \in Proposals /\ "reservation" \in Events
      BY <2>6 DEF AppendReservation, TypeOK, ProcessOK, Events
    <3>2. log' \in [Proposals \X Events -> Nat]
      BY <2>6, <3>1, AppendLog DEF AppendReservation, TypeOK, LogOK
    <3>3. LogOK'
      BY <2>6, <3>2 DEF AppendReservation, TypeOK, LogOK
    <3>4. ProcessOK'
      BY <2>6, <3>1 DEF AppendReservation, TypeOK, ProcessOK, PC
    <3> QED BY <3>3, <3>4 DEF TypeOK
  <2>7. CASE Judged(a)
    BY <2>7 DEF Judged, TypeOK, LogOK, ProcessOK, PC
  <2>8. CASE Resolve(a)
    <3>1. LogOK'
      BY <2>8 DEF Resolve, TypeOK, LogOK
    <3>2. cur[a] \in Proposals /\ outcome[a] # "none"
      BY <2>8 DEF Resolve, TypeOK, ProcessOK
    <3>3. CASE cur[a] \in pending[a]
      BY <2>8, <3>1, <3>2, <3>3 DEF Resolve, TypeOK, ProcessOK, PC
    <3>4. CASE cur[a] \notin pending[a]
      BY <2>8, <3>1, <3>2, <3>4 DEF Resolve, Cited, TypeOK, ProcessOK, PC
    <3> QED BY <3>3, <3>4
  <2>9. CASE WriteResolution(a)
    <3>1. cur[a] \in Proposals /\ outcome[a] \in Events
      BY <2>9 DEF WriteResolution, TypeOK, ProcessOK, Events, Resolution, Own
    <3>2. log' \in [Proposals \X Events -> Nat]
      BY <2>9, <3>1, AppendLog DEF WriteResolution, TypeOK, LogOK
    <3>3. LogOK'
      BY <2>9, <3>2 DEF WriteResolution, TypeOK, LogOK
    <3>4. cite' \in [Processes -> Proposals \union {Null}]
      BY <2>9, <3>1 DEF WriteResolution, Cited, TypeOK, ProcessOK
    <3>5. ProcessOK'
      BY <2>9, <3>4 DEF WriteResolution, TypeOK, ProcessOK, PC
    <3> QED BY <3>3, <3>5 DEF TypeOK
  <2>10. CASE EndTurn(a)
    BY <2>10 DEF EndTurn, TypeOK, LogOK, ProcessOK, PC
  <2>11. CASE EndCall(a)
    BY <2>11 DEF EndCall, TypeOK, LogOK, ProcessOK, PC
  <2>12. CASE \E p \in Proposals : Deny(a, p)
    BY <2>12 DEF Deny, TypeOK, LogOK, ProcessOK, PC
  <2> QED BY <1>2, <2>1, <2>2, <2>3, <2>4, <2>5, <2>6, <2>7, <2>8, <2>9, <2>10,
             <2>11, <2>12 DEF Call
<1>3. ASSUME NEW a \in Processes, Watcher(a) PROVE TypeOK'
  <2>1. CASE \E p \in Proposals : Expire(a, p)
    BY <2>1 DEF Expire, TypeOK, LogOK, ProcessOK, PC
  <2>2. CASE \E p \in Proposals : WriteExpired(a, p)
    <3> PICK p \in Proposals : WriteExpired(a, p)
      BY <2>2
    <3>1. log' \in [Proposals \X Events -> Nat]
      <4>1. "expired" \in Events
        BY DEF Events, Resolution, Own
      <4> QED BY <4>1, AppendLog DEF WriteExpired, TypeOK, LogOK
    <3> QED BY <3>1 DEF WriteExpired, TypeOK, LogOK, ProcessOK
  <2> QED BY <1>3, <2>1, <2>2 DEF Watcher
<1>4. CASE \E a \in Processes : StartCall(a)
  BY <1>4 DEF StartCall, TypeOK, LogOK, ProcessOK, PC
<1>5. CASE \E a \in Processes : Stop(a)
  BY <1>5, ScopeAssumption DEF Stop, TypeOK, LogOK, ProcessOK, PC
<1>6. CASE Tick
  BY <1>6 DEF Tick, TypeOK, LogOK, ProcessOK, PC
<1>7. CASE UNCHANGED vars
  BY <1>7 DEF vars, TypeOK, LogOK, ProcessOK, PC
<1>8. CASE \E a \in Processes : Raise(a)
  BY <1>8 DEF Raise, TypeOK, LogOK, ProcessOK, PC
<1> QED
  BY <1>1, <1>2, <1>3, <1>4, <1>5, <1>6, <1>7, <1>8 DEF Next

\* Every step moves a proposal from place to place and settles it at the end.
LEMMA PlaceStep ==
  ASSUME TypeOK, PlaceInv, [Next]_vars
  PROVE  PlaceInv'
<1> USE DEF clock, money, recov, call, table, Goto
<1>1. ASSUME NEW a \in Processes, Recover(a) PROVE PlaceInv'
  <2>1. CASE Boot(a)
    BY <2>1, CountsFrame, CountsType DEF Boot, NextPass, PlaceInv, EarlyInv, TableInv,
       PoppedInv, WritingInv, SettledInv, Early, Writing, Turning, TypeOK, LogOK,
       ProcessOK
  <2>2. CASE Scan(a)
    BY <2>2, CountsFrame, CountsType DEF Scan, PlaceInv, EarlyInv, TableInv, PoppedInv,
       WritingInv, SettledInv, Early, Writing, Turning, TypeOK, LogOK, ProcessOK
  <2>3. CASE \E p \in Proposals : Emit(a, p)
    BY <2>3, AppendCounts, CountsType DEF Emit, PlaceInv, EarlyInv, TableInv,
       PoppedInv, WritingInv, SettledInv, Early, Writing, Turning, TypeOK, LogOK,
       ProcessOK, Events, Resolution, Own
  <2>4. CASE Booted(a)
    BY <2>4, CountsFrame, CountsType DEF Booted, NextPass, PlaceInv, EarlyInv,
       TableInv, PoppedInv, WritingInv, SettledInv, Early, Writing, Turning, TypeOK,
       LogOK, ProcessOK
  <2>5. CASE \E p \in Proposals : EmitFails(a, p)
    BY <2>5, AppendCounts, CountsFrame, CountsType DEF EmitFails, NextPass,
       PlaceInv, EarlyInv, TableInv, PoppedInv, WritingInv, SettledInv, Early,
       Writing, Turning, TypeOK, LogOK, ProcessOK, Events, Resolution, Own
  <2> QED BY <1>1, <2>1, <2>2, <2>3, <2>4, <2>5 DEF Recover
<1>2. ASSUME NEW a \in Processes, Call(a) PROVE PlaceInv'
  <2>1. CASE \E S \in SUBSET Proposals : StartTurn(a, S)
    BY <2>1, CountsFrame, CountsType DEF StartTurn, PlaceInv, EarlyInv, TableInv,
       PoppedInv, WritingInv, SettledInv, Early, Writing, Turning, TypeOK, LogOK,
       ProcessOK
  <2>2. CASE \E p \in Proposals : Allow(a, p)
    BY <2>2, CountsFrame, CountsType DEF Allow, PlaceInv, EarlyInv, TableInv,
       PoppedInv, WritingInv, SettledInv, Early, Writing, Turning, TypeOK, LogOK,
       ProcessOK
  <2>3. CASE \E p \in Proposals : Block(a, p)
    BY <2>3, CountsFrame, CountsType DEF Block, PlaceInv, EarlyInv, TableInv,
       PoppedInv, WritingInv, SettledInv, Early, Writing, Turning, TypeOK, LogOK,
       ProcessOK
  <2>4. CASE \E p \in Proposals : Execute(a, p)
    BY <2>4, CountsFrame, CountsType DEF Execute, PlaceInv, EarlyInv, TableInv,
       PoppedInv, WritingInv, SettledInv, Early, Writing, Turning, TypeOK, LogOK,
       ProcessOK
  <2>5. CASE Create(a)
    BY <2>5, CountsFrame, CountsType DEF Create, PlaceInv, EarlyInv, TableInv,
       PoppedInv, WritingInv, SettledInv, Early, Writing, Turning, TypeOK, LogOK,
       ProcessOK
  <2>6. CASE AppendReservation(a)
    BY <2>6, AppendCounts, CountsFrame, CountsType DEF AppendReservation, PlaceInv,
       EarlyInv, TableInv, PoppedInv, WritingInv, SettledInv, Early, Writing, Turning,
       TypeOK, LogOK, ProcessOK, Events, Resolution, Own
  <2>7. CASE Judged(a)
    BY <2>7, CountsFrame, CountsType DEF Judged, PlaceInv, EarlyInv, TableInv,
       PoppedInv, WritingInv, SettledInv, Early, Writing, Turning, TypeOK, LogOK,
       ProcessOK
  <2>8. CASE Resolve(a)
    <3>1. /\ Settled' = Settled /\ pc[a] = "resolve"
          /\ UNCHANGED <<todo, cur, fresh, popped>>
      BY <2>8, CountsFrame DEF Resolve
    <3>2. CASE cur[a] \in pending[a]
      <4>1. /\ pending' = [pending EXCEPT ![a] = @ \ {cur[a]}]
            /\ pc' = [pc EXCEPT ![a] = "write"] /\ cur[a] \in Proposals
        BY <2>8, <3>2 DEF Resolve, TypeOK, ProcessOK
      <4> QED
        BY <3>1, <3>2, <4>1, CountsType DEF PlaceInv, EarlyInv, TableInv, PoppedInv,
           WritingInv, SettledInv, Early, Writing, Turning, TypeOK, LogOK, ProcessOK
    <3>3. CASE cur[a] \notin pending[a]
      <4>1. pending' = pending /\ pc' = [pc EXCEPT ![a] = "run"]
        BY <2>8, <3>3 DEF Resolve
      <4> QED
        BY <3>1, <4>1, CountsType DEF PlaceInv, EarlyInv, TableInv, PoppedInv,
           WritingInv, SettledInv, Early, Writing, Turning, TypeOK, LogOK, ProcessOK
    <3> QED BY <3>2, <3>3
  <2>9. CASE WriteResolution(a)
    <3>1. /\ pc[a] = "write" /\ pc' = [pc EXCEPT ![a] = "run"]
          /\ UNCHANGED <<fresh, todo, cur, pending, popped>>
          /\ Append(cur[a], outcome[a]) \/ UNCHANGED log
      BY <2>9 DEF WriteResolution
    <3>2. cur[a] \in Proposals /\ outcome[a] \in Own
      BY <3>1 DEF TypeOK, ProcessOK, Own
    <3>3. \/ Settled' = Settled
          \/ Settled' = [Settled EXCEPT ![cur[a]] = @ + 1]
      BY <3>1, <3>2, AppendCounts, CountsFrame DEF Events, Resolution
    <3> QED
      BY <3>1, <3>2, <3>3, CountsType DEF PlaceInv, EarlyInv, TableInv, PoppedInv,
         WritingInv, SettledInv, Early, Writing, Turning, TypeOK, ProcessOK
  <2>10. CASE EndTurn(a)
    BY <2>10, CountsFrame, CountsType DEF EndTurn, PlaceInv, EarlyInv, TableInv,
       PoppedInv, WritingInv, SettledInv, Early, Writing, Turning, TypeOK, LogOK,
       ProcessOK
  <2>11. CASE EndCall(a)
    BY <2>11, CountsFrame, CountsType DEF EndCall, PlaceInv, EarlyInv, TableInv,
       PoppedInv, WritingInv, SettledInv, Early, Writing, Turning, TypeOK, LogOK,
       ProcessOK
  <2>12. CASE \E p \in Proposals : Deny(a, p)
    BY <2>12, CountsFrame, CountsType DEF Deny, PlaceInv, EarlyInv, TableInv,
       PoppedInv, WritingInv, SettledInv, Early, Writing, Turning, TypeOK,
       LogOK, ProcessOK
  <2> QED BY <1>2, <2>1, <2>2, <2>3, <2>4, <2>5, <2>6, <2>7, <2>8, <2>9, <2>10,
             <2>11, <2>12 DEF Call
<1>3. ASSUME NEW a \in Processes, Watcher(a) PROVE PlaceInv'
  <2>1. CASE \E p \in Proposals : Expire(a, p)
    BY <2>1, CountsFrame, CountsType DEF Expire, PlaceInv, EarlyInv, TableInv,
       PoppedInv, WritingInv, SettledInv, Early, Writing, Turning, TypeOK, LogOK,
       ProcessOK
  <2>2. CASE \E p \in Proposals : WriteExpired(a, p)
    <3> PICK p \in Proposals : WriteExpired(a, p)
      BY <2>2
    <3>1. /\ p \in popped[a]
          /\ popped' = [popped EXCEPT ![a] = @ \ {p}]
          /\ UNCHANGED <<pc, todo, cur, fresh, pending>>
          /\ Append(p, "expired") \/ UNCHANGED log
      BY DEF WriteExpired
    <3>2. Settled' = Settled \/ Settled' = [Settled EXCEPT ![p] = @ + 1]
      <4>1. "expired" \in Events
        BY DEF Events, Resolution, Own
      <4> QED BY <3>1, <4>1, AppendCounts, CountsFrame
    <3>3. \A b \in Processes, q \in Proposals :
            q \in popped'[b] => q \in popped[b] /\ q # p
      BY <3>1 DEF PlaceInv, PoppedInv, TypeOK, ProcessOK
    <3>4. Settled[p] = 0 /\ p \notin fresh
      BY <3>1 DEF PlaceInv, PoppedInv
    <3>5. /\ Settled' \in [Proposals -> Nat] /\ Settled'[p] <= 1
          /\ \A q \in Proposals : q # p => Settled'[q] = Settled[q]
      BY <3>2, <3>4, CountsType
    <3>6. \A b \in Processes : ~Early(b, p) /\ p \notin pending[b] /\ ~Writing(b, p)
      BY <3>1 DEF PlaceInv, EarlyInv, TableInv, PoppedInv
    <3>7. \A b \in Processes, q \in Proposals :
            (Early(b, q))' = Early(b, q) /\ (Writing(b, q))' = Writing(b, q)
      BY <3>1 DEF Early, Writing
    <3>8. EarlyInv'
      BY <3>1, <3>3, <3>5, <3>6, <3>7 DEF PlaceInv, EarlyInv
    <3>9. TableInv'
      BY <3>1, <3>3, <3>5, <3>6, <3>7 DEF PlaceInv, TableInv
    <3>10. PoppedInv'
      BY <3>1, <3>3, <3>5, <3>7 DEF PlaceInv, PoppedInv
    <3>11. WritingInv'
      BY <3>1, <3>5, <3>6, <3>7 DEF PlaceInv, WritingInv
    <3>12. SettledInv'
      BY <3>1, <3>4, <3>5 DEF PlaceInv, SettledInv
    <3> QED BY <3>8, <3>9, <3>10, <3>11, <3>12 DEF PlaceInv
  <2> QED BY <1>3, <2>1, <2>2 DEF Watcher
<1>4. CASE \E a \in Processes : StartCall(a)
  BY <1>4, CountsFrame, CountsType DEF StartCall, PlaceInv, EarlyInv, TableInv,
     PoppedInv, WritingInv, SettledInv, Early, Writing, Turning, TypeOK, LogOK,
     ProcessOK
<1>5. CASE \E a \in Processes : Stop(a)
  BY <1>5, CountsFrame, CountsType DEF Stop, PlaceInv, EarlyInv, TableInv, PoppedInv,
     WritingInv, SettledInv, Early, Writing, Turning, TypeOK, LogOK, ProcessOK
<1>6. CASE Tick
  BY <1>6, CountsFrame, CountsType DEF Tick, PlaceInv, EarlyInv, TableInv, PoppedInv,
     WritingInv, SettledInv, Early, Writing, Turning, TypeOK, LogOK, ProcessOK
<1>7. CASE UNCHANGED vars
  BY <1>7, CountsFrame, CountsType DEF vars, PlaceInv, EarlyInv, TableInv, PoppedInv,
     WritingInv, SettledInv, Early, Writing, Turning, TypeOK, LogOK, ProcessOK
<1>8. CASE \E a \in Processes : Raise(a)
  BY <1>8, CountsFrame, CountsType DEF Raise, PlaceInv, EarlyInv, TableInv,
     PoppedInv, WritingInv, SettledInv, Early, Writing, Turning, TypeOK, LogOK,
     ProcessOK
<1> QED
  BY <1>1, <1>2, <1>3, <1>4, <1>5, <1>6, <1>7, <1>8 DEF Next

\* Only the holder of the recovery lock emits, once for each orphan.
LEMMA RecoveryStep ==
  ASSUME Scopes = {"agent"}, TypeOK, RecoveryInv, [Next]_vars
  PROVE  RecoveryInv'
<1> USE DEF clock, money, recov, call, table, Goto
<1>1. ASSUME NEW a \in Processes, Recover(a) PROVE RecoveryInv'
  <2>1. CASE Boot(a)
    <3>1. scope[a] = "agent" /\ pc[a] = "boot" /\ todo' = todo
      BY <2>1 DEF Boot, TypeOK, ProcessOK
    <3>2. Recoveries' = Recoveries
      BY <2>1, CountsFrame DEF Boot
    <3>3. CASE recLock["agent"] = Null
      <4>1. /\ recLock' = [recLock EXCEPT !["agent"] = a]
            /\ pc' = [pc EXCEPT ![a] = "scan"]
        BY <2>1, <3>1, <3>3 DEF Boot
      <4>2. \A b \in Processes : pc[b] \notin {"scan", "emit"}
        BY <3>3, NullAssumption DEF RecoveryInv
      <4> QED BY <3>1, <3>2, <4>1, <4>2 DEF RecoveryInv, TypeOK, LogOK, ProcessOK
    <3>4. CASE recLock["agent"] # Null
      <4>1. recLock' = recLock /\ pc' = [pc EXCEPT ![a] = "idle"]
        BY <2>1, <3>1, <3>4 DEF Boot, NextPass
      <4> QED BY <3>1, <3>2, <4>1 DEF RecoveryInv, TypeOK, LogOK, ProcessOK
    <3> QED BY <3>3, <3>4
  <2>2. CASE Scan(a)
    <3>1. \A p \in Orphans : p \in Proposals /\ Recoveries[p] = 0
      <4>1. "recovered" \in Resolution
        BY DEF Resolution
      <4>2. \A p \in Proposals : Recoveries[p] = log[<<p, "recovered">>]
        BY DEF Recoveries
      <4> QED BY <4>1, <4>2, CountsType DEF Orphans, Resolved
    <3>2. /\ todo' = [todo EXCEPT ![a] = Orphans]
          /\ pc' = [pc EXCEPT ![a] = "emit"]
          /\ UNCHANGED recLock
          /\ Recoveries' = Recoveries /\ pc[a] = "scan"
      BY <2>2, CountsFrame DEF Scan
    <3> QED
      BY <3>1, <3>2 DEF RecoveryInv, TypeOK, ProcessOK
  <2>3. CASE \E p \in Proposals : Emit(a, p)
    BY <2>3, AppendCounts, CountsType DEF Emit, Events, Resolution, Own, RecoveryInv,
       TypeOK, LogOK, ProcessOK
  <2>4. CASE Booted(a)
    BY <2>4, CountsFrame, CountsType DEF Booted, NextPass, RecoveryInv, TypeOK, LogOK,
       ProcessOK
  <2>5. CASE \E p \in Proposals : EmitFails(a, p)
    BY <2>5, AppendCounts, CountsFrame, CountsType, NullAssumption DEF
       EmitFails, NextPass, Events, Resolution, Own, RecoveryInv, TypeOK,
       LogOK, ProcessOK
  <2> QED BY <1>1, <2>1, <2>2, <2>3, <2>4, <2>5 DEF Recover
<1>2. ASSUME NEW a \in Processes, Call(a) PROVE RecoveryInv'
  <2>1. CASE \E S \in SUBSET Proposals : StartTurn(a, S)
    BY <2>1, CountsFrame, CountsType DEF StartTurn, RecoveryInv, TypeOK, LogOK,
       ProcessOK
  <2>2. CASE \E p \in Proposals : Allow(a, p)
    BY <2>2, CountsFrame, CountsType DEF Allow, RecoveryInv, TypeOK, LogOK, ProcessOK
  <2>3. CASE \E p \in Proposals : Block(a, p)
    BY <2>3, CountsFrame, CountsType DEF Block, RecoveryInv, TypeOK, LogOK, ProcessOK
  <2>4. CASE \E p \in Proposals : Execute(a, p)
    BY <2>4, CountsFrame, CountsType DEF Execute, RecoveryInv, TypeOK, LogOK, ProcessOK
  <2>5. CASE Create(a)
    BY <2>5, CountsFrame, CountsType DEF Create, RecoveryInv, TypeOK, LogOK, ProcessOK
  <2>6. CASE AppendReservation(a)
    BY <2>6, AppendCounts, CountsFrame, CountsType DEF AppendReservation, Events,
       Resolution, Own, RecoveryInv, TypeOK, LogOK, ProcessOK
  <2>7. CASE Judged(a)
    BY <2>7, CountsFrame, CountsType DEF Judged, RecoveryInv, TypeOK, LogOK, ProcessOK
  <2>8. CASE Resolve(a)
    BY <2>8, CountsFrame, CountsType DEF Resolve, Cited, RecoveryInv, TypeOK, LogOK,
       ProcessOK
  <2>9. CASE WriteResolution(a)
    BY <2>9, AppendCounts, CountsFrame, CountsType DEF WriteResolution, Cited, Events,
       Resolution, Own, RecoveryInv, TypeOK, LogOK, ProcessOK
  <2>10. CASE EndTurn(a)
    BY <2>10, CountsFrame, CountsType DEF EndTurn, RecoveryInv, TypeOK, LogOK, ProcessOK
  <2>11. CASE EndCall(a)
    BY <2>11, CountsFrame, CountsType DEF EndCall, RecoveryInv, TypeOK, LogOK, ProcessOK
  <2>12. CASE \E p \in Proposals : Deny(a, p)
    BY <2>12, CountsFrame, CountsType DEF Deny, RecoveryInv, TypeOK, LogOK,
       ProcessOK
  <2> QED BY <1>2, <2>1, <2>2, <2>3, <2>4, <2>5, <2>6, <2>7, <2>8, <2>9, <2>10,
             <2>11, <2>12 DEF Call
<1>3. ASSUME NEW a \in Processes, Watcher(a) PROVE RecoveryInv'
  <2>1. CASE \E p \in Proposals : Expire(a, p)
    BY <2>1, CountsFrame, CountsType DEF Expire, RecoveryInv, TypeOK, LogOK, ProcessOK
  <2>2. CASE \E p \in Proposals : WriteExpired(a, p)
    BY <2>2, AppendCounts, CountsFrame, CountsType DEF WriteExpired, Events,
       Resolution, Own, RecoveryInv, TypeOK, LogOK, ProcessOK
  <2> QED BY <1>3, <2>1, <2>2 DEF Watcher
<1>4. CASE \E a \in Processes : StartCall(a)
  BY <1>4, CountsFrame, CountsType DEF StartCall, RecoveryInv, TypeOK, LogOK, ProcessOK
<1>5. CASE \E a \in Processes : Stop(a)
  BY <1>5, NullAssumption, CountsFrame DEF Stop, RecoveryInv, TypeOK, LogOK, ProcessOK
<1>6. CASE Tick
  BY <1>6, CountsFrame, CountsType DEF Tick, RecoveryInv, TypeOK, LogOK, ProcessOK
<1>7. CASE UNCHANGED vars
  BY <1>7, CountsFrame, CountsType DEF vars, RecoveryInv, TypeOK, LogOK, ProcessOK
<1>8. CASE \E a \in Processes : Raise(a)
  BY <1>8, CountsFrame, CountsType DEF Raise, RecoveryInv, TypeOK, LogOK,
     ProcessOK
<1> QED
  BY <1>1, <1>2, <1>3, <1>4, <1>5, <1>6, <1>7, <1>8 DEF Next
-----------------------------------------------------------------------------
\* The type invariant is inductive, and PlaceInv relative to it.
LEMMA Invariance == Spec => [](TypeOK /\ PlaceInv)
<1>1. Init => TypeOK /\ PlaceInv
  BY InvInit
<1>2. TypeOK /\ PlaceInv /\ [Next]_vars => (TypeOK /\ PlaceInv)'
  BY TypeStep, PlaceStep
<1> QED
  BY <1>1, <1>2, PTL DEF Spec

LEMMA RecoveryInvariance ==
  ASSUME Scopes = {"agent"} PROVE Spec => []RecoveryInv
<1>1. Init => RecoveryInv
  BY InvInit
<1>2. TypeOK /\ RecoveryInv /\ [Next]_vars => RecoveryInv'
  BY RecoveryStep
<1> QED
  BY <1>1, <1>2, Invariance, PTL DEF Spec

\* Every variable keeps its type.
THEOREM TypeCorrect == Spec => []TypeOK
  BY Invariance, PTL

\* _expire's promise: the log of a reservation has commit, rollback or expiry,
\* and never two of them, for any interleaving of calls, watchers and crashes.
THEOREM OneResolution == Spec => []ResolvedOnce
<1>1. PlaceInv => ResolvedOnce
  BY DEF PlaceInv, SettledInv, Settled, ResolvedOnce
<1> QED
  BY <1>1, Invariance, PTL

\* spec/29 Risk B: any number of replicas recover an orphan once, when the
\* agent's scope is the only one they recover.
THEOREM OneRecovery ==
  ASSUME Scopes = {"agent"} PROVE Spec => []RecoveredOnce
<1>1. RecoveryInv => RecoveredOnce
  BY DEF RecoveryInv, Recoveries, RecoveredOnce
<1> QED
  BY <1>1, RecoveryInvariance, PTL
-----------------------------------------------------------------------------
\* How often the reservation of each proposal was logged.
Reservations == [p \in Proposals |-> log[<<p, "reservation">>]]

\* A process that is in a call holds the call lock.
InCall == {"turn", "judge", "create", "append", "run", "resolve", "write"}
CallLockInv == \A a \in Processes : pc[a] \in InCall => lock = a

\* Nothing knows a proposal before it is made.
UsedInv ==
  /\ \A p \in fresh : p \notin tagged /\ Reservations[p] = 0
  /\ \A a \in Processes, p \in fresh :
       p \notin todo[a] /\ p \notin admitted[a] /\ p # cur[a] /\ p # cite[a]

\* The proposals of a turn that were handed to create().
Made(a) == IF pc[a] \in {"create", "append"} THEN {cur[a]} ELSE {}

\* While a turn is judged, each of its proposals is new to the log's cost
\* events, and the reservation of each admitted one is young, logged and in
\* the table.
UntaggedInv ==
  \A a \in Processes : pc[a] \in Turning =>
    \A p \in todo[a] \union rids[a] \union Made(a) : p \notin tagged
PromptInv ==
  \A a \in Processes : pc[a] \in Turning =>
    /\ rids[a] \union Made(a) \subseteq admitted[a]
    /\ \A p \in admitted[a] :
         \/ pc[a] = "create" /\ p = cur[a]
         \/ now < ts[p] + Ttl /\ now < ts[p] + Window
    /\ rids[a] \subseteq pending[a]
    /\ pc[a] = "append" => cur[a] \in pending[a]

\* Finitely many reservations were logged, those of a turn among them.
LoggedProposals == {p \in Proposals : Reservations[p] > 0}
LoggedInv ==
  /\ IsFiniteSet(LoggedProposals)
  /\ \A a \in Processes : rids[a] \subseteq LoggedProposals

\* The admitted proposals of a turn whose reservation is in the log, or about
\* to be, and was not recovered meanwhile.
Reserved(a) == {p \in rids[a] : Recoveries[p] = 0} \union Made(a)

\* Spent and reserved fit under the cap, from the verdict to the last action.
Fitting == InCall \ {"turn"}
ReservedFits ==
  \A a \in Processes : pc[a] \in Fitting /\ Reserved(a) # {} =>
    recorded + Cardinality(Reserved(a)) <= Cap

TurnInv ==
  /\ CallLockInv /\ UsedInv /\ UntaggedInv /\ PromptInv /\ LoggedInv
  /\ ReservedFits

\* One process, and every event can be appended.
WholeInv ==
  \A a \in Processes :
    /\ pc[a] \in Fitting => admitted[a] = rids[a] \union Made(a)
    /\ \A p \in fresh : Recoveries[p] = 0
    /\ pc[a] \in Fitting =>
         \A p \in todo[a] \union admitted[a] : Recoveries[p] = 0
-----------------------------------------------------------------------------
\* The reservation lines of the log: their counts, and what an append adds.
LEMMA ReservationsType == TypeOK => Reservations \in [Proposals -> Nat]
  BY DEF TypeOK, LogOK, Reservations, Events

LEMMA ReservationsFrame ==
  ASSUME UNCHANGED log PROVE Reservations' = Reservations
  BY DEF Reservations

LEMMA ReservationCounts ==
  ASSUME TypeOK, NEW p \in Proposals, NEW e \in Events, Append(p, e)
  PROVE  Reservations' = IF e = "reservation"
                         THEN [Reservations EXCEPT ![p] = @ + 1]
                         ELSE Reservations
<1>1. \A q \in Proposals, f \in Events :
         log'[<<q, f>>] = IF q = p /\ f = e THEN log[<<q, f>>] + 1
                          ELSE log[<<q, f>>]
  BY AppendLog
<1> QED BY <1>1 DEF Reservations, Events

\* Only the holder of the call lock is in a call.
LEMMA CallLockStep ==
  ASSUME TypeOK, CallLockInv, [Next]_vars
  PROVE  CallLockInv'
<1> USE DEF clock, money, recov, call, table, Goto, Fault
<1>1. ASSUME NEW a \in Processes, Recover(a) PROVE CallLockInv'
  <2>1. CASE Boot(a)
    BY <2>1 DEF Boot, NextPass, CallLockInv, InCall, TypeOK, ProcessOK
  <2>2. CASE Scan(a)
    BY <2>2 DEF Scan, CallLockInv, InCall
  <2>3. CASE \E p \in Proposals : Emit(a, p)
    BY <2>3 DEF Emit, CallLockInv
  <2>4. CASE Booted(a)
    BY <2>4 DEF Booted, NextPass, CallLockInv, InCall, TypeOK, ProcessOK
  <2>5. CASE \E p \in Proposals : EmitFails(a, p)
    BY <2>5 DEF EmitFails, NextPass, CallLockInv, InCall, TypeOK, ProcessOK
  <2> QED BY <1>1, <2>1, <2>2, <2>3, <2>4, <2>5 DEF Recover
<1>2. ASSUME NEW a \in Processes, Call(a) PROVE CallLockInv'
  <2>1. CASE \E S \in SUBSET Proposals : StartTurn(a, S)
    BY <2>1 DEF StartTurn, CallLockInv, InCall
  <2>2. CASE \E p \in Proposals : Allow(a, p)
    BY <2>2 DEF Allow, CallLockInv, InCall
  <2>3. CASE \E p \in Proposals : Block(a, p)
    BY <2>3 DEF Block, CallLockInv
  <2>4. CASE \E p \in Proposals : Execute(a, p)
    BY <2>4 DEF Execute, CallLockInv, InCall, TypeOK, ProcessOK
  <2>5. CASE Create(a)
    BY <2>5 DEF Create, CallLockInv, InCall
  <2>6. CASE AppendReservation(a)
    BY <2>6 DEF AppendReservation, CallLockInv, InCall
  <2>7. CASE Judged(a)
    BY <2>7 DEF Judged, CallLockInv, InCall
  <2>8. CASE Resolve(a)
    BY <2>8 DEF Resolve, CallLockInv, InCall, TypeOK, ProcessOK
  <2>9. CASE WriteResolution(a)
    BY <2>9 DEF WriteResolution, CallLockInv, InCall
  <2>10. CASE EndTurn(a)
    BY <2>10 DEF EndTurn, CallLockInv, InCall
  <2>11. CASE EndCall(a)
    BY <2>11 DEF EndCall, CallLockInv, InCall, TypeOK, ProcessOK
  <2>12. CASE \E p \in Proposals : Deny(a, p)
    BY <2>12 DEF Deny, CallLockInv, InCall, TypeOK, ProcessOK
  <2> QED BY <1>2, <2>1, <2>2, <2>3, <2>4, <2>5, <2>6, <2>7, <2>8, <2>9, <2>10,
             <2>11, <2>12 DEF Call
<1>3. ASSUME NEW a \in Processes, Watcher(a) PROVE CallLockInv'
  <2>1. CASE \E p \in Proposals : Expire(a, p)
    BY <2>1 DEF Expire, CallLockInv
  <2>2. CASE \E p \in Proposals : WriteExpired(a, p)
    BY <2>2 DEF WriteExpired, CallLockInv
  <2> QED BY <1>3, <2>1, <2>2 DEF Watcher
<1>4. CASE \E a \in Processes : StartCall(a)
  BY <1>4, NullAssumption DEF StartCall, CallLockInv
<1>5. CASE \E a \in Processes : Stop(a)
  BY <1>5 DEF Stop, CallLockInv, InCall, TypeOK, ProcessOK
<1>6. CASE Tick
  BY <1>6 DEF Tick, CallLockInv
<1>7. CASE UNCHANGED vars
  BY <1>7 DEF vars, CallLockInv
<1>8. CASE \E a \in Processes : Raise(a)
  BY <1>8 DEF Raise, CallLockInv, InCall, TypeOK, ProcessOK
<1> QED BY <1>1, <1>2, <1>3, <1>4, <1>5, <1>6, <1>7, <1>8 DEF Next

\* A proposal that nothing knows stays unknown until a turn makes it.
LEMMA UsedStep ==
  ASSUME TypeOK, UsedInv, [Next]_vars
  PROVE  UsedInv'
<1> USE DEF clock, money, recov, call, table, Goto, Fault
<1>1. ASSUME NEW a \in Processes, Recover(a) PROVE UsedInv'
  <2>1. CASE Boot(a)
    BY <2>1, ReservationsFrame DEF Boot, UsedInv
  <2>2. CASE Scan(a)
    <3>1. ASSUME NEW p \in Orphans PROVE p \notin fresh
      <4>1. p \in Proposals /\ log[<<p, "reservation">>] > 0
        BY DEF Orphans
      <4>2. Reservations[p] > 0
        BY <4>1 DEF Reservations
      <4> QED BY <4>2 DEF UsedInv
    <3>2. Reservations' = Reservations
      BY <2>2, ReservationsFrame DEF Scan
    <3> QED BY <2>2, <3>1, <3>2 DEF Scan, UsedInv
  <2>3. CASE \E p \in Proposals : Emit(a, p)
      BY <2>3, ReservationCounts DEF Emit, UsedInv, Events, Resolution
  <2>4. CASE Booted(a)
    BY <2>4, ReservationsFrame DEF Booted, UsedInv
  <2>5. CASE \E p \in Proposals : EmitFails(a, p)
    BY <2>5, ReservationCounts, ReservationsFrame DEF EmitFails, UsedInv,
       Events, Resolution, TypeOK, ProcessOK
  <2> QED BY <1>1, <2>1, <2>2, <2>3, <2>4, <2>5 DEF Recover
<1>2. ASSUME NEW a \in Processes, Call(a) PROVE UsedInv'
  <2>1. CASE \E S \in SUBSET Proposals : StartTurn(a, S)
    BY <2>1, ReservationsFrame DEF StartTurn, UsedInv
  <2>2. CASE \E p \in Proposals : Allow(a, p)
    BY <2>2, ReservationsFrame DEF Allow, UsedInv
  <2>3. CASE \E p \in Proposals : Block(a, p)
    BY <2>3, ReservationsFrame DEF Block, UsedInv
  <2>4. CASE \E p \in Proposals : Execute(a, p)
    BY <2>4, ReservationsFrame DEF Execute, UsedInv
  <2>5. CASE Create(a)
    BY <2>5, ReservationsFrame DEF Create, UsedInv
  <2>6. CASE AppendReservation(a)
      BY <2>6, ReservationCounts, ReservationsFrame,
         ReservationsType DEF AppendReservation, UsedInv, TypeOK, LogOK, ProcessOK,
         Events
  <2>7. CASE Judged(a)
    BY <2>7, ReservationsFrame DEF Judged, UsedInv
  <2>8. CASE Resolve(a)
    BY <2>8, ReservationsFrame DEF Resolve, Cited, UsedInv, TypeOK, ProcessOK
  <2>9. CASE WriteResolution(a)
    <3>1. cur[a] \in Proposals /\ cur[a] \notin fresh
      BY <2>9 DEF WriteResolution, UsedInv, TypeOK, ProcessOK
    <3>2. Reservations' = Reservations
      BY <2>9, <3>1, ReservationCounts, ReservationsFrame DEF WriteResolution, TypeOK,
         ProcessOK, Events, Resolution, Own
    <3> QED
      BY <2>9, <3>1, <3>2 DEF WriteResolution, Cited, UsedInv, TypeOK, ProcessOK
  <2>10. CASE EndTurn(a)
    BY <2>10, ReservationsFrame DEF EndTurn, UsedInv
  <2>11. CASE EndCall(a)
    BY <2>11, ReservationsFrame, NullAssumption DEF EndCall, UsedInv, TypeOK, LogOK
  <2>12. CASE \E p \in Proposals : Deny(a, p)
    BY <2>12, ReservationsFrame DEF Deny, UsedInv
  <2> QED BY <1>2, <2>1, <2>2, <2>3, <2>4, <2>5, <2>6, <2>7, <2>8, <2>9, <2>10,
             <2>11, <2>12 DEF Call
<1>3. ASSUME NEW a \in Processes, Watcher(a) PROVE UsedInv'
  <2>1. CASE \E p \in Proposals : Expire(a, p)
    BY <2>1, ReservationsFrame DEF Expire, UsedInv
  <2>2. CASE \E p \in Proposals : WriteExpired(a, p)
    <3>1. Reservations' = Reservations
      BY <2>2, ReservationCounts, ReservationsFrame DEF WriteExpired, Events,
         Resolution, Own
    <3> QED BY <2>2, <3>1 DEF WriteExpired, UsedInv
  <2> QED BY <1>3, <2>1, <2>2 DEF Watcher
<1>4. CASE \E a \in Processes : StartCall(a)
  BY <1>4, ReservationsFrame DEF StartCall, UsedInv
<1>5. CASE \E a \in Processes : Stop(a)
  BY <1>5, ReservationsFrame, NullAssumption DEF Stop, UsedInv, TypeOK, LogOK
<1>6. CASE Tick
  BY <1>6, ReservationsFrame DEF Tick, UsedInv
<1>7. CASE UNCHANGED vars
  BY <1>7, ReservationsFrame DEF vars, UsedInv
<1>8. CASE \E a \in Processes : Raise(a)
  BY <1>8, ReservationsFrame, NullAssumption DEF Raise, UsedInv, TypeOK, LogOK,
     ProcessOK
<1> QED BY <1>1, <1>2, <1>3, <1>4, <1>5, <1>6, <1>7, <1>8 DEF Next

\* Only the end of a call tags a proposal, and no other call ends meanwhile.
LEMMA UntaggedStep ==
  ASSUME TypeOK, CallLockInv, UsedInv, UntaggedInv, [Next]_vars
  PROVE  UntaggedInv'
<1> USE DEF clock, money, recov, call, table, Goto, Fault
<1>1. ASSUME NEW a \in Processes, Recover(a) PROVE UntaggedInv'
  <2>1. CASE Boot(a)
    BY <2>1 DEF Boot, NextPass, UntaggedInv, Made, Turning, TypeOK, ProcessOK
  <2>2. CASE Scan(a)
    BY <2>2 DEF Scan, UntaggedInv, Made, Turning
  <2>3. CASE \E p \in Proposals : Emit(a, p)
    BY <2>3 DEF Emit, UntaggedInv, Made
  <2>4. CASE Booted(a)
    BY <2>4 DEF Booted, NextPass, UntaggedInv, Made, Turning, TypeOK, ProcessOK
  <2>5. CASE \E p \in Proposals : EmitFails(a, p)
    BY <2>5 DEF EmitFails, NextPass, UntaggedInv, Made, Turning, TypeOK,
       ProcessOK
  <2> QED BY <1>1, <2>1, <2>2, <2>3, <2>4, <2>5 DEF Recover
<1>2. ASSUME NEW a \in Processes, Call(a) PROVE UntaggedInv'
  <2>1. CASE \E S \in SUBSET Proposals : StartTurn(a, S)
    <3> PICK S \in SUBSET Proposals : StartTurn(a, S)
      BY <2>1
    <3>1. /\ pc' = [pc EXCEPT ![a] = "judge"] /\ tagged' = tagged
          /\ todo' = [todo EXCEPT ![a] = S] /\ rids' = [rids EXCEPT ![a] = {}]
          /\ cur' = cur /\ S \subseteq fresh
      BY DEF StartTurn
    <3>2. \A p \in S : p \notin tagged
      BY <3>1 DEF UsedInv
    <3> QED
      BY <3>1, <3>2 DEF UntaggedInv, Made, TypeOK, ProcessOK
  <2>2. CASE \E p \in Proposals : Allow(a, p)
    BY <2>2 DEF Allow, UntaggedInv, Made, Turning, TypeOK, ProcessOK
  <2>3. CASE \E p \in Proposals : Block(a, p)
    BY <2>3 DEF Block, UntaggedInv, Made
  <2>4. CASE \E p \in Proposals : Execute(a, p)
    BY <2>4 DEF Execute, UntaggedInv, Turning, CallLockInv, InCall, TypeOK, ProcessOK
  <2>5. CASE Create(a)
    BY <2>5 DEF Create, UntaggedInv, Made, Turning
  <2>6. CASE AppendReservation(a)
    BY <2>6 DEF AppendReservation, UntaggedInv, Made, Turning, TypeOK, ProcessOK
  <2>7. CASE Judged(a)
    BY <2>7 DEF Judged, UntaggedInv, Turning, CallLockInv, InCall, TypeOK, ProcessOK
  <2>8. CASE Resolve(a)
    BY <2>8 DEF Resolve, UntaggedInv, Turning, CallLockInv, InCall, TypeOK, ProcessOK
  <2>9. CASE WriteResolution(a)
    BY <2>9 DEF WriteResolution, UntaggedInv, Turning, CallLockInv, InCall
  <2>10. CASE EndTurn(a)
    BY <2>10 DEF EndTurn, UntaggedInv, Turning, CallLockInv, InCall
  <2>11. CASE EndCall(a)
    BY <2>11 DEF EndCall, UntaggedInv, Turning, CallLockInv, InCall
  <2>12. CASE \E p \in Proposals : Deny(a, p)
    BY <2>12 DEF Deny, UntaggedInv, Made, Turning, TypeOK, ProcessOK
  <2> QED BY <1>2, <2>1, <2>2, <2>3, <2>4, <2>5, <2>6, <2>7, <2>8, <2>9, <2>10,
             <2>11, <2>12 DEF Call
<1>3. ASSUME NEW a \in Processes, Watcher(a) PROVE UntaggedInv'
  <2>1. CASE \E p \in Proposals : Expire(a, p)
    BY <2>1 DEF Expire, UntaggedInv, Made
  <2>2. CASE \E p \in Proposals : WriteExpired(a, p)
    BY <2>2 DEF WriteExpired, UntaggedInv, Made
  <2> QED BY <1>3, <2>1, <2>2 DEF Watcher
<1>4. CASE \E a \in Processes : StartCall(a)
  BY <1>4 DEF StartCall, UntaggedInv, Made, Turning
<1>5. CASE \E a \in Processes : Stop(a)
  BY <1>5 DEF Stop, UntaggedInv, Made, TypeOK, ProcessOK
<1>6. CASE Tick
  BY <1>6 DEF Tick, UntaggedInv, Made
<1>7. CASE UNCHANGED vars
  BY <1>7 DEF vars, UntaggedInv, Made
<1>8. CASE \E a \in Processes : Raise(a)
  BY <1>8 DEF Raise, UntaggedInv, Made, Turning, TypeOK, ProcessOK
<1> QED BY <1>1, <1>2, <1>3, <1>4, <1>5, <1>6, <1>7, <1>8 DEF Next

\* A reservation of the turn that is judged is young and in the table.
LEMMA PromptStep ==
  ASSUME PromptJudge, TypeOK, PlaceInv, PromptInv, [Next]_vars
  PROVE  PromptInv'
<1> USE DEF clock, money, recov, call, table, Goto, Fault
<1>1. ASSUME NEW a \in Processes, Recover(a) PROVE PromptInv'
  <2>1. CASE Boot(a)
    BY <2>1 DEF Boot, NextPass, PromptInv, Made, Turning, TypeOK, ProcessOK
  <2>2. CASE Scan(a)
    BY <2>2 DEF Scan, PromptInv, Made, Turning
  <2>3. CASE \E p \in Proposals : Emit(a, p)
    BY <2>3 DEF Emit, PromptInv, Made
  <2>4. CASE Booted(a)
    BY <2>4 DEF Booted, NextPass, PromptInv, Made, Turning, TypeOK, ProcessOK
  <2>5. CASE \E p \in Proposals : EmitFails(a, p)
    BY <2>5 DEF EmitFails, NextPass, PromptInv, Made, Turning, TypeOK,
       ProcessOK
  <2> QED BY <1>1, <2>1, <2>2, <2>3, <2>4, <2>5 DEF Recover
<1>2. ASSUME NEW a \in Processes, Call(a) PROVE PromptInv'
  <2>1. CASE \E S \in SUBSET Proposals : StartTurn(a, S)
    BY <2>1 DEF StartTurn, PromptInv, Made, TypeOK, ProcessOK
  <2>2. CASE \E p \in Proposals : Allow(a, p)
    BY <2>2 DEF Allow, PromptInv, Made, Turning, TypeOK, ProcessOK
  <2>3. CASE \E p \in Proposals : Block(a, p)
    BY <2>3 DEF Block, PromptInv, Made
  <2>4. CASE \E p \in Proposals : Execute(a, p)
    BY <2>4 DEF Execute, PromptInv, Made, Turning, TypeOK, ProcessOK
  <2>5. CASE Create(a)
    BY <2>5, BudgetAssumption DEF Create, PromptInv, Made, Turning, TypeOK, LogOK,
       ProcessOK
  <2>6. CASE AppendReservation(a)
    BY <2>6 DEF AppendReservation, PromptInv, Made, Turning, TypeOK, ProcessOK
  <2>7. CASE Judged(a)
    BY <2>7 DEF Judged, PromptInv, Made, Turning
  <2>8. CASE Resolve(a)
    BY <2>8 DEF Resolve, PromptInv, Made, Turning, TypeOK, ProcessOK
  <2>9. CASE WriteResolution(a)
    BY <2>9 DEF WriteResolution, PromptInv, Made, Turning
  <2>10. CASE EndTurn(a)
    BY <2>10 DEF EndTurn, PromptInv, Made, Turning
  <2>11. CASE EndCall(a)
    BY <2>11 DEF EndCall, PromptInv, Made, Turning
  <2>12. CASE \E p \in Proposals : Deny(a, p)
    BY <2>12 DEF Deny, PromptInv, Made, Turning, TypeOK, ProcessOK
  <2> QED BY <1>2, <2>1, <2>2, <2>3, <2>4, <2>5, <2>6, <2>7, <2>8, <2>9, <2>10,
             <2>11, <2>12 DEF Call
<1>3. ASSUME NEW a \in Processes, Watcher(a) PROVE PromptInv'
  <2>1. CASE \E p \in Proposals : Expire(a, p)
    <3> PICK p \in Proposals : Expire(a, p)
      BY <2>1
    <3>1. /\ now >= ts[p] + Ttl /\ pending' = [pending EXCEPT ![a] = @ \ {p}]
          /\ UNCHANGED <<now, ts, pc, cur, admitted, rids>>
      BY DEF Expire
    <3>2. pc[a] \in Turning => p \notin rids[a] /\ ~(pc[a] = "append" /\ p = cur[a])
      <4> SUFFICES ASSUME pc[a] \in Turning, p \in admitted[a]
                   PROVE  pc[a] = "create" /\ p = cur[a] /\ p \notin pending[a]
        BY DEF PromptInv, Made
      <4>1. ~(now < ts[p] + Ttl)
        BY <3>1, BudgetAssumption DEF TypeOK, LogOK
      <4>2. pc[a] = "create" /\ p = cur[a]
        BY <4>1 DEF PromptInv
      <4> QED BY <4>2 DEF PlaceInv, EarlyInv, Early
    <3> QED
      BY <3>1, <3>2 DEF PromptInv, Made
  <2>2. CASE \E p \in Proposals : WriteExpired(a, p)
    BY <2>2 DEF WriteExpired, PromptInv, Made
  <2> QED BY <1>3, <2>1, <2>2 DEF Watcher
<1>4. CASE \E a \in Processes : StartCall(a)
  BY <1>4 DEF StartCall, PromptInv, Made, Turning
<1>5. CASE \E a \in Processes : Stop(a)
  BY <1>5 DEF Stop, PromptInv, Made, TypeOK, ProcessOK
<1>6. CASE Tick
  BY <1>6 DEF Tick, PromptInv, Made, Turning
<1>7. CASE UNCHANGED vars
  BY <1>7 DEF vars, PromptInv, Made
<1>8. CASE \E a \in Processes : Raise(a)
  BY <1>8 DEF Raise, PromptInv, Made, Turning, TypeOK, ProcessOK
<1> QED BY <1>1, <1>2, <1>3, <1>4, <1>5, <1>6, <1>7, <1>8 DEF Next

\* Reservations are logged one at a time.
LEMMA LoggedFinite ==
  ASSUME TypeOK, IsFiniteSet(LoggedProposals),
         \/ Reservations' = Reservations
         \/ \E p \in Proposals :
              Reservations' = [Reservations EXCEPT ![p] = @ + 1]
  PROVE  IsFiniteSet(LoggedProposals)' /\ LoggedProposals \subseteq LoggedProposals'
<1>1. CASE Reservations' = Reservations
  BY <1>1 DEF LoggedProposals
<1>2. ASSUME NEW p \in Proposals,
             Reservations' = [Reservations EXCEPT ![p] = @ + 1]
      PROVE  LoggedProposals' = LoggedProposals \union {p}
  BY <1>2, ReservationsType DEF LoggedProposals
<1> QED BY <1>1, <1>2, FS_AddElement

\* The reservations of a turn are in the log.
LEMMA LoggedStep ==
  ASSUME TypeOK, LoggedInv, [Next]_vars
  PROVE  LoggedInv'
<1> USE DEF clock, money, recov, call, table, Goto, Fault
<1>1. ASSUME NEW a \in Processes, Recover(a) PROVE LoggedInv'
  <2>1. CASE Boot(a)
    BY <2>1, ReservationsFrame DEF Boot, LoggedInv, LoggedProposals
  <2>2. CASE Scan(a)
    BY <2>2, ReservationsFrame DEF Scan, LoggedInv, LoggedProposals
  <2>3. CASE \E p \in Proposals : Emit(a, p)
    <3>1. Reservations' = Reservations
      BY <2>3, ReservationCounts DEF Emit, Events, Resolution
    <3> QED BY <2>3, <3>1 DEF Emit, LoggedInv, LoggedProposals
  <2>4. CASE Booted(a)
    BY <2>4, ReservationsFrame DEF Booted, LoggedInv, LoggedProposals
  <2>5. CASE \E p \in Proposals : EmitFails(a, p)
    <3>1. Reservations' = Reservations
      BY <2>5, ReservationCounts, ReservationsFrame DEF EmitFails, Events, Resolution
    <3> QED BY <2>5, <3>1 DEF EmitFails, LoggedInv, LoggedProposals
  <2> QED BY <1>1, <2>1, <2>2, <2>3, <2>4, <2>5 DEF Recover
<1>2. ASSUME NEW a \in Processes, Call(a) PROVE LoggedInv'
  <2>1. CASE \E S \in SUBSET Proposals : StartTurn(a, S)
    BY <2>1, ReservationsFrame DEF StartTurn, LoggedInv, LoggedProposals
  <2>2. CASE \E p \in Proposals : Allow(a, p)
    BY <2>2, ReservationsFrame DEF Allow, LoggedInv, LoggedProposals
  <2>3. CASE \E p \in Proposals : Block(a, p)
    BY <2>3, ReservationsFrame DEF Block, LoggedInv, LoggedProposals
  <2>4. CASE \E p \in Proposals : Execute(a, p)
    BY <2>4, ReservationsFrame DEF Execute, LoggedInv, LoggedProposals
  <2>5. CASE Create(a)
    BY <2>5, ReservationsFrame DEF Create, LoggedInv, LoggedProposals
  <2>6. CASE AppendReservation(a)
    <3>1. cur[a] \in Proposals
      BY <2>6 DEF AppendReservation, TypeOK, ProcessOK
    <3>2. \/ UNCHANGED rids /\ Reservations' = Reservations
          \/ /\ rids' = [rids EXCEPT ![a] = @ \union {cur[a]}]
             /\ Reservations' = [Reservations EXCEPT ![cur[a]] = @ + 1]
      BY <2>6, <3>1, ReservationCounts, ReservationsFrame DEF AppendReservation, Events
    <3>3. IsFiniteSet(LoggedProposals)' /\ LoggedProposals \subseteq LoggedProposals'
      BY <3>1, <3>2, LoggedFinite DEF LoggedInv
    <3>4. rids' # rids => cur[a] \in LoggedProposals'
      BY <3>1, <3>2, ReservationsType DEF LoggedProposals
    <3> QED BY <3>2, <3>3, <3>4 DEF LoggedInv, TypeOK, ProcessOK
  <2>7. CASE Judged(a)
    BY <2>7, ReservationsFrame DEF Judged, LoggedInv, LoggedProposals
  <2>8. CASE Resolve(a)
    BY <2>8, ReservationsFrame DEF Resolve, LoggedInv, LoggedProposals
  <2>9. CASE WriteResolution(a)
    <3>1. Reservations' = Reservations
      BY <2>9, ReservationCounts, ReservationsFrame DEF WriteResolution, TypeOK,
         ProcessOK, Events, Resolution, Own
    <3> QED BY <2>9, <3>1 DEF WriteResolution, LoggedInv, LoggedProposals
  <2>10. CASE EndTurn(a)
    BY <2>10, ReservationsFrame DEF EndTurn, LoggedInv, LoggedProposals
  <2>11. CASE EndCall(a)
    BY <2>11, ReservationsFrame DEF EndCall, LoggedInv, LoggedProposals
  <2>12. CASE \E p \in Proposals : Deny(a, p)
    BY <2>12, ReservationsFrame DEF Deny, LoggedInv, LoggedProposals
  <2> QED BY <1>2, <2>1, <2>2, <2>3, <2>4, <2>5, <2>6, <2>7, <2>8, <2>9, <2>10,
             <2>11, <2>12 DEF Call
<1>3. ASSUME NEW a \in Processes, Watcher(a) PROVE LoggedInv'
  <2>1. CASE \E p \in Proposals : Expire(a, p)
    BY <2>1, ReservationsFrame DEF Expire, LoggedInv, LoggedProposals
  <2>2. CASE \E p \in Proposals : WriteExpired(a, p)
    <3>1. Reservations' = Reservations
      BY <2>2, ReservationCounts, ReservationsFrame DEF WriteExpired, Events,
         Resolution, Own
    <3> QED BY <2>2, <3>1 DEF WriteExpired, LoggedInv, LoggedProposals
  <2> QED BY <1>3, <2>1, <2>2 DEF Watcher
<1>4. CASE \E a \in Processes : StartCall(a)
  BY <1>4, ReservationsFrame DEF StartCall, LoggedInv, LoggedProposals
<1>5. CASE \E a \in Processes : Stop(a)
  BY <1>5, ReservationsFrame DEF Stop, LoggedInv, LoggedProposals
<1>6. CASE Tick
  BY <1>6, ReservationsFrame DEF Tick, LoggedInv, LoggedProposals
<1>7. CASE UNCHANGED vars
  BY <1>7, ReservationsFrame DEF vars, LoggedInv, LoggedProposals
<1>8. CASE \E a \in Processes : Raise(a)
  BY <1>8, ReservationsFrame DEF Raise, LoggedInv, LoggedProposals
<1> QED BY <1>1, <1>2, <1>3, <1>4, <1>5, <1>6, <1>7, <1>8 DEF Next

\* No step but a new turn and a verdict adds to what a turn reserved.
Keeps(b) ==
  pc'[b] \in Fitting /\ Reserved(b)' # {} =>
    \/ /\ pc[b] \in Fitting
       /\ recorded' = recorded /\ Reserved(b)' \subseteq Reserved(b)
    \/ \E p \in Proposals : Allow(b, p)

\* Every other step leaves the turn of b what it reserved, or less.
LEMMA ReservedShrinks ==
  ASSUME NEW b \in Processes, TypeOK, CallLockInv, [Next]_vars
  PROVE  Keeps(b)
<1> USE DEF clock, money, recov, call, table, Goto, Fault
<1>1. ASSUME NEW a \in Processes, Recover(a) PROVE Keeps(b)
  <2>1. CASE Boot(a)
    BY <2>1, CountsFrame DEF Boot, NextPass, Keeps, Reserved, Made, Fitting, InCall,
       TypeOK, ProcessOK
  <2>2. CASE Scan(a)
    BY <2>2, CountsFrame DEF Scan, Keeps, Reserved, Made, Fitting, InCall
  <2>3. CASE \E p \in Proposals : Emit(a, p)
      BY <2>3, AppendCounts, CountsType DEF Emit, Events, Resolution, Keeps, Reserved,
         Made, TypeOK, ProcessOK
  <2>4. CASE Booted(a)
    BY <2>4, CountsFrame DEF Booted, NextPass, Keeps, Reserved, Made, Fitting, InCall,
       TypeOK, ProcessOK
  <2>5. CASE \E p \in Proposals : EmitFails(a, p)
    BY <2>5, AppendCounts, CountsFrame, CountsType DEF EmitFails, NextPass,
       Events, Resolution, Keeps, Reserved, Made, Fitting, InCall, TypeOK,
       ProcessOK
  <2> QED BY <1>1, <2>1, <2>2, <2>3, <2>4, <2>5 DEF Recover
<1>2. ASSUME NEW a \in Processes, Call(a) PROVE Keeps(b)
  <2>1. CASE \E S \in SUBSET Proposals : StartTurn(a, S)
    BY <2>1, CountsFrame DEF StartTurn, Keeps, Reserved, Made, TypeOK, ProcessOK
  <2>2. CASE \E p \in Proposals : Allow(a, p)
    BY <2>2, CountsFrame DEF Allow, Keeps, Reserved, Made, TypeOK, ProcessOK
  <2>3. CASE \E p \in Proposals : Block(a, p)
    BY <2>3, CountsFrame DEF Block, Keeps, Reserved, Made
  <2>4. CASE \E p \in Proposals : Execute(a, p)
    BY <2>4, CountsFrame DEF Execute, Keeps, Reserved, Made, Fitting, InCall, TypeOK,
       ProcessOK
  <2>5. CASE Create(a)
    BY <2>5, CountsFrame DEF Create, Keeps, Reserved, Made, Fitting, InCall
  <2>6. CASE AppendReservation(a)
    <3>1. cur[a] \in Proposals
      BY <2>6 DEF AppendReservation, TypeOK, ProcessOK
    <3>2. Recoveries' = Recoveries
      BY <2>6, <3>1, AppendCounts, CountsFrame DEF AppendReservation, Events
    <3> QED BY <2>6, <3>1, <3>2 DEF AppendReservation, Keeps, Reserved, Made, Fitting,
               InCall, TypeOK, ProcessOK
  <2>7. CASE Judged(a)
    BY <2>7, CountsFrame DEF Judged, Keeps, Reserved, Made, Fitting, InCall
  <2>8. CASE Resolve(a)
    BY <2>8, CountsFrame DEF Resolve, Keeps, Reserved, Made, Fitting, InCall, TypeOK,
       ProcessOK
  <2>9. CASE WriteResolution(a)
    <3>1. cur[a] \in Proposals /\ outcome[a] \in Own
      BY <2>9 DEF WriteResolution, TypeOK, ProcessOK, Own
    <3>2. Recoveries' = Recoveries
      BY <2>9, <3>1, AppendCounts, CountsFrame DEF WriteResolution, Events, Resolution,
         Own
    <3> QED BY <2>9, <3>2 DEF WriteResolution, Keeps, Reserved, Made, Fitting, InCall
  <2>10. CASE EndTurn(a)
    BY <2>10, CountsFrame DEF EndTurn, Keeps, Reserved, Made, Fitting
  <2>11. CASE EndCall(a)
      BY <2>11 DEF EndCall, CallLockInv, Keeps, Fitting, InCall
  <2>12. CASE \E p \in Proposals : Deny(a, p)
    BY <2>12, CountsFrame DEF Deny, Keeps, Reserved, Made, Fitting, InCall,
       TypeOK, ProcessOK
  <2> QED BY <1>2, <2>1, <2>2, <2>3, <2>4, <2>5, <2>6, <2>7, <2>8, <2>9, <2>10,
             <2>11, <2>12 DEF Call
<1>3. ASSUME NEW a \in Processes, Watcher(a) PROVE Keeps(b)
  <2>1. CASE \E p \in Proposals : Expire(a, p)
    BY <2>1, CountsFrame DEF Expire, Keeps, Reserved, Made
  <2>2. CASE \E p \in Proposals : WriteExpired(a, p)
    <3>1. Recoveries' = Recoveries
      BY <2>2, AppendCounts, CountsFrame DEF WriteExpired, Events, Resolution, Own
    <3> QED BY <2>2, <3>1 DEF WriteExpired, Keeps, Reserved, Made
  <2> QED BY <1>3, <2>1, <2>2 DEF Watcher
<1>4. CASE \E a \in Processes : StartCall(a)
  BY <1>4, CountsFrame DEF StartCall, Keeps, Reserved, Made, Fitting
<1>5. CASE \E a \in Processes : Stop(a)
  BY <1>5, CountsFrame DEF Stop, Keeps, Reserved, Made, TypeOK, ProcessOK
<1>6. CASE Tick
  BY <1>6, CountsFrame DEF Tick, Keeps, Reserved, Made
<1>7. CASE UNCHANGED vars
  BY <1>7, CountsFrame DEF vars, Keeps, Reserved, Made
<1>8. CASE \E a \in Processes : Raise(a)
  BY <1>8, CountsFrame DEF Raise, Keeps, Reserved, Made, Fitting, InCall,
     TypeOK, ProcessOK
<1> QED BY <1>1, <1>2, <1>3, <1>4, <1>5, <1>6, <1>7, <1>8 DEF Next

\* What the turn that is judged reserved is outstanding: step 7 counts it.
LEMMA ReservedOutstanding ==
  ASSUME TypeOK, PlaceInv, UntaggedInv, PromptInv, LoggedInv,
         NEW a \in Processes, pc[a] = "judge"
  PROVE  Reserved(a) \subseteq Outstanding
<1> SUFFICES ASSUME NEW p \in Reserved(a) PROVE p \in Outstanding
  OBVIOUS
<1>1. p \in rids[a] /\ Recoveries[p] = 0
  BY DEF Reserved, Made
<1>2. /\ p \in Proposals /\ p \in pending[a] /\ p \notin tagged
      /\ now < ts[p] + Window /\ Reservations[p] > 0
  BY <1>1 DEF PromptInv, UntaggedInv, LoggedInv, LoggedProposals, Turning
<1>3. Settled[p] = 0
  BY <1>1, <1>2 DEF PlaceInv, TableInv
<1>4. \A e \in Own : log[<<p, e>>] = 0
  <2>1. \A e \in Own : log[<<p, e>>] \in Nat
    BY <1>2 DEF TypeOK, LogOK, Events, Resolution
  <2>2. log[<<p, "committed">>] + log[<<p, "rolled_back">>]
          + log[<<p, "expired">>] = 0
    BY <1>2, <1>3 DEF Settled
  <2> QED BY <2>1, <2>2 DEF Own
<1>5. ~Resolved(p)
  <2>1. log[<<p, "recovered">>] = 0
    BY <1>1, <1>2 DEF Recoveries
  <2>2. \A e \in Resolution : ~(log[<<p, e>>] > 0)
    BY <1>4, <2>1 DEF Resolution
  <2> QED BY <1>2, <2>2 DEF Resolved
<1>6. now - ts[p] < Window
  BY <1>2, BudgetAssumption DEF TypeOK, LogOK
<1> QED BY <1>2, <1>5, <1>6 DEF Outstanding, Reservations

LEMMA OutstandingFinite ==
  ASSUME LoggedInv PROVE IsFiniteSet(Outstanding)
<1>1. Outstanding \in SUBSET LoggedProposals
  BY DEF Outstanding, LoggedProposals, Reservations
<1> QED BY <1>1, FS_Subset DEF LoggedInv

LEMMA ReservedFinite ==
  ASSUME LoggedInv, NEW a \in Processes PROVE IsFiniteSet(Reserved(a))
<1> DEFINE Old == {p \in rids[a] : Recoveries[p] = 0}
<1>1. Old \in SUBSET LoggedProposals
  BY DEF LoggedInv
<1>2. IsFiniteSet(Old)
  BY <1>1, FS_Subset DEF LoggedInv
<1>3. IsFiniteSet(Made(a))
  BY FS_EmptySet, FS_Singleton DEF Made
<1>4. Reserved(a) = Old \union Made(a)
  BY DEF Reserved
<1> HIDE DEF Old
<1> QED BY <1>2, <1>3, <1>4, FS_Union

LEMMA FitsStep ==
  ASSUME TypeOK, PlaceInv, TurnInv, [Next]_vars
  PROVE  ReservedFits'
<1> SUFFICES ASSUME NEW b \in Processes, pc'[b] \in Fitting, Reserved(b)' # {}
             PROVE  recorded' + Cardinality(Reserved(b)') <= Cap
  BY DEF ReservedFits
<1>1. CASE /\ pc[b] \in Fitting
           /\ recorded' = recorded /\ Reserved(b)' \subseteq Reserved(b)
  <2>1. IsFiniteSet(Reserved(b)) /\ Reserved(b)' \in SUBSET Reserved(b)
    BY <1>1, ReservedFinite DEF TurnInv
  <2>2. /\ Cardinality(Reserved(b)') <= Cardinality(Reserved(b))
        /\ IsFiniteSet(Reserved(b)')
    BY <2>1, FS_Subset
  <2>3. Cardinality(Reserved(b)') \in Nat /\ Cardinality(Reserved(b)) \in Nat
    BY <2>1, <2>2, FS_CardinalityType
  <2>4. recorded + Cardinality(Reserved(b)) <= Cap
    BY <1>1 DEF TurnInv, ReservedFits
  <2> QED BY <1>1, <2>2, <2>3, <2>4, BudgetAssumption DEF TypeOK, LogOK
<1>2. ASSUME NEW p \in Proposals, Allow(b, p)
      PROVE  recorded' + Cardinality(Reserved(b)') <= Cap
  <2>1. /\ pc[b] = "judge" /\ recorded' = recorded /\ Admits
        /\ rids' = rids /\ Recoveries' = Recoveries
        /\ pc'[b] = "create" /\ cur'[b] = p
    BY <1>2, CountsFrame DEF Allow, Goto, money, TypeOK, ProcessOK
  <2>2. Reserved(b)' = Reserved(b) \union {p}
    BY <2>1 DEF Reserved, Made
  <2>3. IsFiniteSet(Outstanding) /\ Reserved(b) \in SUBSET Outstanding
    BY <2>1, OutstandingFinite, ReservedOutstanding DEF TurnInv
  <2>4. /\ IsFiniteSet(Reserved(b))
        /\ Cardinality(Reserved(b)) <= Cardinality(Outstanding)
    BY <2>3, FS_Subset
  <2>5. Cardinality(Reserved(b)) \in Nat /\ Cardinality(Outstanding) \in Nat
    BY <2>3, <2>4, FS_CardinalityType
  <2>6. Cardinality(Reserved(b)') <= Cardinality(Reserved(b)) + 1
    <3>1. Cardinality(Reserved(b) \union {p}) =
            IF p \in Reserved(b) THEN Cardinality(Reserved(b))
            ELSE Cardinality(Reserved(b)) + 1
      BY <2>4, FS_AddElement
    <3> QED BY <2>2, <2>5, <3>1
  <2>7. Cardinality(Reserved(b)') \in Nat
    BY <2>2, <2>4, FS_AddElement, FS_CardinalityType
  <2> QED BY <2>1, <2>4, <2>5, <2>6, <2>7, BudgetAssumption DEF Admits, TypeOK, LogOK
<1> QED BY <1>1, <1>2, ReservedShrinks DEF TurnInv, Keeps

LEMMA TurnInit == Init => TurnInv
<1> SUFFICES ASSUME Init PROVE TurnInv
  OBVIOUS
<1>1. Reservations = [p \in Proposals |-> 0]
  BY DEF Init, Reservations, Events
<1>2. LoggedProposals = {}
  BY <1>1 DEF LoggedProposals
<1>3. LoggedInv
  BY <1>2, FS_EmptySet DEF Init, LoggedInv
<1>4. CallLockInv /\ UntaggedInv /\ PromptInv /\ ReservedFits
  BY DEF Init, CallLockInv, InCall, UntaggedInv, PromptInv, Turning, ReservedFits,
     Fitting
<1>5. UsedInv
  BY <1>1, NullAssumption DEF Init, UsedInv
<1> QED BY <1>3, <1>4, <1>5 DEF TurnInv

LEMMA TurnInvariance ==
  ASSUME PromptJudge PROVE Spec => []TurnInv
<1>1. TypeOK /\ PlaceInv /\ TurnInv /\ [Next]_vars => TurnInv'
  BY CallLockStep, UsedStep, UntaggedStep, PromptStep, LoggedStep, FitsStep DEF TurnInv
<1> QED BY <1>1, TurnInit, Invariance, PTL DEF Spec

\* A lone process has in its log what it admitted, and recovers nothing of it.
LEMMA WholeStep ==
  ASSUME \A a, b \in Processes : a = b, "append" \notin Failures, TypeOK, UsedInv, WholeInv, [Next]_vars
  PROVE  WholeInv'
<1> USE DEF clock, money, recov, call, table, Goto, Fault
<1>1. ASSUME NEW a \in Processes, Recover(a) PROVE WholeInv'
  <2>1. CASE Boot(a)
    BY <2>1, CountsFrame DEF Boot, NextPass, WholeInv, Fitting, InCall, TypeOK,
       ProcessOK
  <2>2. CASE Scan(a)
    BY <2>2, CountsFrame DEF Scan, WholeInv, Fitting, InCall
  <2>3. CASE \E p \in Proposals : Emit(a, p)
      BY <2>3, AppendCounts, CountsType DEF Emit, Events, Resolution, WholeInv,
         Fitting, InCall, UsedInv, TypeOK, LogOK
  <2>4. CASE Booted(a)
    BY <2>4, CountsFrame DEF Booted, NextPass, WholeInv, Fitting, InCall, TypeOK,
       ProcessOK
  <2>5. CASE \E p \in Proposals : EmitFails(a, p)
    BY <2>5, AppendCounts, CountsFrame, CountsType DEF EmitFails, NextPass,
       Events, Resolution, WholeInv, Made, Fitting, InCall, UsedInv, TypeOK,
       LogOK, ProcessOK
  <2> QED BY <1>1, <2>1, <2>2, <2>3, <2>4, <2>5 DEF Recover
<1>2. ASSUME NEW a \in Processes, Call(a) PROVE WholeInv'
  <2>1. CASE \E S \in SUBSET Proposals : StartTurn(a, S)
    BY <2>1, CountsFrame DEF StartTurn, WholeInv, Made, TypeOK, ProcessOK
  <2>2. CASE \E p \in Proposals : Allow(a, p)
    BY <2>2, CountsFrame DEF Allow, WholeInv, Fitting, InCall, Made, TypeOK, ProcessOK
  <2>3. CASE \E p \in Proposals : Block(a, p)
    BY <2>3, CountsFrame DEF Block, WholeInv, Made
  <2>4. CASE \E p \in Proposals : Execute(a, p)
    BY <2>4, CountsFrame DEF Execute, WholeInv, Fitting, InCall, Made, TypeOK, ProcessOK
  <2>5. CASE Create(a)
    BY <2>5, CountsFrame DEF Create, WholeInv, Fitting, InCall, Made
  <2>6. CASE AppendReservation(a)
    <3>1. cur[a] \in Proposals
      BY <2>6 DEF AppendReservation, TypeOK, ProcessOK
    <3>2. Recoveries' = Recoveries
      BY <2>6, <3>1, AppendCounts DEF AppendReservation, Events
    <3> QED BY <2>6, <3>1, <3>2 DEF AppendReservation, WholeInv, Fitting, InCall, Made,
               TypeOK, ProcessOK
  <2>7. CASE Judged(a)
    BY <2>7, CountsFrame DEF Judged, WholeInv, Fitting, InCall, Made
  <2>8. CASE Resolve(a)
    BY <2>8, CountsFrame DEF Resolve, WholeInv, Fitting, InCall, Made, TypeOK, ProcessOK
  <2>9. CASE WriteResolution(a)
    <3>1. cur[a] \in Proposals /\ outcome[a] \in Own
      BY <2>9 DEF WriteResolution, TypeOK, ProcessOK, Own
    <3>2. Recoveries' = Recoveries
      BY <2>9, <3>1, AppendCounts DEF WriteResolution, Events, Resolution, Own
    <3> QED BY <2>9, <3>2 DEF WriteResolution, WholeInv, Fitting, InCall, Made
  <2>10. CASE EndTurn(a)
    BY <2>10, CountsFrame DEF EndTurn, WholeInv, Fitting, TypeOK, ProcessOK
  <2>11. CASE EndCall(a)
    BY <2>11, CountsFrame DEF EndCall, WholeInv, Fitting, InCall
  <2>12. CASE \E p \in Proposals : Deny(a, p)
    BY <2>12, CountsFrame DEF Deny, WholeInv, Fitting, InCall, Made, TypeOK,
       ProcessOK
  <2> QED BY <1>2, <2>1, <2>2, <2>3, <2>4, <2>5, <2>6, <2>7, <2>8, <2>9, <2>10,
             <2>11, <2>12 DEF Call
<1>3. ASSUME NEW a \in Processes, Watcher(a) PROVE WholeInv'
  <2>1. CASE \E p \in Proposals : Expire(a, p)
    BY <2>1, CountsFrame DEF Expire, WholeInv, Made
  <2>2. CASE \E p \in Proposals : WriteExpired(a, p)
    <3>1. Recoveries' = Recoveries
      BY <2>2, AppendCounts DEF WriteExpired, Events, Resolution, Own
    <3> QED BY <2>2, <3>1 DEF WriteExpired, WholeInv, Made
  <2> QED BY <1>3, <2>1, <2>2 DEF Watcher
<1>4. CASE \E a \in Processes : StartCall(a)
  BY <1>4, CountsFrame DEF StartCall, WholeInv, Fitting, TypeOK, ProcessOK
<1>5. CASE \E a \in Processes : Stop(a)
  BY <1>5, CountsFrame DEF Stop, WholeInv, Made, TypeOK, ProcessOK
<1>6. CASE Tick
  BY <1>6, CountsFrame DEF Tick, WholeInv, Made
<1>7. CASE UNCHANGED vars
  BY <1>7, CountsFrame DEF vars, WholeInv, Made
<1>8. CASE \E a \in Processes : Raise(a)
  BY <1>8, CountsFrame DEF Raise, WholeInv, Fitting, InCall, Made, TypeOK,
     ProcessOK
<1> QED BY <1>1, <1>2, <1>3, <1>4, <1>5, <1>6, <1>7, <1>8 DEF Next

\* What the admitted actions of a turn reserved fits under what the cap leaves,
\* as long as no recovery resolved the reservation and its event was appended:
\* for any number of processes and any failures, if a turn is judged within
\* the TTL of the watcher and within the window that compute_outstanding
\* counts a reservation for, whichever of the two is shorter.
THEOREM ReservationsFit ==
  ASSUME PromptJudge PROVE Spec => []ReservedFits
<1>1. TurnInv => ReservedFits
  BY DEF TurnInv
<1> QED BY <1>1, TurnInvariance, PTL

\* spec/29, stale-budget race: one process never admits more in a turn than
\* the cap leaves, when every reservation can be appended and a turn is judged
\* within the TTL and the window.  A second process (its recovery) or a lost
\* event breaks it.
THEOREM OneProcessFits ==
  ASSUME PromptJudge, "append" \notin Failures, \A a, b \in Processes : a = b
  PROVE  Spec => []TurnFits
<1>1. Init => WholeInv
  BY DEF Init, WholeInv, Fitting, InCall, Recoveries, Events, Resolution
<1>2. TypeOK /\ TurnInv /\ WholeInv /\ [Next]_vars => WholeInv'
  BY WholeStep DEF TurnInv
<1>3. TurnInv /\ WholeInv => TurnFits
  <2> SUFFICES ASSUME TurnInv, WholeInv, NEW a \in Processes,
                      admitted[a] # {}, pc[a] \in {"judge", "create", "append", "run"}
               PROVE  recorded + Cardinality(admitted[a]) <= Cap
    BY DEF TurnFits
  <2>1. pc[a] \in Fitting
    BY DEF Fitting, InCall
  <2>2. admitted[a] = Reserved(a)
    BY <2>1 DEF WholeInv, Reserved
  <2> QED BY <2>1, <2>2 DEF TurnInv, ReservedFits
<1> QED BY <1>1, <1>2, <1>3, TurnInvariance, Invariance, PTL DEF Spec

=============================================================================
