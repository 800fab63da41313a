------------------------------ MODULE LeaseLock ------------------------------
(***************************************************************************)
(* The lease-backed lock (locks/redis.py): one key in Redis with a TTL,    *)
(* processes that acquire and release it, and the heartbeat thread of each *)
(* acquisition, which renews the key or flags the loss.  One evaluation of *)
(* a command or of a Lua script by Redis is one step; a thread may be      *)
(* delayed between two steps.  Times count down, in ticks.                 *)
(***************************************************************************)
EXTENDS Naturals

CONSTANTS
  Holders,   \* processes that acquire the lock
  Tokens,    \* lease tokens; one is drawn again only when nothing knows it
  Ttl,       \* lease_ttl_seconds, in ticks
  Beat,      \* heartbeat_interval_seconds, in ticks
  Second,    \* ticks per second: Redis takes whole seconds
  None       \* no token, no key

\* What the constructor checks of its arguments.
ASSUME ConstructorAssumption ==
  /\ Ttl \in Nat /\ Beat \in Nat \ {0} /\ Second \in Nat \ {0}
  /\ Ttl >= Second /\ Ttl > Beat
ASSUME LockAssumption == None \notin Tokens

VARIABLES
  key,    \* the token stored under the lock key
  left,   \* ticks until Redis drops the key
  pc,     \* holder: "idle", "granted", "work", "stop"
  tok,    \* holder: the token of its handle
  hb,     \* token: its heartbeat thread, "off", "sleep" or "renew"
  wait,   \* token: ticks until the thread wakes up
  lost,   \* token: has the thread set state.lock_lost?
  late    \* history: was any thread ever late by a tick?

vars == <<key, left, pc, tok, hb, wait, lost, late>>

\* ttl_int = max(1, int(lease_ttl_seconds)), back in ticks.
RedisTtl ==
  LET s == Ttl \div Second IN (IF s < 1 THEN 1 ELSE s) * Second

TypeOK ==
  /\ key \in Tokens \union {None} /\ left \in 0..RedisTtl
  /\ pc \in [Holders -> {"idle", "granted", "work", "stop"}]
  /\ tok \in [Holders -> Tokens \union {None}]
  /\ hb \in [Tokens -> {"off", "sleep", "renew"}]
  /\ wait \in [Tokens -> 0..Beat]
  /\ lost \in [Tokens -> BOOLEAN] /\ late \in BOOLEAN
  /\ key = None <=> left = 0
  /\ \A h \in Holders : pc[h] = "idle" <=> tok[h] = None

Init ==
  /\ key = None /\ left = 0
  /\ pc = [h \in Holders |-> "idle"]
  /\ tok = [h \in Holders |-> None]
  /\ hb = [t \in Tokens |-> "off"]
  /\ wait = [t \in Tokens |-> 0]
  /\ lost = [t \in Tokens |-> FALSE] /\ late = FALSE
-----------------------------------------------------------------------------
\* Some holder still has the handle of t and has not set its stop_event.
Running(t) == \E h \in Holders : tok[h] = t /\ pc[h] \in {"granted", "work"}

Drop(h) == pc' = [pc EXCEPT ![h] = "idle"] /\ tok' = [tok EXCEPT ![h] = None]

\* Bug variant of Acquire: SET without NX.
Acquire_Overwrites(h, t) ==
  /\ pc[h] = "idle"
  /\ hb[t] = "off" /\ \A g \in Holders : tok[g] # t
  /\ key' = t /\ left' = RedisTtl
  /\ tok' = [tok EXCEPT ![h] = t]
  /\ pc' = [pc EXCEPT ![h] = "granted"]
  /\ lost' = [lost EXCEPT ![t] = FALSE]
  /\ UNCHANGED <<hb, wait, late>>

\* acquire: SET key token NX EX ttl.  A refused attempt changes nothing, and
\* _held refuses a second acquire of the same process.
Acquire(h, t) ==
  /\ pc[h] = "idle"
  /\ key = None
  /\ hb[t] = "off" /\ \A g \in Holders : tok[g] # t
  /\ key' = t /\ left' = RedisTtl
  /\ tok' = [tok EXCEPT ![h] = t]
  /\ pc' = [pc EXCEPT ![h] = "granted"]
  /\ lost' = [lost EXCEPT ![t] = FALSE]
  /\ UNCHANGED <<hb, wait, late>>

\* heartbeat_thread.start(), and acquire returns the handle.
StartHeartbeat(h) ==
  /\ pc[h] = "granted"
  /\ hb' = [hb EXCEPT ![tok[h]] = "sleep"]
  /\ wait' = [wait EXCEPT ![tok[h]] = Beat]
  /\ pc' = [pc EXCEPT ![h] = "work"]
  /\ UNCHANGED <<key, left, tok, lost, late>>

\* stop_event.wait(timeout) returns False.
Wake(t) ==
  /\ hb[t] = "sleep" /\ wait[t] = 0
  /\ hb' = [hb EXCEPT ![t] = "renew"]
  /\ UNCHANGED <<key, left, pc, tok, wait, lost, late>>

\* Bug variants of Renew: the TTL is not made whole; the loss is not flagged;
\* the thread never looks at its stop_event.
Renew_RawTtl(t) ==
  /\ hb[t] = "renew" /\ key = t
  /\ left' = Ttl
  /\ hb' = [hb EXCEPT ![t] = "sleep"] /\ wait' = [wait EXCEPT ![t] = Beat]
  /\ UNCHANGED <<key, pc, tok, lost, late>>

Renew_SilentLoss(t) ==
  /\ hb[t] = "renew"
  /\ hb' = [hb EXCEPT ![t] = IF key = t THEN "sleep" ELSE "off"]
  /\ wait' = [wait EXCEPT ![t] = Beat]
  /\ left' = IF key = t THEN RedisTtl ELSE left
  /\ UNCHANGED <<key, pc, tok, lost, late>>

Renew_Forever(t) ==
  /\ hb[t] = "renew" /\ key = t
  /\ left' = RedisTtl
  /\ hb' = [hb EXCEPT ![t] = "sleep"] /\ wait' = [wait EXCEPT ![t] = Beat]
  /\ UNCHANGED <<key, pc, tok, lost, late>>

\* _RENEW_SCRIPT and what _heartbeat_loop makes of its answer.  The loop ends
\* when the stop_event was set in the meantime.
Renew(t) ==
  /\ hb[t] = "renew"
  /\ IF key = t
     THEN /\ left' = RedisTtl
          /\ hb' = [hb EXCEPT ![t] = IF Running(t) THEN "sleep" ELSE "off"]
          /\ wait' = [wait EXCEPT ![t] = IF Running(t) THEN Beat ELSE 0]
          /\ lost' = lost
     ELSE /\ lost' = [lost EXCEPT ![t] = TRUE]
          /\ hb' = [hb EXCEPT ![t] = "off"]
          /\ UNCHANGED <<left, wait>>
  /\ UNCHANGED <<key, pc, tok, late>>

\* Redis is unreachable: treated as lost, and the key stays until it expires.
RenewFails(t) ==
  /\ hb[t] = "renew"
  /\ lost' = [lost EXCEPT ![t] = TRUE]
  /\ hb' = [hb EXCEPT ![t] = "off"]
  /\ UNCHANGED <<key, left, pc, tok, wait, late>>

\* renew: the same script on behalf of the holder, whenever it likes.
ManualRenew(h) ==
  /\ pc[h] = "work" /\ key = tok[h]
  /\ left' = RedisTtl
  /\ UNCHANGED <<key, pc, tok, hb, wait, lost, late>>

\* release, and check_lock_lost, which ends in it: set the stop_event, which
\* ends a thread that sleeps; one inside the script finishes it.
Stop(h) ==
  /\ pc[h] = "work"
  /\ pc' = [pc EXCEPT ![h] = "stop"]
  /\ hb' = [hb EXCEPT ![tok[h]] = IF @ = "sleep" THEN "off" ELSE @]
  /\ UNCHANGED <<key, left, tok, wait, lost, late>>

CheckLost(h) == pc[h] = "work" /\ lost[tok[h]] /\ Stop(h)

\* Bug variant of Release: DEL without the token check.
Release_AnyToken(h) ==
  /\ pc[h] = "stop"
  /\ key' = None /\ left' = 0
  /\ Drop(h)
  /\ UNCHANGED <<hb, wait, lost, late>>

\* _RELEASE_SCRIPT: delete the key if it still holds the token.
Release(h) ==
  /\ pc[h] = "stop"
  /\ IF key = tok[h] THEN key' = None /\ left' = 0 ELSE UNCHANGED <<key, left>>
  /\ Drop(h)
  /\ UNCHANGED <<hb, wait, lost, late>>

\* Redis is unreachable: logged, the TTL will do it.
ReleaseFails(h) ==
  /\ pc[h] = "stop"
  /\ Drop(h)
  /\ UNCHANGED <<key, left, hb, wait, lost, late>>

\* The process dies, and its daemon threads with it.
Crash(h) ==
  /\ pc[h] # "idle"
  /\ Drop(h)
  /\ hb' = [hb EXCEPT ![tok[h]] = "off"]
  /\ UNCHANGED <<key, left, wait, lost, late>>

\* Some thread has had something to do for a whole tick.
Overdue ==
  \/ \E h \in Holders : pc[h] = "granted"
  \/ \E t \in Tokens : hb[t] = "renew" \/ (hb[t] = "sleep" /\ wait[t] = 0)

\* One tick: Redis drops a key whose TTL ran out, threads sleep on.
Tick ==
  /\ left' = IF left = 0 THEN 0 ELSE left - 1
  /\ key' = IF left <= 1 THEN None ELSE key
  /\ wait' = [t \in Tokens |-> IF wait[t] = 0 THEN 0 ELSE wait[t] - 1]
  /\ late' = (late \/ Overdue)
  /\ UNCHANGED <<pc, tok, hb, lost>>

Hold(h) ==
  StartHeartbeat(h) \/ CheckLost(h) \/ Release(h) \/ ReleaseFails(h)

Heartbeat(t) == Wake(t) \/ Renew(t) \/ RenewFails(t)

Next ==
  \/ \E h \in Holders : \/ \E t \in Tokens : Acquire(h, t)
                        \/ Hold(h) \/ ManualRenew(h) \/ Stop(h) \/ Crash(h)
  \/ \E t \in Tokens : Heartbeat(t)
  \/ Tick

Spec == Init /\ [][Next]_vars

\* Threads that run go on, and the work of a holder reaches its next
\* check_lock_lost; time passes.
FairSpec ==
  /\ Spec /\ WF_vars(Tick)
  /\ \A h \in Holders : WF_vars(Hold(h))
  /\ \A t \in Tokens : WF_vars(Heartbeat(t))
-----------------------------------------------------------------------------
\* spec/21: as long as no thread is late, a holder that has not been told of a
\* loss has the lock.  (So no two processes work under it.)
HolderHasKey ==
  ~late =>
    \A h \in Holders : pc[h] = "work" /\ ~lost[tok[h]] => key = tok[h]

\* spec/21 implementer contract 4: a key leaves Redis only when its own TTL
\* runs out or its own holder releases it, and only its own holder or that
\* one's heartbeat extends it, however late a former holder releases or renews.
SuccessorSafe ==
  [][key # None =>
       /\ key' # key => \/ left = 1
                        \/ \E h \in Holders : tok[h] = key /\ pc[h] = "stop"
       /\ left' > left => \/ hb[key] = "renew"
                          \/ \E h \in Holders : tok[h] = key /\ pc[h] = "work"]_vars

\* A holder that lost the key stops working, however late its heartbeat.
LostHolderStops ==
  \A h \in Holders : \A t \in Tokens :
    pc[h] = "work" /\ tok[h] = t /\ key # t ~> tok[h] # t \/ pc[h] = "stop"

\* The lock of a process that died, or could not reach Redis, becomes free.
OrphanFreed ==
  \A t \in Tokens : key = t /\ (\A h \in Holders : tok[h] # t) ~> key # t
=============================================================================
