--------------------------- MODULE LeaseLockProofs ---------------------------
(***************************************************************************)
(* Theorems about LeaseLock, for any number of processes and any TTL.      *)
(*                                                                         *)
(* HolderHasKey needs an assumption that the code does not check: that the *)
(* heartbeat is shorter than the TTL that Redis gets, in whole seconds.    *)
(* As long as no thread was late, the heartbeat of a holder that was not   *)
(* told of a loss then wakes up before its key expires.                    *)
(***************************************************************************)
EXTENDS LeaseLock, TLAPS

LEMMA RedisTtlPositive == RedisTtl \in Nat \ {0}
<1> DEFINE s == Ttl \div Second
           n == IF s < 1 THEN 1 ELSE s
<1>1. s \in Nat
  BY ConstructorAssumption
<1>2. n \in Nat /\ n >= 1
  BY <1>1
<1>3. n * Second \in Nat /\ n * Second >= 1
  BY <1>2, ConstructorAssumption
<1> QED BY <1>3 DEF RedisTtl

LEMMA InitType == Init => TypeOK
<1> SUFFICES ASSUME Init PROVE TypeOK
  OBVIOUS
<1>1. /\ key \in Tokens \union {None} /\ left \in 0..RedisTtl
      /\ key = None <=> left = 0
  BY RedisTtlPositive DEF Init
<1>2. wait \in [Tokens -> 0..Beat]
  BY ConstructorAssumption DEF Init
<1>3. lost \in [Tokens -> BOOLEAN] /\ late \in BOOLEAN
  BY DEF Init
<1> QED BY <1>1, <1>2, <1>3 DEF Init, TypeOK

LEMMA TypeStep ==
  ASSUME TypeOK, [Next]_vars
  PROVE  TypeOK'
<1> USE RedisTtlPositive, ConstructorAssumption, LockAssumption DEF TypeOK
<1>1. ASSUME NEW h \in Holders, NEW t \in Tokens, Acquire(h, t) PROVE TypeOK'
  BY <1>1 DEF Acquire
<1>2. ASSUME NEW h \in Holders, StartHeartbeat(h) PROVE TypeOK'
  BY <1>2 DEF StartHeartbeat
<1>3. ASSUME NEW h \in Holders, Stop(h) PROVE TypeOK'
  BY <1>3 DEF Stop
<1>4. ASSUME NEW h \in Holders, Release(h) PROVE TypeOK'
  BY <1>4 DEF Release, Drop
<1>5. ASSUME NEW h \in Holders, ReleaseFails(h) PROVE TypeOK'
  BY <1>5 DEF ReleaseFails, Drop
<1>6. ASSUME NEW h \in Holders, Crash(h) PROVE TypeOK'
  BY <1>6 DEF Crash, Drop
<1>7. ASSUME NEW t \in Tokens, Heartbeat(t) PROVE TypeOK'
  <2>1. CASE Wake(t)
    BY <2>1 DEF Wake
  <2>2. CASE Renew(t)
    <3>1. CASE key = t
      <4>1. left' = RedisTtl /\ key' = key /\ UNCHANGED <<pc, tok, lost, late>>
        BY <2>2, <3>1 DEF Renew
      <4>2. PICK b \in {"sleep", "off"} : hb' = [hb EXCEPT ![t] = b]
        BY <2>2, <3>1 DEF Renew
      <4>3. PICK n \in {Beat, 0} : wait' = [wait EXCEPT ![t] = n]
        BY <2>2, <3>1 DEF Renew
      <4>4. n \in 0..Beat
        BY <4>3
      <4> QED BY <3>1, <4>1, <4>2, <4>3, <4>4
    <3>2. CASE key # t
      BY <2>2, <3>2 DEF Renew
    <3> QED BY <3>1, <3>2
  <2>3. CASE RenewFails(t)
    BY <2>3 DEF RenewFails
  <2> QED BY <1>7, <2>1, <2>2, <2>3 DEF Heartbeat
<1>8. CASE Tick
  <2>1. left' \in 0..RedisTtl /\ key' \in Tokens \union {None}
        /\ (key' = None <=> left' = 0)
    BY <1>8 DEF Tick
  <2>2. wait' \in [Tokens -> 0..Beat]
    BY <1>8 DEF Tick
  <2> QED BY <1>8, <2>1, <2>2 DEF Tick
<1>9. ASSUME NEW h \in Holders, ManualRenew(h) PROVE TypeOK'
  BY <1>9 DEF ManualRenew
<1>10. CASE UNCHANGED vars
  BY <1>10 DEF vars
<1> QED
  BY <1>1, <1>2, <1>3, <1>4, <1>5, <1>6, <1>7, <1>8, <1>9, <1>10
     DEF Next, Hold, CheckLost

\* Every variable keeps its type, whatever the timing.
THEOREM TypeCorrect == Spec => []TypeOK
  BY InitType, TypeStep, PTL DEF Spec
-----------------------------------------------------------------------------
\* Two handles never carry the same token.
OwnToken ==
  \A g, h \in Holders : tok[g] = tok[h] /\ tok[h] # None => g = h

\* A new holder has a whole TTL; a working one has a heartbeat that wakes up
\* before the key expires.
InTime ==
  ~late => \A h \in Holders :
    /\ pc[h] = "granted" => /\ key = tok[h] /\ left = RedisTtl
                            /\ ~lost[tok[h]] /\ hb[tok[h]] = "off"
    /\ pc[h] = "work" /\ ~lost[tok[h]] =>
         /\ key = tok[h] /\ hb[tok[h]] # "off"
         /\ wait[tok[h]] < left

Inv == TypeOK /\ OwnToken /\ InTime

LEMMA InvStep ==
  ASSUME Beat < RedisTtl, Inv, [Next]_vars
  PROVE  Inv'
<1>1. TypeOK'
  BY TypeStep DEF Inv
<1> USE <1>1, RedisTtlPositive, ConstructorAssumption, LockAssumption
        DEF Inv, TypeOK, OwnToken, InTime
<1>2. ASSUME NEW h \in Holders, NEW t \in Tokens, Acquire(h, t) PROVE Inv'
  BY <1>2 DEF Acquire
<1>3. ASSUME NEW h \in Holders, StartHeartbeat(h) PROVE Inv'
  BY <1>3 DEF StartHeartbeat
<1>4. ASSUME NEW h \in Holders, Stop(h) PROVE Inv'
  BY <1>4 DEF Stop
<1>5. ASSUME NEW h \in Holders, Release(h) PROVE Inv'
  BY <1>5 DEF Release, Drop
<1>6. ASSUME NEW h \in Holders, ReleaseFails(h) PROVE Inv'
  BY <1>6 DEF ReleaseFails, Drop
<1>7. ASSUME NEW h \in Holders, Crash(h) PROVE Inv'
  BY <1>7 DEF Crash, Drop
<1>8. ASSUME NEW t \in Tokens, Wake(t) PROVE Inv'
  BY <1>8 DEF Wake
<1>9. ASSUME NEW t \in Tokens, Renew(t) PROVE Inv'
  <2>1. UNCHANGED <<key, pc, tok, late>>
    BY <1>9 DEF Renew
  <2>2. CASE key = t
    <3>1. left' = RedisTtl /\ lost' = lost
      BY <1>9, <2>2 DEF Renew
    <3>2. ASSUME ~late, NEW h \in Holders, pc[h] = "work", ~lost[tok[h]]
          PROVE  hb'[tok[h]] # "off" /\ wait'[tok[h]] < RedisTtl
      <4>1. tok[h] = t /\ Running(t)
        BY <2>2, <3>2 DEF Running
      <4>2. /\ hb' = [hb EXCEPT ![t] = "sleep"]
            /\ wait' = [wait EXCEPT ![t] = Beat]
        BY <1>9, <2>2, <4>1 DEF Renew
      <4> QED BY <4>1, <4>2
    <3> QED BY <1>9, <2>1, <2>2, <3>1, <3>2 DEF Renew
  <2>3. CASE key # t
    BY <1>9, <2>3 DEF Renew
  <2> QED BY <2>2, <2>3
<1>10. ASSUME NEW t \in Tokens, RenewFails(t) PROVE Inv'
  BY <1>10 DEF RenewFails
<1>11. CASE Tick
  <2>1. OwnToken' /\ (~late' => ~late /\ ~Overdue)
    BY <1>11 DEF Tick
  <2>2. ASSUME ~late', NEW h \in Holders, pc[h] = "work", ~lost[tok[h]]
        PROVE  key' = tok[h] /\ wait'[tok[h]] < left'
    <3>1. tok[h] \in Tokens /\ key = tok[h] /\ hb[tok[h]] = "sleep"
      BY <2>1, <2>2 DEF Overdue
    <3>2. wait[tok[h]] \in Nat \ {0} /\ wait[tok[h]] < left /\ left \in Nat
      BY <2>1, <2>2, <3>1 DEF Overdue
    <3>3. wait'[tok[h]] = wait[tok[h]] - 1 /\ left' = left - 1 /\ key' = key
      BY <1>11, <3>1, <3>2 DEF Tick
    <3> QED BY <3>1, <3>2, <3>3
  <2> QED BY <1>11, <2>1, <2>2 DEF Tick, Overdue
<1>12. ASSUME NEW h \in Holders, ManualRenew(h) PROVE Inv'
  BY <1>12 DEF ManualRenew
<1>13. CASE UNCHANGED vars
  BY <1>13 DEF vars
<1> QED
  BY <1>2, <1>3, <1>4, <1>5, <1>6, <1>7, <1>8, <1>9, <1>10, <1>11, <1>12,
     <1>13
     DEF Next, Hold, CheckLost, Heartbeat

\* A holder that was not told of a loss has the lock, for any TTL and any
\* number of processes, until a thread is late, if the heartbeat is shorter
\* than the whole-second TTL.
THEOREM HolderKeepsKey ==
  ASSUME Beat < RedisTtl
  PROVE  Spec => []HolderHasKey
<1>1. Init => Inv
  BY InitType DEF Init, Inv, OwnToken, InTime
<1>2. Inv /\ [Next]_vars => Inv'
  BY InvStep
<1>3. Inv => HolderHasKey
  BY DEF Inv, InTime, HolderHasKey
<1> QED BY <1>1, <1>2, <1>3, PTL DEF Spec
-----------------------------------------------------------------------------
\* What one step may do to the key while somebody has it.
KeySafe ==
  key # None =>
    /\ key' # key => \/ left = 1
                     \/ \E h \in Holders : tok[h] = key /\ pc[h] = "stop"
    /\ left' > left => \/ hb[key] = "renew"
                       \/ \E h \in Holders : tok[h] = key /\ pc[h] = "work"

\* Acquire finds no key; only Release and Tick touch the key, only Renew and
\* ManualRenew its TTL, and each of them looks at the token that is stored.
LEMMA KeyStep ==
  ASSUME TypeOK, [Next]_vars
  PROVE  [KeySafe]_vars
<1> SUFFICES ASSUME key # None PROVE KeySafe
  BY DEF KeySafe
<1>1. left \in Nat \ {0}
  BY RedisTtlPositive DEF TypeOK
<1>2. CASE UNCHANGED <<key, left>>
  BY <1>1, <1>2 DEF KeySafe
<1>3. ASSUME NEW h \in Holders, Release(h) PROVE KeySafe
  <2>1. CASE key = tok[h]
    BY <1>1, <1>3, <2>1 DEF Release, KeySafe
  <2>2. CASE key # tok[h]
    BY <1>2, <1>3, <2>2 DEF Release
  <2> QED BY <2>1, <2>2
<1>4. ASSUME NEW t \in Tokens, Renew(t) PROVE KeySafe
  <2>1. CASE key = t
    BY <1>4, <2>1 DEF Renew, KeySafe
  <2>2. CASE key # t
    BY <1>2, <1>4, <2>2 DEF Renew
  <2> QED BY <2>1, <2>2
<1>5. ASSUME NEW h \in Holders, ManualRenew(h) PROVE KeySafe
  BY <1>5 DEF ManualRenew, KeySafe
<1>6. CASE Tick
  <2>1. left' = left - 1 /\ (key' # key => left = 1)
    BY <1>1, <1>6 DEF Tick
  <2> QED BY <1>1, <2>1 DEF KeySafe
<1>7. ASSUME NEW h \in Holders, NEW t \in Tokens PROVE ~Acquire(h, t)
  BY DEF Acquire
<1> QED
  BY <1>2, <1>3, <1>4, <1>5, <1>6, <1>7
     DEF Next, Hold, Heartbeat, StartHeartbeat, Stop, CheckLost, ReleaseFails,
         Crash, Wake, RenewFails, vars

\* A former holder cannot take the key from its successor or extend it, for
\* any TTL and heartbeat and however late the former holder's threads are.
THEOREM SuccessorKeepsKey == Spec => SuccessorSafe
<1>1. TypeOK /\ [Next]_vars => [KeySafe]_vars
  BY KeyStep
<1> QED BY <1>1, TypeCorrect, PTL DEF Spec, SuccessorSafe, KeySafe
=============================================================================
