------------------------------ MODULE WorkItem ------------------------------
(***************************************************************************)
(* What the queue promises about one work item, whatever the storage: the  *)
(* state vocabulary of spec/06 (pending, in_progress, completed,           *)
(* dead_letter) with the recovered state of spec/44, one atomic transition *)
(* per Protocol operation.  A pending item is taken once; completed and    *)
(* dead-lettered work is final; only a pending item can be superseded.     *)
(***************************************************************************)
CONSTANTS Jobs, NameOf

VARIABLE state

States == {"absent", "pending", "superseded", "in_progress", "recovered",
           "completed", "dead_letter"}

TypeOK == state \in [Jobs -> States]

Init == state = [j \in Jobs |-> "absent"]

\* enqueue: the newest payload of a name replaces the pending one.
Enqueue(j) ==
  /\ state[j] = "absent"
  /\ state' = [k \in Jobs |->
       IF k = j THEN "pending"
       ELSE IF state[k] = "pending" /\ NameOf[k] = NameOf[j] THEN "superseded"
       ELSE state[k]]

Step(j, from, to) ==
  /\ state[j] \in from
  /\ state' = [state EXCEPT ![j] = to]

Claim(j)      == Step(j, {"pending"}, "in_progress")
Recover(j)    == Step(j, {"in_progress"}, "recovered")
Release(j)    == Step(j, {"in_progress", "recovered"}, "completed")
DeadLetter(j) == Step(j, {"in_progress", "recovered"}, "dead_letter")

Next == \E j \in Jobs :
  Enqueue(j) \/ Claim(j) \/ Recover(j) \/ Release(j) \/ DeadLetter(j)

Spec == Init /\ [][Next]_state
=============================================================================
