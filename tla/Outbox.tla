--------------------------------- MODULE Outbox ---------------------------------
(***************************************************************************)
(* What the two job tables promise to who puts a job into them (AD-13): it   *)
(* is tried until the receiver has it or it is given up as a dead letter;    *)
(* it may arrive more than once, is called delivered only if it did arrive,  *)
(* and that is final; a dead letter may be sent again.                      *)
(* JobQueue implements it where one instance works on the queue.            *)
(***************************************************************************)
CONSTANT Jobs
VARIABLES
  state,    \* job -> "absent", "waiting", "delivered", "dead"
  arrived   \* jobs the receiver has

vars == <<state, arrived>>

Init == state = [j \in Jobs |-> "absent"] /\ arrived = [j \in Jobs |-> FALSE]

Becomes(j, from, to) == state[j] = from /\ state' = [state EXCEPT ![j] = to]

Submit(j)  == Becomes(j, "absent", "waiting") /\ UNCHANGED arrived
Arrive(j)  == /\ state[j] = "waiting"
              /\ arrived' = [arrived EXCEPT ![j] = TRUE] /\ UNCHANGED state
Confirm(j) == Becomes(j, "waiting", "delivered") /\ arrived[j] /\ UNCHANGED arrived
GiveUp(j)  == Becomes(j, "waiting", "dead") /\ UNCHANGED arrived
Resend(j)  == Becomes(j, "dead", "waiting") /\ UNCHANGED arrived

Next == \E j \in Jobs : Submit(j) \/ Arrive(j) \/ Confirm(j) \/ GiveUp(j) \/ Resend(j)
Spec == Init /\ [][Next]_vars
=============================================================================
