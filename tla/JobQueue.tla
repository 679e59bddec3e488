------------------------------- MODULE JobQueue -------------------------------
(***************************************************************************)
(* The Postgres job queues of modules/notifications: webhook_deliveries,    *)
(* worked by WebhookWorker, and email_queue, worked by EmailWorker (the     *)
(* same machine without the configuration check and without requeue).       *)
(*                                                                         *)
(* A worker is one process (an instance of the server): its ticks do not    *)
(* overlap, the ticks of two workers do.  A tick claims a batch in one      *)
(* statement and then delivers it job by job; every statement that records  *)
(* an outcome is WHERE id = $1 alone, with the number of attempts the claim *)
(* returned.  The clock is abstracted to what the claim reads of it: due    *)
(* (next_attempt_at reached) and stale (locked_at older than 5 minutes).    *)
(***************************************************************************)
EXTENDS Naturals, FiniteSets

CONSTANTS
  Jobs,          \* row ids, in the order of created_at
  Workers,
  Batch,         \* BATCH
  MaxAttempts,   \* MAX_ATTEMPTS
  Webhook,       \* TRUE for webhook_deliveries, FALSE for email_queue
  None,
  MaxStops       \* bound: workers that stop in the middle of a tick

ASSUME QueueAssumption ==
  /\ Jobs \subseteq Nat /\ Webhook \in BOOLEAN
  /\ Batch \in Nat \ {0} /\ MaxAttempts \in Nat \ {0} /\ MaxStops \in Nat
  /\ None \notin [job: Jobs, tries: Nat]

VARIABLES
  status, attempts, due, stale,   \* the rows
  phase, batch, task,             \* the workers
  posts,     \* history: deliveries tried since enqueue or requeue
  accepted,  \* history: the receiver accepted the job
  overran,   \* history: a lock on the job went stale
  stops

rowVars    == <<status, attempts, due, stale>>
workerVars == <<phase, batch, task>>
history    == <<posts, accepted, overran, stops>>
vars == <<rowVars, workerVars, history>>

Task == [job: Jobs, tries: Nat]   \* what the claim returns of a row

TypeOK ==
  /\ status \in [Jobs -> {"absent", "pending", "sending", "done", "failed"}]
  /\ attempts \in [Jobs -> Nat] /\ posts \in [Jobs -> Nat]
  /\ due \in [Jobs -> BOOLEAN] /\ stale \in [Jobs -> BOOLEAN]
  /\ accepted \in [Jobs -> BOOLEAN] /\ overran \in [Jobs -> BOOLEAN]
  /\ phase \in [Workers -> {"idle", "pick", "check", "post", "ok", "err"}]
  /\ batch \in [Workers -> SUBSET Task]
  /\ task \in [Workers -> Task \cup {None}]
  /\ stops \in Nat

Init ==
  /\ status = [j \in Jobs |-> "absent"]
  /\ attempts = [j \in Jobs |-> 0] /\ posts = [j \in Jobs |-> 0]
  /\ due = [j \in Jobs |-> FALSE] /\ stale = [j \in Jobs |-> FALSE]
  /\ accepted = [j \in Jobs |-> FALSE] /\ overran = [j \in Jobs |-> FALSE]
  /\ phase = [w \in Workers |-> "idle"]
  /\ batch = [w \in Workers |-> {}]
  /\ task = [w \in Workers |-> None]
  /\ stops = 0
-----------------------------------------------------------------------------
Enqueue(j) ==
  /\ status[j] = "absent"
  /\ \A i \in Jobs : i < j => status[i] # "absent"
  /\ status' = [status EXCEPT ![j] = "pending"]
  /\ due' = [due EXCEPT ![j] = TRUE]
  /\ UNCHANGED <<attempts, stale, workerVars, history>>

\* An administrator sends a dead letter again: only a failed row changes.
Requeue(j) ==
  /\ Webhook /\ status[j] = "failed"
  /\ status' = [status EXCEPT ![j] = "pending"]
  /\ attempts' = [attempts EXCEPT ![j] = 0]
  /\ due' = [due EXCEPT ![j] = TRUE]
  /\ stale' = [stale EXCEPT ![j] = FALSE]
  /\ posts' = [posts EXCEPT ![j] = 0]
  /\ UNCHANGED <<workerVars, accepted, overran, stops>>

ClaimableAnySending == {j \in Jobs : \/ status[j] = "pending" /\ due[j]   \* (mutation)
                                     \/ status[j] = "sending"}
ClaimablePending == {j \in Jobs : status[j] = "pending" /\ due[j]}   \* (mutation)
Claimable == {j \in Jobs : \/ status[j] = "pending" /\ due[j]
                           \/ status[j] = "sending" /\ stale[j]}

\* ORDER BY created_at LIMIT Batch.
Oldest(S) == {j \in S : Cardinality({i \in S : i < j}) < Batch}

\* A tick starts: one UPDATE ... FOR UPDATE SKIP LOCKED ... RETURNING.
Claim(w) ==
  /\ phase[w] = "idle" /\ Claimable # {}
  /\ LET S == Oldest(Claimable) IN
       /\ status' = [j \in Jobs |-> IF j \in S THEN "sending" ELSE status[j]]
       /\ stale' = [j \in Jobs |-> IF j \in S THEN FALSE ELSE stale[j]]
       /\ attempts' = [j \in Jobs |-> IF j \in S THEN attempts[j] + 1 ELSE attempts[j]]
       /\ batch' = [batch EXCEPT ![w] = {[job |-> j, tries |-> attempts[j] + 1] : j \in S}]
  /\ phase' = [phase EXCEPT ![w] = "pick"]
  /\ UNCHANGED <<due, task, history>>

\* RETURNING gives no order: the loop takes the jobs of its batch in any order.
Pick(w) ==
  /\ phase[w] = "pick"
  /\ \E k \in batch[w] :
       /\ task' = [task EXCEPT ![w] = k]
       /\ batch' = [batch EXCEPT ![w] = @ \ {k}]
  /\ phase' = [phase EXCEPT ![w] = "check"]
  /\ UNCHANGED <<rowVars, history>>

EndTick(w) ==
  /\ phase[w] = "pick" /\ batch[w] = {}
  /\ phase' = [phase EXCEPT ![w] = "idle"]
  /\ UNCHANGED <<rowVars, batch, task, history>>

\* The statement that records the outcome of worker w's task.
Record(w, outcome) ==
  /\ status' = [status EXCEPT ![task[w].job] = outcome]
  /\ stale' = [stale EXCEPT ![task[w].job] = FALSE]
  /\ due' = [due EXCEPT ![task[w].job] = FALSE]
  /\ phase' = [phase EXCEPT ![w] = "pick"]
  /\ task' = [task EXCEPT ![w] = None]
  /\ UNCHANGED <<attempts, batch, history>>

\* Client disabled, no secret, or the target refused: not worth a retry.
ConfigFail(w) == Webhook /\ phase[w] = "check" /\ Record(w, "failed")

ConfigOk(w) ==
  /\ phase[w] = "check"
  /\ phase' = [phase EXCEPT ![w] = "post"]
  /\ UNCHANGED <<rowVars, batch, task, history>>

\* The client row cannot be read, its secret cannot be decrypted: a retry.
CheckThrows(w) ==
  /\ Webhook /\ phase[w] = "check"
  /\ phase' = [phase EXCEPT ![w] = "err"]
  /\ UNCHANGED <<rowVars, batch, task, history>>

AnswerUnchecked(taken, answered) == IF answered THEN "ok" ELSE "err"   \* (mutation)
Answer(taken, answered) == IF taken /\ answered THEN "ok" ELSE "err"

\* The POST or the SMTP exchange: the receiver accepts it or not, and an
\* answer that is late or lost counts as an error though it was accepted.
Post(w) ==
  /\ phase[w] = "post"
  /\ posts' = [posts EXCEPT ![task[w].job] = @ + 1]
  /\ \E taken, answered \in BOOLEAN :
       /\ accepted' = [accepted EXCEPT ![task[w].job] = @ \/ taken]
       /\ phase' = [phase EXCEPT ![w] = Answer(taken, answered)]
  /\ UNCHANGED <<rowVars, batch, task, overran, stops>>

MarkDelivered(w) == phase[w] = "ok" /\ Record(w, "done")

\* That UPDATE throws: it is inside the try, so the job is retried.
MarkThrows(w) ==
  /\ phase[w] = "ok" /\ stops < MaxStops
  /\ phase' = [phase EXCEPT ![w] = "err"]
  /\ stops' = stops + 1
  /\ UNCHANGED <<rowVars, batch, task, posts, accepted, overran>>

RetryOneMore(w) ==   \* (mutation)
  phase[w] = "err" /\ Record(w, IF task[w].tries > MaxAttempts THEN "failed" ELSE "pending")
RetryOrDead(w) ==   \* (mutation)
  phase[w] = "err" /\ Record(w, IF task[w].tries >= MaxAttempts THEN "dead" ELSE "pending")
RetryOrFail(w) ==
  /\ phase[w] = "err"
  /\ Record(w, IF task[w].tries >= MaxAttempts THEN "failed" ELSE "pending")

\* The process dies, or an UPDATE of the error path throws out of the loop:
\* what was claimed stays 'sending'.
Stop(w) ==
  /\ phase[w] # "idle" /\ stops < MaxStops
  /\ stops' = stops + 1
  /\ phase' = [phase EXCEPT ![w] = "idle"]
  /\ batch' = [batch EXCEPT ![w] = {}]
  /\ task' = [task EXCEPT ![w] = None]
  /\ UNCHANGED <<rowVars, posts, accepted, overran>>

BecomesDue(j) ==
  /\ status[j] = "pending" /\ ~due[j]
  /\ due' = [due EXCEPT ![j] = TRUE]
  /\ UNCHANGED <<status, attempts, stale, workerVars, history>>

LockExpires(j) ==
  /\ status[j] = "sending" /\ ~stale[j]
  /\ stale' = [stale EXCEPT ![j] = TRUE]
  /\ overran' = [overran EXCEPT ![j] = TRUE]
  /\ UNCHANGED <<status, attempts, due, workerVars, posts, accepted, stops>>

Deliver(w) == \/ Pick(w) \/ EndTick(w) \/ ConfigFail(w) \/ ConfigOk(w)
              \/ CheckThrows(w) \/ Post(w) \/ MarkDelivered(w) \/ RetryOrFail(w)

Next ==
  \/ \E j \in Jobs : Enqueue(j) \/ Requeue(j) \/ BecomesDue(j) \/ LockExpires(j)
  \/ \E w \in Workers : Claim(w) \/ Deliver(w) \/ MarkThrows(w) \/ Stop(w)

Spec == Init /\ [][Next]_vars

\* The interval timer fires for ever, every call has a timeout, time passes.
FairSpec ==
  /\ Spec
  /\ \A w \in Workers : WF_vars(Claim(w)) /\ WF_vars(Deliver(w))
  /\ \A j \in Jobs : WF_vars(BecomesDue(j)) /\ WF_vars(LockExpires(j))
-----------------------------------------------------------------------------
Holds(w, j) == \/ \E k \in batch[w] : k.job = j
               \/ task[w] # None /\ task[w].job = j

\* As long as no lock on it went stale, a job is in the hands of at most one
\* worker, however many instances run.  (SKIP LOCKED and the claim's status.)
ExclusiveClaim ==
  \A j \in Jobs : ~overran[j] =>
    \A v, w \in Workers : Holds(v, j) /\ Holds(w, j) => v = w

\* ... and is tried at most MaxAttempts times before it is given up.
RetryBudget == \A j \in Jobs : ~overran[j] => posts[j] <= MaxAttempts

\* A row is marked delivered only if the receiver did accept it.
DeliveredWasAccepted == \A j \in Jobs : status[j] = "done" => accepted[j]

\* No row is ever stuck or starved, whatever stops in the middle of a tick:
\* unless administrators go on sending dead letters again for ever, every job
\* that waits is delivered or becomes a dead letter.
RequeuesStop == <>[][\A j \in Jobs : ~Requeue(j)]_vars
EverySettles == RequeuesStop =>
  \A j \in Jobs : status[j] = "pending" ~> status[j] \in {"done", "failed"}

\* What whoever puts jobs into the queue sees of it; and AD-13 with one instance,
\* which may stop at any moment and start again: the table with its locks and
\* counters implements the promise of Outbox.
Outcome == [j \in Jobs |-> CASE status[j] = "absent" -> "absent"
                             [] status[j] \in {"pending", "sending"} -> "waiting"
                             [] status[j] = "done" -> "delivered"
                             [] OTHER -> "dead"]
OB == INSTANCE Outbox WITH state <- Outcome, arrived <- accepted
ImplementsOutbox == OB!Spec

\* AD-13: claiming is safe even when two instances run, so that nothing is
\* sent twice: a delivered row never goes back into the queue.
DeliveredIsFinal ==
  [][\A j \in Jobs : status[j] = "done" => status'[j] = "done"]_vars
=============================================================================
