----------------------------- MODULE MCServer_proofs -----------------------------
(***************************************************************************)
(* Theorems about what runs in the background of the server.                *)
(*                                                                         *)
(* The job queues first, for any number of rows, of instances of the server, *)
(* any batch size and any limit of attempts: whatever the number of          *)
(* instances a row is worked on once at a time, is tried so often and no     *)
(* more, and is called delivered only if it was accepted; with one instance  *)
(* the queue implements Outbox.                                            *)
(*                                                                         *)
(* Then the run-time parameters, for any instances and any writers at once,  *)
(* the form they are changed in, and the archive, for any runs.  The machines *)
(* of MCServer share no variable: a step of a behaviour is a step of the one  *)
(* it is about and leaves the others alone.                                 *)
(***************************************************************************)
EXTENDS MCServer, Ranks_proofs

-----------------------------------------------------------------------------
(* The job queues. *)

(* What a worker has in hand: nothing while idle, a task exactly while it   *)
(* works on one, and no job twice.                                          *)
WorkerOK(w) ==
  /\ phase[w] \in {"idle", "pick"} <=> task[w] = None
  /\ phase[w] = "idle" => batch[w] = {}
  /\ \A k, l \in batch[w] : k.job = l.job => k = l
  /\ \A k \in batch[w] : task[w] # None => task[w].job # k.job

TypeInv == TypeOK /\ \A w \in Workers : WorkerOK(w)

LEMMA TypeInvInit == Init => TypeInv
  BY QueueAssumption DEF Init, TypeInv, TypeOK, WorkerOK

LEMMA TypeInvStep == TypeInv /\ [Next]_vars => TypeInv'
  <1> SUFFICES ASSUME TypeInv, [Next]_vars PROVE TypeInv'
    OBVIOUS
  <1> USE QueueAssumption
  <1>0. TypeOK /\ None \notin Task
    BY DEF TypeInv, Task
  <1>1. ASSUME NEW w \in Workers, Claim(w) PROVE TypeInv'
    <2> DEFINE S == Oldest(Claimable)
               B == {[job |-> j, tries |-> attempts[j] + 1] : j \in S}
    <2>1. S \subseteq Jobs
      BY DEF Oldest, Claimable
    <2>2. B \subseteq Task /\ \A k, l \in B : k.job = l.job => k = l
      <3> HIDE DEF S
      <3>1. ASSUME NEW j \in S PROVE [job |-> j, tries |-> attempts[j] + 1] \in Task
        <4>1. j \in Jobs /\ attempts[j] + 1 \in Nat
          BY <1>0, <2>1 DEF TypeOK
        <4>2. QED
          BY <4>1 DEF Task
      <3>2. \A k \in B : \E j \in S : k = [job |-> j, tries |-> attempts[j] + 1]
        OBVIOUS
      <3> HIDE DEF B
      <3>3. \A k, l \in B : k.job = l.job => k = l
        BY <3>2
      <3>4. QED
        BY <3>1, <3>2, <3>3
    <2>3. batch' = [batch EXCEPT ![w] = B]
      BY <1>1 DEF Claim
    <2>4. task[w] = None /\ task' = task /\ phase' = [phase EXCEPT ![w] = "pick"]
      BY <1>1 DEF Claim, TypeInv, WorkerOK
    <2>5. /\ status' \in [Jobs -> {"absent", "pending", "sending", "done", "failed"}]
          /\ stale' \in [Jobs -> BOOLEAN]
          /\ UNCHANGED <<due, posts, accepted, overran, stops>>
      BY <1>0, <1>1 DEF Claim, TypeOK, history
    <2>6. attempts' \in [Jobs -> Nat]
      BY <1>0, <1>1 DEF Claim, TypeOK
    <2> HIDE DEF S, B
    <2>7. TypeOK'
      <3>1. batch' \in [Workers -> SUBSET Task]
        BY <1>0, <2>2, <2>3 DEF TypeOK
      <3>2. phase' \in [Workers -> {"idle", "pick", "check", "post", "ok", "err"}]
        BY <1>0, <2>4 DEF TypeOK
      <3>3. QED
        BY <1>0, <2>4, <2>5, <2>6, <3>1, <3>2 DEF TypeOK
    <2>8. ASSUME NEW v \in Workers PROVE WorkerOK(v)'
      <3>1. CASE v = w
        BY <1>0, <2>2, <2>3, <2>4, <3>1 DEF TypeOK, WorkerOK
      <3>2. CASE v # w
        BY <1>0, <2>3, <2>4, <3>2 DEF TypeInv, TypeOK, WorkerOK
      <3>3. QED
        BY <3>1, <3>2
    <2>9. QED
      BY <2>7, <2>8 DEF TypeInv
  <1>2. ASSUME NEW w \in Workers, Pick(w) PROVE TypeInv'
    <2>1. PICK k \in batch[w] : /\ task' = [task EXCEPT ![w] = k]
                                /\ batch' = [batch EXCEPT ![w] = @ \ {k}]
      BY <1>2 DEF Pick
    <2>2. k \in Task /\ k # None
      BY <1>0, <2>1 DEF TypeOK
    <2>3. TypeOK'
      BY <1>0, <1>2, <2>1, <2>2 DEF TypeOK, Pick, rowVars, history
    <2>4. ASSUME NEW v \in Workers PROVE WorkerOK(v)'
      <3>1. CASE v = w
        BY <1>0, <1>2, <2>1, <2>2, <3>1 DEF TypeInv, TypeOK, WorkerOK, Pick
      <3>2. CASE v # w
        BY <1>0, <1>2, <2>1, <3>2 DEF TypeInv, TypeOK, WorkerOK, Pick
      <3>3. QED
        BY <3>1, <3>2
    <2>5. QED
      BY <2>3, <2>4 DEF TypeInv
  <1>3. ASSUME NEW w \in Workers, NEW o \in {"done", "failed", "pending"},
               phase[w] \notin {"idle", "pick"}, Record(w, o)
        PROVE  TypeInv'
    <2>1. task[w] \in Task
      BY <1>0, <1>3 DEF TypeInv, TypeOK, WorkerOK
    <2>2. TypeOK'
      BY <1>0, <1>3, <2>1 DEF TypeOK, Record, Task, history
    <2>3. ASSUME NEW v \in Workers PROVE WorkerOK(v)'
      BY <1>0, <1>3 DEF TypeInv, TypeOK, WorkerOK, Record
    <2>4. QED
      BY <2>2, <2>3 DEF TypeInv
  <1>4. ASSUME NEW w \in Workers, Post(w) PROVE TypeInv'
    <2>1. task[w] \in Task
      BY <1>0, <1>4 DEF Post, TypeInv, TypeOK, WorkerOK
    <2>2. TypeOK'
      <3>1. task[w].job \in Jobs
        BY <2>1 DEF Task
      <3>2. posts' \in [Jobs -> Nat]
        <4>1. posts' = [posts EXCEPT ![task[w].job] = @ + 1]
          BY <1>4, Zenon DEF Post
        <4> DEFINE j == task[w].job
        <4>2. posts \in [Jobs -> Nat] /\ j \in Jobs
          BY <1>0, <3>1 DEF TypeOK
        <4>3. posts' = [posts EXCEPT ![j] = posts[j] + 1]
          BY <4>1
        <4> HIDE DEF j
        <4>4. posts[j] + 1 \in Nat
          BY <4>2
        <4>5. QED
          BY <4>2, <4>3, <4>4
      <3>2a. PICK taken \in BOOLEAN, answered \in BOOLEAN :
                /\ accepted' = [accepted EXCEPT ![task[w].job] = @ \/ taken]
                /\ phase' = [phase EXCEPT ![w] = Answer(taken, answered)]
        BY <1>4, Zenon DEF Post
      <3>2b. accepted' \in [Jobs -> BOOLEAN]
        <4>1. (accepted[task[w].job] \/ taken) \in BOOLEAN
          OBVIOUS
        <4>2. QED
          BY <1>0, <3>2a, <4>1, Zenon DEF TypeOK
      <3>3. phase' \in [Workers -> {"idle", "pick", "check", "post", "ok", "err"}]
        BY <1>0, <3>2a DEF TypeOK, Answer
      <3>4. QED
        BY <1>0, <1>4, <3>2, <3>2b, <3>3 DEF TypeOK, Post, rowVars
    <2>3. ASSUME NEW v \in Workers PROVE WorkerOK(v)'
      BY <1>0, <1>4 DEF TypeInv, TypeOK, WorkerOK, Post, Answer
    <2>4. QED
      BY <2>2, <2>3 DEF TypeInv
  <1>5. ASSUME NEW w \in Workers, EndTick(w) \/ ConfigOk(w) \/ CheckThrows(w) \/ MarkThrows(w) \/ Stop(w)
        PROVE  TypeInv'
    <2>1. TypeOK'
      BY <1>0, <1>5 DEF TypeOK, EndTick, ConfigOk, CheckThrows, MarkThrows, Stop, rowVars, history
    <2>2. ASSUME NEW v \in Workers PROVE WorkerOK(v)'
      BY <1>0, <1>5 DEF TypeInv, TypeOK, WorkerOK, EndTick, ConfigOk, CheckThrows, MarkThrows, Stop
    <2>3. QED
      BY <2>1, <2>2 DEF TypeInv
  <1>6. ASSUME NEW j \in Jobs, Enqueue(j) \/ Requeue(j) \/ BecomesDue(j) \/ LockExpires(j)
        PROVE  TypeInv'
    <2> SUFFICES (TypeOK' /\ UNCHANGED workerVars)
      BY DEF TypeInv, WorkerOK, workerVars
    <2>1a. CASE Enqueue(j)
      BY <1>0, <2>1a DEF TypeOK, Enqueue, workerVars, history
    <2>1b. CASE Requeue(j)
      BY <1>0, <2>1b DEF TypeOK, Requeue, workerVars
    <2>1c. CASE BecomesDue(j) \/ LockExpires(j)
      BY <1>0, <2>1c DEF TypeOK, BecomesDue, LockExpires, workerVars, history
    <2>2. QED
      BY <1>6, <2>1a, <2>1b, <2>1c
  <1>7. CASE UNCHANGED vars
    BY <1>7 DEF TypeInv, TypeOK, WorkerOK, vars, rowVars, workerVars, history
  <1>8. ASSUME NEW w \in Workers, Deliver(w) PROVE TypeInv'
    <2>1. ConfigFail(w) \/ MarkDelivered(w) \/ RetryOrFail(w)
            => phase[w] \notin {"idle", "pick"}
               /\ \E o \in {"done", "failed", "pending"} : Record(w, o)
      BY DEF ConfigFail, MarkDelivered, RetryOrFail
    <2>2. QED
      BY <1>2, <1>3, <1>4, <1>5, <1>8, <2>1 DEF Deliver
  <1>9. QED
    BY <1>1, <1>5, <1>6, <1>7, <1>8 DEF Next

\* Every reachable state of the queue is well formed.
THEOREM TypeCorrect == Spec => []TypeOK
  <1>1. Spec => []TypeInv
    BY TypeInvInit, TypeInvStep, PTL DEF Spec
  <1>2. TypeInv => TypeOK
    BY DEF TypeInv
  <1>3. QED
    BY <1>1, <1>2, PTL
-----------------------------------------------------------------------------
(* Mutual exclusion and the budget are inductive together with what the     *)
(* rows say: a row nobody overran is held only while it is 'sending', and   *)
(* whoever holds it holds its current number of attempts.                   *)
ClaimInv(j) ==
  ~overran[j] =>
    /\ ~stale[j]
    /\ status[j] # "sending" => \A w \in Workers : ~Holds(w, j)
    /\ \A v, w \in Workers : Holds(v, j) /\ Holds(w, j) => v = w

BudgetInv(j) ==
  ~overran[j] =>
    /\ posts[j] <= attempts[j] /\ attempts[j] <= MaxAttempts
    /\ status[j] \in {"absent", "pending"} => attempts[j] < MaxAttempts
    /\ \A w \in Workers : \A k \in batch[w] :
         k.job = j => k.tries = attempts[j] /\ posts[j] < attempts[j]
    /\ \A w \in Workers : (task[w] # None /\ task[w].job = j) =>
         /\ task[w].tries = attempts[j]
         /\ phase[w] \in {"check", "post"} => posts[j] < attempts[j]

QueueInv == \A j \in Jobs : ClaimInv(j) /\ BudgetInv(j)
LEMMA QueueInvInit == Init => QueueInv
  BY QueueAssumption DEF Init, QueueInv, ClaimInv, BudgetInv, Holds

\* A step that leaves row j alone and puts it in no new hand.
LEMMA QueueFrame ==
  ASSUME NEW j \in Jobs, ClaimInv(j), BudgetInv(j),
         overran'[j] = overran[j], status'[j] = status[j], stale'[j] = stale[j],
         attempts'[j] = attempts[j], posts'[j] = posts[j],
         \A v \in Workers : \A k \in batch'[v] : k.job = j => k \in batch[v],
         \A v \in Workers : (task'[v] # None /\ task'[v].job = j) =>
            \/ task'[v] \in batch[v]
            \/ /\ task'[v] = task[v]
               /\ phase'[v] \in {"check", "post"} => phase[v] \in {"check", "post"}
  PROVE  ClaimInv(j)' /\ BudgetInv(j)'
  <1>1. \A v \in Workers : Holds(v, j)' => Holds(v, j)
    BY DEF Holds
  <1>2. ClaimInv(j)'
    BY <1>1 DEF ClaimInv
  <1>3. BudgetInv(j)'
    BY DEF BudgetInv
  <1>4. QED
    BY <1>2, <1>3

LEMMA QueueInvClaim ==
  ASSUME TypeInv, NEW j \in Jobs, ClaimInv(j), BudgetInv(j), NEW w \in Workers, Claim(w)
  PROVE  ClaimInv(j)' /\ BudgetInv(j)'
  <1> DEFINE S == Oldest(Claimable)
             B == {[job |-> i, tries |-> attempts[i] + 1] : i \in S}
  <1>1. S \subseteq Claimable /\ S \subseteq Jobs
    BY DEF Oldest, Claimable
  <1>2. /\ batch' = [batch EXCEPT ![w] = B] /\ task' = task
        /\ phase' = [phase EXCEPT ![w] = "pick"]
        /\ posts' = posts /\ overran' = overran
    BY DEF Claim, history
  <1>3. task[w] = None /\ batch \in [Workers -> SUBSET Task] /\ phase[w] = "idle"
        /\ attempts[j] \in Nat /\ posts[j] \in Nat
        /\ phase \in [Workers -> {"idle", "pick", "check", "post", "ok", "err"}]
    BY DEF Claim, TypeInv, TypeOK, WorkerOK
  <1>4. /\ status'[j] = IF j \in S THEN "sending" ELSE status[j]
        /\ stale'[j] = IF j \in S THEN FALSE ELSE stale[j]
        /\ attempts'[j] = IF j \in S THEN attempts[j] + 1 ELSE attempts[j]
    BY DEF Claim
  <1>5. \A k \in B : k.job \in S /\ k.tries = attempts[k.job] + 1
    OBVIOUS
  <1>6. j \in Claimable => \/ status[j] = "pending"
                           \/ status[j] = "sending" /\ stale[j]
    BY DEF Claimable
  <1> HIDE DEF S, B
  <1>7. CASE j \notin S
    <2>1. \A v \in Workers : \A k \in batch'[v] : k.job = j => k \in batch[v]
      BY <1>2, <1>3, <1>5, <1>7
    <2>2. \A v \in Workers : task'[v] # None => v # w /\ task'[v] = task[v] /\ phase'[v] = phase[v]
      BY <1>2, <1>3
    <2>3. /\ overran'[j] = overran[j] /\ status'[j] = status[j] /\ stale'[j] = stale[j]
          /\ attempts'[j] = attempts[j] /\ posts'[j] = posts[j]
      BY <1>2, <1>4, <1>7
    <2>4. QED
      BY <2>1, <2>2, <2>3, QueueFrame
  <1>8. CASE j \in S /\ ~overran[j]
    <2>1. status[j] = "pending" /\ \A v \in Workers : ~Holds(v, j)
      BY <1>1, <1>6, <1>8 DEF ClaimInv
    <2>2. \A v \in Workers : v # w => ~Holds(v, j)'
      BY <1>2, <1>3, <2>1 DEF Holds
    <2>3. ClaimInv(j)'
      BY <1>4, <1>8, <2>2 DEF ClaimInv
    <2>4. posts[j] < attempts'[j] /\ posts'[j] = posts[j] /\ attempts'[j] <= MaxAttempts
      BY <1>2, <1>3, <1>4, <1>8, <2>1, QueueAssumption DEF BudgetInv
    <2>5. \A v \in Workers : \A k \in batch'[v] : k.job = j => k.tries = attempts'[j]
      BY <1>2, <1>3, <1>4, <1>5, <1>8, <2>2 DEF Holds
    <2>6. \A v \in Workers : task'[v] # None => task'[v].job # j
      BY <1>2, <1>3, <2>2 DEF Holds
    <2>7. BudgetInv(j)'
      BY <1>3, <1>4, <1>8, <2>4, <2>5, <2>6 DEF BudgetInv
    <2>8. QED
      BY <2>3, <2>7
  <1>9. CASE overran[j]
    BY <1>2, <1>9 DEF ClaimInv, BudgetInv
  <1>10. QED
    BY <1>7, <1>8, <1>9

\* The outcome is recorded by the one worker that holds the row.
LEMMA QueueInvRecord ==
  ASSUME TypeInv, NEW j \in Jobs, ClaimInv(j), BudgetInv(j), NEW w \in Workers,
         NEW o \in {"done", "failed", "pending"}, Record(w, o),
         phase[w] \notin {"idle", "pick"},
         o = "pending" => task[w].tries < MaxAttempts
  PROVE  ClaimInv(j)' /\ BudgetInv(j)'
  <1>1. /\ task[w] # None /\ task[w] \in Task
        /\ \A k \in batch[w] : k.job # task[w].job
    BY DEF TypeInv, TypeOK, WorkerOK
  <1>2. /\ task' = [task EXCEPT ![w] = None] /\ phase' = [phase EXCEPT ![w] = "pick"]
        /\ UNCHANGED <<attempts, batch, posts, accepted, overran>>
    BY DEF Record, history
  <1>3. /\ task \in [Workers -> Task \cup {None}] /\ status \in [Jobs ->
            {"absent", "pending", "sending", "done", "failed"}]
        /\ stale \in [Jobs -> BOOLEAN]
        /\ phase \in [Workers -> {"idle", "pick", "check", "post", "ok", "err"}]
    BY DEF TypeInv, TypeOK
  <1>4. CASE task[w].job # j
    <2>1. status'[j] = status[j] /\ stale'[j] = stale[j]
      BY <1>3, <1>4 DEF Record
    <2>2. \A v \in Workers : task'[v] # None => task'[v] = task[v] /\ phase'[v] = phase[v]
      BY <1>2, <1>3
    <2>3. QED
      BY <1>2, <2>1, <2>2, QueueFrame
  <1>5. CASE task[w].job = j /\ ~overran[j]
    <2>1. status'[j] = o /\ stale'[j] = FALSE
      BY <1>3, <1>5 DEF Record
    <2>2. Holds(w, j)
      BY <1>1, <1>5 DEF Holds
    <2>3. \A v \in Workers : ~Holds(v, j)'
      BY <1>1, <1>2, <1>3, <1>5, <2>2 DEF Holds, ClaimInv
    <2>4. ClaimInv(j)'
      BY <2>1, <2>3 DEF ClaimInv
    <2>5. o = "pending" => attempts[j] < MaxAttempts
      BY <1>1, <1>5 DEF BudgetInv
    <2>6. BudgetInv(j)'
      BY <1>2, <1>5, <2>1, <2>3, <2>5 DEF BudgetInv, Holds
    <2>7. QED
      BY <2>4, <2>6
  <1>6. CASE overran[j]
    BY <1>2, <1>6 DEF ClaimInv, BudgetInv
  <1>7. QED
    BY <1>4, <1>5, <1>6

LEMMA QueueInvPost ==
  ASSUME TypeInv, NEW j \in Jobs, ClaimInv(j), BudgetInv(j), NEW w \in Workers, Post(w)
  PROVE  ClaimInv(j)' /\ BudgetInv(j)'
  <1>1. /\ task[w] # None /\ task[w] \in Task /\ phase[w] = "post"
        /\ \A k \in batch[w] : k.job # task[w].job
    BY DEF Post, TypeInv, TypeOK, WorkerOK
  <1>2. /\ posts' = [posts EXCEPT ![task[w].job] = @ + 1]
        /\ UNCHANGED <<status, attempts, stale, batch, task, overran>>
    BY Zenon DEF Post, rowVars
  <1>3. PICK taken \in BOOLEAN, answered \in BOOLEAN :
          phase' = [phase EXCEPT ![w] = Answer(taken, answered)]
    BY Zenon DEF Post
  <1>4. phase \in [Workers -> {"idle", "pick", "check", "post", "ok", "err"}]
        /\ posts \in [Jobs -> Nat] /\ attempts[j] \in Nat
    BY DEF TypeInv, TypeOK
  <1>5. \A v \in Workers : phase'[v] = IF v = w THEN Answer(taken, answered) ELSE phase[v]
    BY <1>3, <1>4
  <1>6. Answer(taken, answered) \in {"ok", "err"}
    BY DEF Answer
  <1>7. ClaimInv(j)'
    BY <1>2 DEF ClaimInv, Holds
  <1>8. CASE task[w].job # j
    <2>1. posts'[j] = posts[j]
      BY <1>2, <1>4, <1>8
    <2>2. BudgetInv(j)'
      BY <1>2, <1>5, <1>6, <2>1 DEF BudgetInv
    <2>3. QED
      BY <1>7, <2>2
  <1>9. CASE task[w].job = j /\ ~overran[j]
    <2>1. posts[j] < attempts[j]
      BY <1>1, <1>9 DEF BudgetInv
    <2> DEFINE i == task[w].job
    <2>2a. posts' = [posts EXCEPT ![i] = posts[i] + 1]
      BY <1>2
    <2>2b. i = j
      BY <1>9
    <2> HIDE DEF i
    <2>2. posts'[j] = posts[j] + 1
      BY <1>4, <2>2a, <2>2b
    <2>3. Holds(w, j)
      BY <1>1, <1>9 DEF Holds
    <2>4. \A v \in Workers : Holds(v, j) => v = w
      BY <2>3, <1>9 DEF ClaimInv
    <2>5. \A v \in Workers : \A k \in batch[v] : k.job # j
      BY <1>1, <1>9, <2>4 DEF Holds
    <2>6. \A v \in Workers : (task[v] # None /\ task[v].job = j) => v = w
      BY <2>4 DEF Holds
    <2>7. posts'[j] <= attempts[j]
      BY <1>4, <2>1, <2>2
    <2>8. BudgetInv(j)'
      BY <1>2, <1>5, <1>6, <1>9, <2>5, <2>6, <2>7 DEF BudgetInv
    <2>9. QED
      BY <1>7, <2>8
  <1>10. CASE overran[j]
    BY <1>2, <1>7, <1>10 DEF BudgetInv
  <1>11. QED
    BY <1>8, <1>9, <1>10

LEMMA QueueInvStep == TypeInv /\ QueueInv /\ [Next]_vars => QueueInv'
  <1> SUFFICES ASSUME TypeInv, QueueInv, [Next]_vars, NEW j \in Jobs
               PROVE  ClaimInv(j)' /\ BudgetInv(j)'
    BY DEF QueueInv
  <1>0. ClaimInv(j) /\ BudgetInv(j) /\ TypeOK
    BY DEF QueueInv, TypeInv
  <1>1. ASSUME NEW w \in Workers, Claim(w) PROVE ClaimInv(j)' /\ BudgetInv(j)'
    BY <1>0, <1>1, QueueInvClaim
  <1>2. ASSUME NEW w \in Workers, Pick(w) PROVE ClaimInv(j)' /\ BudgetInv(j)'
    <2>1. PICK k \in batch[w] : /\ task' = [task EXCEPT ![w] = k]
                                /\ batch' = [batch EXCEPT ![w] = @ \ {k}]
      BY <1>2 DEF Pick
    <2>2. /\ UNCHANGED <<status, attempts, stale, posts, overran>>
          /\ phase' = [phase EXCEPT ![w] = "check"]
      BY <1>2 DEF Pick, rowVars, history
    <2>3. \A v \in Workers : \A l \in batch'[v] : l \in batch[v]
      BY <1>0, <2>1 DEF TypeOK
    <2>4. \A v \in Workers : \/ task'[v] \in batch[v]
                             \/ task'[v] = task[v] /\ phase'[v] = phase[v]
      BY <1>0, <2>1, <2>2 DEF TypeOK
    <2>5. QED
      BY <1>0, <2>2, <2>3, <2>4, QueueFrame
  <1>3. ASSUME NEW w \in Workers, ConfigFail(w) \/ MarkDelivered(w)
        PROVE  ClaimInv(j)' /\ BudgetInv(j)'
    <2>1. PICK o \in {"done", "failed"} : Record(w, o) /\ phase[w] \notin {"idle", "pick"}
      BY <1>3 DEF ConfigFail, MarkDelivered
    <2>2. QED
      BY <1>0, <2>1, QueueInvRecord
  <1>4. ASSUME NEW w \in Workers, RetryOrFail(w) PROVE ClaimInv(j)' /\ BudgetInv(j)'
    <2>1. phase[w] = "err" /\ task[w] \in Task
      BY <1>0, <1>4 DEF RetryOrFail, TypeInv, TypeOK, WorkerOK
    <2>2. task[w].tries \in Nat
      BY <2>1 DEF Task
    <2>3. CASE task[w].tries >= MaxAttempts
      BY <1>0, <1>4, <2>1, <2>3, QueueInvRecord DEF RetryOrFail
    <2>4. CASE ~(task[w].tries >= MaxAttempts)
      <3>1. Record(w, "pending") /\ task[w].tries < MaxAttempts
        BY <1>4, <2>2, <2>4, QueueAssumption DEF RetryOrFail
      <3>2. QED
        BY <1>0, <2>1, <3>1, QueueInvRecord
    <2>5. QED
      BY <2>3, <2>4
  <1>5. ASSUME NEW w \in Workers, Post(w) PROVE ClaimInv(j)' /\ BudgetInv(j)'
    BY <1>0, <1>5, QueueInvPost
  <1>6. ASSUME NEW w \in Workers, EndTick(w) \/ ConfigOk(w) \/ CheckThrows(w) \/ MarkThrows(w) \/ Stop(w)
        PROVE  ClaimInv(j)' /\ BudgetInv(j)'
    <2>1. UNCHANGED <<status, attempts, stale, posts, overran>>
      BY <1>6 DEF EndTick, ConfigOk, CheckThrows, MarkThrows, Stop, rowVars, history
    <2>2. \A v \in Workers : \A k \in batch'[v] : k \in batch[v]
      BY <1>0, <1>6 DEF EndTick, ConfigOk, CheckThrows, MarkThrows, Stop, TypeOK
    <2>3. \A v \in Workers : task'[v] # None =>
             /\ task'[v] = task[v]
             /\ phase'[v] \in {"check", "post"} => phase[v] \in {"check", "post"}
      BY <1>0, <1>6 DEF EndTick, ConfigOk, CheckThrows, MarkThrows, Stop, TypeOK, TypeInv, WorkerOK
    <2>4. QED
      BY <1>0, <2>1, <2>2, <2>3, QueueFrame
  <1>7. ASSUME NEW i \in Jobs, Enqueue(i) \/ Requeue(i)
        PROVE  ClaimInv(j)' /\ BudgetInv(j)'
    <2>1. UNCHANGED <<overran, phase, batch, task>> /\ (stale'[j] = stale[j] \/ ~stale'[j])
      BY <1>0, <1>7 DEF Enqueue, Requeue, workerVars, history, TypeOK
    <2>2. CASE i # j
      <3>1. /\ status'[j] = status[j] /\ stale'[j] = stale[j]
            /\ attempts'[j] = attempts[j] /\ posts'[j] = posts[j]
        BY <1>0, <1>7, <2>2 DEF Enqueue, Requeue, history, TypeOK
      <3>2. QED
        BY <1>0, <2>1, <3>1, QueueFrame
    <2>3. CASE i = j /\ ~overran[j]
      <3>1. status[j] # "sending" /\ status'[j] = "pending"
        BY <1>0, <1>7, <2>3 DEF Enqueue, Requeue, TypeOK
      <3>2. \A v \in Workers : ~Holds(v, j)
        BY <1>0, <2>3, <3>1 DEF ClaimInv
      <3>3. ClaimInv(j)'
        BY <1>0, <2>1, <2>3, <3>2 DEF ClaimInv, Holds
      <3>4. attempts'[j] < MaxAttempts /\ posts'[j] <= attempts'[j]
        <4>1. CASE Enqueue(i)
          BY <1>0, <2>3, <4>1 DEF Enqueue, BudgetInv, history
        <4>2. CASE Requeue(i)
          BY <1>0, <2>3, <4>2, QueueAssumption DEF Requeue, TypeOK
        <4>3. QED
          BY <1>7, <4>1, <4>2
      <3>5. attempts'[j] \in Nat
        BY <1>0, <1>7 DEF Enqueue, Requeue, TypeOK
      <3>6. BudgetInv(j)'
        BY <2>1, <3>2, <3>4, <3>5, QueueAssumption DEF BudgetInv, Holds
      <3>7. QED
        BY <3>3, <3>6
    <2>4. CASE overran[j]
      BY <2>1, <2>4 DEF ClaimInv, BudgetInv
    <2>5. QED
      BY <2>2, <2>3, <2>4
  <1>8. ASSUME NEW i \in Jobs, BecomesDue(i) \/ LockExpires(i)
        PROVE  ClaimInv(j)' /\ BudgetInv(j)'
    <2>1. UNCHANGED <<status, attempts, phase, batch, task, posts>>
      BY <1>8 DEF BecomesDue, LockExpires, workerVars, history
    <2>2. \/ overran'[j]
          \/ overran'[j] = overran[j] /\ stale'[j] = stale[j]
      BY <1>0, <1>8 DEF BecomesDue, LockExpires, history, TypeOK
    <2>3. CASE overran'[j]
      BY <2>3 DEF ClaimInv, BudgetInv
    <2>4. CASE overran'[j] = overran[j] /\ stale'[j] = stale[j]
      BY <1>0, <2>1, <2>4, QueueFrame
    <2>5. QED
      BY <2>2, <2>3, <2>4
  <1>9. CASE UNCHANGED vars
    BY <1>0, <1>9, QueueFrame DEF vars, rowVars, workerVars, history
  <1>10. ASSUME NEW w \in Workers, Deliver(w) PROVE ClaimInv(j)' /\ BudgetInv(j)'
    BY <1>2, <1>3, <1>4, <1>5, <1>6, <1>10 DEF Deliver
  <1>11. QED
    BY <1>1, <1>6, <1>7, <1>8, <1>9, <1>10 DEF Next

LEMMA QueueInvariant == Spec => [](TypeInv /\ QueueInv)
  BY TypeInvInit, TypeInvStep, QueueInvInit, QueueInvStep, PTL DEF Spec

\* However many instances of the server run, a row whose lock never went stale
\* is in the hands of at most one of them.
THEOREM MutualExclusion == Spec => []ExclusiveClaim
  <1>1. QueueInv => ExclusiveClaim
    BY DEF QueueInv, ClaimInv, ExclusiveClaim
  <1>2. QED
    BY <1>1, QueueInvariant, PTL

\* ... and it is tried at most MaxAttempts times.
THEOREM Budget == Spec => []RetryBudget
  <1>1. TypeInv /\ QueueInv => RetryBudget
    BY QueueAssumption DEF TypeInv, TypeOK, QueueInv, BudgetInv, RetryBudget
  <1>2. QED
    BY <1>1, QueueInvariant, PTL

(* Whoever has an answer in hand has it from a receiver that took the job.  *)
AcceptedInv ==
  /\ DeliveredWasAccepted
  /\ \A w \in Workers : phase[w] = "ok" => accepted[task[w].job]

LEMMA AcceptedInit == Init => AcceptedInv
  BY DEF Init, AcceptedInv, DeliveredWasAccepted

\* What the POST of one worker makes of the rows: one of them may now be accepted.
LEMMA PostEffect ==
  ASSUME TypeInv, NEW w \in Workers, Post(w)
  PROVE  /\ task[w] \in Task /\ task[w].job \in Jobs
         /\ UNCHANGED <<status, task>>
         /\ \/ accepted' = accepted
            \/ accepted' = [accepted EXCEPT ![task[w].job] = TRUE]
         /\ phase' \in {[phase EXCEPT ![w] = "err"], [phase EXCEPT ![w] = "ok"]}
         /\ phase'[w] = "ok" => accepted' = [accepted EXCEPT ![task[w].job] = TRUE]
  <1>1. task[w] \in Task /\ task[w].job \in Jobs
    BY DEF Post, TypeInv, TypeOK, WorkerOK, Task
  <1>2. accepted \in [Jobs -> BOOLEAN]
        /\ phase \in [Workers -> {"idle", "pick", "check", "post", "ok", "err"}]
    BY DEF TypeInv, TypeOK
  <1>3. PICK taken \in BOOLEAN, answered \in BOOLEAN :
          /\ accepted' = [accepted EXCEPT ![task[w].job] = @ \/ taken]
          /\ phase' = [phase EXCEPT ![w] = Answer(taken, answered)]
    BY Zenon DEF Post
  <1>4. UNCHANGED <<status, task>>
    BY Zenon DEF Post, rowVars
  <1> DEFINE j == task[w].job
  <1>5. accepted' = [accepted EXCEPT ![j] = accepted[j] \/ taken] /\ j \in Jobs
    BY <1>1, <1>3, Zenon
  <1> HIDE DEF j
  <1>6. CASE taken
    <2>1. accepted' = [accepted EXCEPT ![j] = TRUE]
      BY <1>2, <1>5, <1>6
    <2>2. QED
      BY <1>1, <1>2, <1>3, <1>4, <1>6, <2>1 DEF Answer, j
  <1>7. CASE ~taken
    <2>1. accepted' = accepted
      BY <1>2, <1>5, <1>7
    <2>2. phase' = [phase EXCEPT ![w] = "err"]
      BY <1>3, <1>7 DEF Answer
    <2>3. QED
      BY <1>1, <1>2, <1>4, <2>1, <2>2
  <1>8. QED
    BY <1>6, <1>7

LEMMA AcceptedStep == TypeInv /\ AcceptedInv /\ [Next]_vars => AcceptedInv'
  <1> SUFFICES ASSUME TypeInv, AcceptedInv, [Next]_vars PROVE AcceptedInv'
    OBVIOUS
  <1>0. TypeOK /\ \A w \in Workers : WorkerOK(w)
    BY DEF TypeInv
  <1>1. ASSUME NEW w \in Workers, Post(w) PROVE AcceptedInv'
    <2>1. \A j \in Jobs : accepted[j] => accepted'[j]
      BY <1>0, <1>1, PostEffect DEF TypeOK
    <2>2. DeliveredWasAccepted'
      BY <1>1, <2>1, PostEffect DEF AcceptedInv, DeliveredWasAccepted
    <2>3. ASSUME NEW v \in Workers, phase'[v] = "ok" PROVE accepted'[task'[v].job]
      <3>1. task[v] \in Task
        <4>1. phase[v] \notin {"idle", "pick"}
          BY <1>0, <1>1, <2>3, PostEffect DEF TypeOK, Post
        <4>2. QED
          BY <1>0, <4>1 DEF TypeOK, WorkerOK
      <3>2. task[v].job \in Jobs /\ task' = task
        BY <1>1, <3>1, PostEffect DEF Task
      <3>3. CASE v = w
        BY <1>0, <1>1, <2>3, <3>2, <3>3, PostEffect DEF TypeOK
      <3>4. CASE v # w
        <4>1. phase[v] = "ok"
          BY <1>0, <1>1, <2>3, <3>4, PostEffect DEF TypeOK
        <4>2. QED
          BY <2>1, <3>2, <4>1 DEF AcceptedInv
      <3>5. QED
        BY <3>3, <3>4
    <2>4. QED
      BY <2>2, <2>3 DEF AcceptedInv
  <1>2. ASSUME NEW w \in Workers, NEW o \in {"done", "failed", "pending"}, Record(w, o),
               phase[w] \notin {"idle", "pick"}, o = "done" => phase[w] = "ok"
        PROVE  AcceptedInv'
    <2>1. task[w] \in Task /\ task[w].job \in Jobs
      BY <1>0, <1>2 DEF TypeOK, WorkerOK, Task
    <2>2. accepted' = accepted
      BY <1>2 DEF Record, history
    <2>3. \A j \in Jobs : status'[j] = "done" => status[j] = "done" \/ (j = task[w].job /\ o = "done")
      BY <1>0, <1>2, <2>1 DEF TypeOK, Record
    <2>4. DeliveredWasAccepted'
      BY <1>2, <2>1, <2>2, <2>3 DEF AcceptedInv, DeliveredWasAccepted
    <2>5. \A v \in Workers : phase'[v] = "ok" => phase[v] = "ok" /\ task'[v] = task[v]
      BY <1>0, <1>2 DEF TypeOK, Record
    <2>6. QED
      BY <2>2, <2>4, <2>5 DEF AcceptedInv
  <1>3. ASSUME NEW w \in Workers,
               \/ Claim(w) \/ Pick(w) \/ EndTick(w) \/ ConfigOk(w) \/ CheckThrows(w)
               \/ MarkThrows(w) \/ Stop(w)
        PROVE  AcceptedInv'
    <2>1. accepted' = accepted
      BY <1>3 DEF Claim, Pick, EndTick, ConfigOk, CheckThrows, MarkThrows, Stop, history
    <2>2. \A j \in Jobs : status'[j] = "done" => status[j] = "done"
      BY <1>0, <1>3 DEF TypeOK, Claim, Pick, EndTick, ConfigOk, CheckThrows, MarkThrows, Stop, rowVars
    <2>3. \A v \in Workers : phase'[v] = "ok" => phase[v] = "ok" /\ task'[v] = task[v]
      BY <1>0, <1>3 DEF TypeOK, Claim, Pick, EndTick, ConfigOk, CheckThrows, MarkThrows, Stop
    <2>4. QED
      BY <2>1, <2>2, <2>3 DEF AcceptedInv, DeliveredWasAccepted
  <1>4. ASSUME NEW j \in Jobs, Enqueue(j) \/ Requeue(j) \/ BecomesDue(j) \/ LockExpires(j)
        PROVE  AcceptedInv'
    <2>1. UNCHANGED <<accepted, phase, task>>
      BY <1>4 DEF Enqueue, Requeue, BecomesDue, LockExpires, workerVars, history
    <2>2. \A i \in Jobs : status'[i] = "done" => status[i] = "done"
      BY <1>0, <1>4 DEF TypeOK, Enqueue, Requeue, BecomesDue, LockExpires
    <2>3. QED
      BY <2>1, <2>2 DEF AcceptedInv, DeliveredWasAccepted
  <1>5. CASE UNCHANGED vars
    BY <1>5 DEF AcceptedInv, DeliveredWasAccepted, vars, rowVars, workerVars, history
  <1>6. ASSUME NEW w \in Workers, Deliver(w) PROVE AcceptedInv'
    <2>1. ConfigFail(w) \/ MarkDelivered(w) \/ RetryOrFail(w)
            => phase[w] \notin {"idle", "pick"}
               /\ \E o \in {"done", "failed", "pending"} :
                     Record(w, o) /\ (o = "done" => phase[w] = "ok")
      BY DEF ConfigFail, MarkDelivered, RetryOrFail
    <2>2. QED
      BY <1>1, <1>2, <1>3, <1>6, <2>1 DEF Deliver
  <1>7. QED
    BY <1>3, <1>4, <1>5, <1>6 DEF Next

\* However many instances run, stop and overrun their locks, a row is marked
\* delivered only if the receiver did accept it.
THEOREM NothingInvented == Spec => []DeliveredWasAccepted
  <1>1. AcceptedInv => DeliveredWasAccepted
    BY DEF AcceptedInv
  <1>2. QED
    BY TypeInvInit, TypeInvStep, AcceptedInit, AcceptedStep, <1>1, PTL DEF Spec
-----------------------------------------------------------------------------
(* With one instance, what is in its hands is 'sending': nobody else claims  *)
(* it or records an outcome.                                                 *)
HandInv == \A w \in Workers, j \in Jobs : Holds(w, j) => status[j] = "sending"
OneInstance == \A v, w \in Workers : v = w

LEMMA HandInit == Init => HandInv
  BY DEF Init, HandInv, Holds

LEMMA HandStep ==
  ASSUME OneInstance PROVE TypeInv /\ HandInv /\ [Next]_vars => HandInv'
  <1> SUFFICES ASSUME TypeInv, HandInv, [Next]_vars, NEW w \in Workers, NEW j \in Jobs,
                      Holds(w, j)'
               PROVE  status'[j] = "sending"
    BY DEF HandInv
  <1>0. TypeOK /\ WorkerOK(w) /\ (Holds(w, j) => status[j] = "sending")
    BY DEF TypeInv, HandInv
  <1>1. CASE Claim(w)
    <2>1. task[w] = None /\ task' = task
      BY <1>0, <1>1 DEF Claim, WorkerOK
    <2>2. PICK k \in batch'[w] : k.job = j
      BY <2>1 DEF Holds
    <2>3. j \in Oldest(Claimable)
      BY <1>0, <1>1, <2>2 DEF Claim, TypeOK
    <2>4. QED
      BY <1>1, <2>3 DEF Claim
  <1>2. ASSUME NEW o \in {"done", "failed", "pending"}, Record(w, o),
               phase[w] \notin {"idle", "pick"}
        PROVE  status'[j] = "sending"
    <2>1. task[w] \in Task /\ task[w] # None
      BY <1>0, <1>2 DEF TypeOK, WorkerOK
    <2>2. task'[w] = None /\ batch'[w] = batch[w]
      BY <1>0, <1>2 DEF TypeOK, Record
    <2>3. PICK k \in batch[w] : k.job = j
      BY <2>2 DEF Holds
    <2>4. Holds(w, j) /\ task[w].job # j
      BY <1>0, <2>1, <2>3 DEF Holds, WorkerOK
    <2>5. QED
      BY <1>0, <1>2, <2>4 DEF TypeOK, Record
  <1>3. CASE \/ Pick(w) \/ EndTick(w) \/ ConfigOk(w) \/ CheckThrows(w) \/ MarkThrows(w) \/ Stop(w)
    <2>1. status' = status
      BY <1>3 DEF Pick, EndTick, ConfigOk, CheckThrows, MarkThrows, Stop, rowVars
    <2>2. Holds(w, j)
      <3>1. CASE Pick(w)
        <4>1. PICK k \in batch[w] : /\ task' = [task EXCEPT ![w] = k]
                                    /\ batch' = [batch EXCEPT ![w] = @ \ {k}]
          BY <3>1 DEF Pick
        <4>2. task'[w] = k /\ batch'[w] = batch[w] \ {k}
          BY <1>0, <4>1 DEF TypeOK
        <4>3. QED
          BY <4>2 DEF Holds
      <3>2. CASE EndTick(w) \/ ConfigOk(w) \/ CheckThrows(w) \/ MarkThrows(w)
        BY <3>2 DEF EndTick, ConfigOk, CheckThrows, MarkThrows, Holds
      <3>3. CASE Stop(w)
        BY <1>0, <3>3 DEF Stop, Holds, TypeOK
      <3>4. QED
        BY <1>3, <3>1, <3>2, <3>3
    <2>3. QED
      BY <1>0, <2>1, <2>2
  <1>4. CASE Post(w)
    <2>1. status' = status /\ task' = task /\ batch' = batch
      BY <1>4, Zenon DEF Post, rowVars
    <2>2. QED
      BY <1>0, <2>1 DEF Holds
  <1>5. ASSUME NEW i \in Jobs, Enqueue(i) \/ Requeue(i) \/ BecomesDue(i) \/ LockExpires(i)
        PROVE  status'[j] = "sending"
    <2>1. Holds(w, j)
      BY <1>5 DEF Enqueue, Requeue, BecomesDue, LockExpires, workerVars, Holds
    <2>2. QED
      BY <1>0, <1>5, <2>1 DEF TypeOK, Enqueue, Requeue, BecomesDue, LockExpires
  <1>6. CASE UNCHANGED vars
    BY <1>0, <1>6 DEF Holds, vars, rowVars, workerVars
  <1>7. CASE Deliver(w)
    <2>1. ConfigFail(w) \/ MarkDelivered(w) \/ RetryOrFail(w)
            => phase[w] \notin {"idle", "pick"}
               /\ \E o \in {"done", "failed", "pending"} : Record(w, o)
      BY DEF ConfigFail, MarkDelivered, RetryOrFail
    <2>2. QED
      BY <1>2, <1>3, <1>4, <1>7, <2>1 DEF Deliver
  <1>8. \A v \in Workers : v = w
    BY DEF OneInstance
  <1>9. QED
    BY <1>1, <1>3, <1>5, <1>6, <1>7, <1>8 DEF Next

LEMMA QueueOfOne ==
  ASSUME OneInstance PROVE Spec => [](TypeInv /\ AcceptedInv /\ HandInv)
  <1>1. TypeInv /\ HandInv /\ [Next]_vars => HandInv'
    BY HandStep
  <1>2. QED
    BY TypeInvInit, TypeInvStep, AcceptedInit, AcceptedStep, HandInit, <1>1, PTL DEF Spec

LEMMA OutboxInit == Init => OB!Init
  BY DEF Init, OB!Init, Outcome

\* What a status stands for.
Stands(s) == CASE s = "absent" -> "absent"
               [] s \in {"pending", "sending"} -> "waiting"
               [] s = "done" -> "delivered"
               [] OTHER -> "dead"

\* One row moves, or none: the abstract job moves with it.
LEMMA OneRowMoves ==
  ASSUME TypeInv, NEW j \in Jobs, NEW s,
         status' = [status EXCEPT ![j] = s]
  PROVE  /\ Outcome' = [Outcome EXCEPT ![j] = Stands(s)]
         /\ Outcome[j] = Stands(status[j])
  BY DEF TypeInv, TypeOK, Outcome, Stands

LEMMA OutboxStep ==
  ASSUME TypeInv, AcceptedInv, HandInv, [Next]_vars
  PROVE  [OB!Next]_OB!vars
  <1>0. TypeOK /\ Outcome \in [Jobs -> {"absent", "waiting", "delivered", "dead"}]
    BY DEF TypeInv, Outcome
  <1>1. ASSUME NEW j \in Jobs, Enqueue(j) PROVE OB!Next
    <2>1. OB!Submit(j)
      BY <1>1, OneRowMoves DEF Enqueue, history, Stands, OB!Submit, OB!Becomes
    <2>2. QED
      BY <2>1 DEF OB!Next
  <1>2. ASSUME NEW j \in Jobs, Requeue(j) PROVE OB!Next
    <2>1. OB!Resend(j)
      BY <1>2, OneRowMoves DEF Requeue, Stands, OB!Resend, OB!Becomes
    <2>2. QED
      BY <2>1 DEF OB!Next
  <1>3. ASSUME NEW w \in Workers, Claim(w) PROVE UNCHANGED OB!vars
    <2>1. \A j \in Jobs : status'[j] = status[j]
             \/ (status[j] \in {"pending", "sending"} /\ status'[j] = "sending")
      BY <1>0, <1>3 DEF Claim, Oldest, Claimable, TypeOK
    <2>2. Outcome' = Outcome
      BY <2>1 DEF Outcome
    <2>3. accepted' = accepted
      BY <1>3 DEF Claim, history
    <2>4. QED
      BY <2>2, <2>3 DEF OB!vars
  <1>4. ASSUME NEW w \in Workers, phase[w] \notin {"idle", "pick"}
        PROVE  /\ task[w].job \in Jobs /\ Outcome[task[w].job] = "waiting"
               /\ status[task[w].job] = "sending"
    <2>1. task[w] \in Task /\ task[w] # None /\ task[w].job \in Jobs
      BY <1>0, <1>4 DEF TypeInv, TypeOK, WorkerOK, Task
    <2>2. status[task[w].job] = "sending"
      BY <2>1 DEF HandInv, Holds
    <2>3. QED
      BY <2>1, <2>2 DEF Outcome
  <1>5. ASSUME NEW w \in Workers, NEW o \in {"done", "failed", "pending"}, Record(w, o),
               phase[w] \notin {"idle", "pick"}, o = "done" => phase[w] = "ok"
        PROVE  [OB!Next]_OB!vars
    <2> DEFINE j == task[w].job
    <2>1. /\ j \in Jobs /\ Outcome[j] = "waiting"
          /\ Outcome' = [Outcome EXCEPT ![j] = Stands(o)] /\ accepted' = accepted
      BY <1>4, <1>5, OneRowMoves DEF Record, history
    <2>2. CASE o = "done"
      <3>1. accepted[j] /\ Stands(o) = "delivered"
        BY <1>5, <2>2 DEF AcceptedInv, Stands
      <3>2. OB!Confirm(j)
        BY <2>1, <3>1 DEF OB!Confirm, OB!Becomes
      <3>3. QED
        BY <2>1, <3>2 DEF OB!Next
    <2>3. CASE o = "failed"
      <3>1. Stands(o) = "dead"
        BY <2>3 DEF Stands
      <3>2. OB!GiveUp(j)
        BY <2>1, <3>1 DEF OB!GiveUp, OB!Becomes
      <3>3. QED
        BY <2>1, <3>2 DEF OB!Next
    <2>4. CASE o = "pending"
      <3>1. Stands(o) = "waiting"
        BY <2>4 DEF Stands
      <3>2. Outcome' = Outcome
        BY <1>0, <2>1, <3>1
      <3>3. QED
        BY <2>1, <3>2 DEF OB!vars
    <2>5. QED
      BY <2>2, <2>3, <2>4
  <1>6. ASSUME NEW w \in Workers, Post(w) PROVE [OB!Next]_OB!vars
    <2> DEFINE j == task[w].job
    <2>1. phase[w] = "post"
      BY <1>6 DEF Post
    <2>2. j \in Jobs /\ Outcome[j] = "waiting"
      BY <1>4, <2>1
    <2>3. Outcome' = Outcome
      BY <1>6, PostEffect DEF Outcome
    <2>4. CASE accepted' = accepted
      BY <2>3, <2>4 DEF OB!vars
    <2>5. CASE accepted' = [accepted EXCEPT ![j] = TRUE]
      <3>1. OB!Arrive(j)
        BY <2>2, <2>3, <2>5 DEF OB!Arrive
      <3>2. QED
        BY <2>2, <3>1 DEF OB!Next
    <2>6. QED
      BY <1>6, <2>4, <2>5, PostEffect
  <1>7. ASSUME NEW w \in Workers,
               \/ Pick(w) \/ EndTick(w) \/ ConfigOk(w) \/ CheckThrows(w)
               \/ MarkThrows(w) \/ Stop(w)
        PROVE  UNCHANGED OB!vars
    <2>1. UNCHANGED <<status, accepted>>
      BY <1>7 DEF Pick, EndTick, ConfigOk, CheckThrows, MarkThrows, Stop, rowVars, history
    <2>2. QED
      BY <2>1 DEF OB!vars, Outcome
  <1>8. ASSUME NEW j \in Jobs, BecomesDue(j) \/ LockExpires(j) PROVE UNCHANGED OB!vars
    <2>1. UNCHANGED <<status, accepted>>
      BY <1>8 DEF BecomesDue, LockExpires, history
    <2>2. QED
      BY <2>1 DEF OB!vars, Outcome
  <1>9. CASE UNCHANGED vars
    BY <1>9 DEF OB!vars, Outcome, vars, rowVars, history
  <1>10. ASSUME NEW w \in Workers, Deliver(w) PROVE [OB!Next]_OB!vars
    <2>1. ConfigFail(w) \/ MarkDelivered(w) \/ RetryOrFail(w)
            => phase[w] \notin {"idle", "pick"}
               /\ \E o \in {"done", "failed", "pending"} :
                     Record(w, o) /\ (o = "done" => phase[w] = "ok")
      BY DEF ConfigFail, MarkDelivered, RetryOrFail
    <2>2. QED
      BY <1>5, <1>6, <1>7, <1>10, <2>1 DEF Deliver
  <1>11. QED
    BY <1>1, <1>2, <1>3, <1>7, <1>8, <1>9, <1>10 DEF Next

\* With one instance, which may stop in the middle of a tick and let its locks go
\* stale, the queue is an outbox: what arrives was submitted, delivered is final.
THEOREM Refinement == OneInstance => (Spec => ImplementsOutbox)
  <1> SUFFICES ASSUME OneInstance PROVE Spec => ImplementsOutbox
    OBVIOUS
  <1>1. Spec => [](TypeInv /\ AcceptedInv /\ HandInv)
    BY QueueOfOne
  <1>2. TypeInv /\ AcceptedInv /\ HandInv /\ [Next]_vars => [OB!Next]_OB!vars
    BY OutboxStep
  <1>3. QED
    BY OutboxInit, <1>1, <1>2, PTL DEF Spec, ImplementsOutbox, OB!Spec
-----------------------------------------------------------------------------
(* The run-time parameters. *)

\* A value on its way to the cache, from a SELECT or a set(), is one the row has had
\* since; and an instance without an environment is past the seed once it has loaded.
InstanceSound(i) ==
  /\ ST!Loaded(i) => cache[i] \in recent[i] \/ i \in overtaken
  /\ reload[i] # None => reload[i].rows \in reload[i].since
  /\ ST!Loaded(i) /\ env[i] = None => i \in seeded
WriterSound(r) ==
  setting[r] # None => LET i == setting[r].at IN
    setting[r].value \in recent[i] \/ i \in overtaken \/ ~ ST!Loaded(i)

SettingsInv ==
  /\ ST!TypeOK
  /\ \A i \in Instances : InstanceSound(i)
  /\ \A r \in Writers : WriterSound(r)
  /\ ~ strayed

LEMMA SettingsInvInit == ST!Init => SettingsInv
  <1> SUFFICES ASSUME ST!Init PROVE SettingsInv
    OBVIOUS
  <1>1. db \in ST!Rows /\ env \in [Instances -> ST!Rows \cup {None}]
    BY DEF ST!Init, ST!Rows
  <1>2. ST!TypeOK
    <2>1. /\ cache = [i \in Instances |-> None] /\ reload = [i \in Instances |-> None]
          /\ setting = [r \in Writers |-> None] /\ recent = [i \in Instances |-> {}]
          /\ seeded = {} /\ overtaken = {} /\ hook = FALSE /\ strayed = FALSE
      BY DEF ST!Init
    <2>2. writes \in 0 .. MaxWrites /\ faults \in 0 .. MaxFaults
      BY ServerAssumption DEF ST!Init
    <2>3. QED
      BY <1>1, <2>1, <2>2 DEF ST!TypeOK
  <1>3. QED
    BY <1>2 DEF ST!Init, SettingsInv, InstanceSound, WriterSound, ST!Loaded

LEMMA SettingsTypes ==
  ASSUME ST!TypeOK
  PROVE  /\ db \in ST!Rows
         /\ env \in [Instances -> ST!Rows \cup {None}]
         /\ cache \in [Instances -> ST!Rows \cup {None}] /\ seeded \subseteq Instances
         /\ reload \in [Instances -> {None} \cup ST!Reload]
         /\ setting \in [Writers -> {None} \cup ST!Setting]
         /\ recent \in [Instances -> SUBSET ST!Rows] /\ overtaken \subseteq Instances
  BY DEF ST!TypeOK

LEMMA SelectKeeps == ASSUME SettingsInv, NEW i \in Instances, ST!Select(i) PROVE SettingsInv'
  <1> DEFINE new == [rows |-> db, since |-> {db}]
  <1>1. ST!TypeOK
    BY DEF SettingsInv
  <1>2. new \in ST!Reload /\ new.rows \in new.since
    BY <1>1, SettingsTypes DEF ST!Reload
  <1> HIDE DEF new
  <1>3. /\ reload' = [reload EXCEPT ![i] = new]
        /\ UNCHANGED <<db, env, cache, seeded, setting, hook, recent, overtaken, strayed, writes, faults>>
    BY DEF ST!Select, new
  <1>4. ST!TypeOK'
    BY <1>1, <1>2, <1>3 DEF ST!TypeOK
  <1>5. ASSUME NEW j \in Instances PROVE InstanceSound(j)'
    BY <1>1, <1>2, <1>3, SettingsTypes DEF SettingsInv, InstanceSound, ST!Loaded
  <1>6. QED
    BY <1>3, <1>4, <1>5 DEF SettingsInv, WriterSound, ST!Loaded

LEMMA ReplaceKeeps == ASSUME SettingsInv, NEW i \in Instances, ST!Replace(i) PROVE SettingsInv'
  <1>1. ST!TypeOK
    BY DEF SettingsInv
  <1>2. reload[i] \in ST!Reload /\ reload[i].rows \in ST!Rows /\ reload[i].since \in SUBSET ST!Rows
        /\ reload[i].rows \in reload[i].since
    BY <1>1, SettingsTypes DEF ST!Replace, ST!Reload, SettingsInv, InstanceSound
  <1>3. ST!TypeOK'
    BY <1>1, <1>2 DEF ST!Replace, ST!TypeOK
  <1>4. ASSUME NEW j \in Instances PROVE InstanceSound(j)'
    BY <1>1, <1>2, <1>4, SettingsTypes DEF SettingsInv, InstanceSound, ST!Loaded, ST!Replace
  <1>5. ASSUME NEW r \in Writers PROVE WriterSound(r)'
    <2>1. CASE r \in ST!Here(i)
      BY <1>1, <2>1, SettingsTypes DEF ST!Here, ST!Replace, WriterSound
    <2>2. CASE r \notin ST!Here(i)
      <3>1. setting[r] = None \/ setting[r].at # i
        BY <2>2 DEF ST!Here
      <3>2. setting[r] # None => setting[r].at \in Instances
        BY <1>1, SettingsTypes DEF ST!Setting
      <3>3. WriterSound(r)
        BY DEF SettingsInv
      <3>4. QED
        BY <1>1, <3>1, <3>2, <3>3, SettingsTypes DEF ST!Replace, WriterSound, ST!Loaded
    <2>3. QED
      BY <2>1, <2>2
  <1>6. QED
    BY <1>3, <1>4, <1>5 DEF SettingsInv, ST!Replace

LEMMA ReloadFailsKeeps == ASSUME SettingsInv, NEW i \in Instances, ST!ReloadFails(i) PROVE SettingsInv'
  <1>1. ST!TypeOK
    BY DEF SettingsInv
  <1>2. ST!TypeOK'
    BY <1>1, ServerAssumption DEF ST!ReloadFails, ST!TypeOK
  <1>3. ASSUME NEW j \in Instances PROVE InstanceSound(j)'
    BY <1>1, SettingsTypes DEF ST!ReloadFails, SettingsInv, InstanceSound, ST!Loaded
  <1>4. QED
    BY <1>2, <1>3 DEF SettingsInv, ST!ReloadFails, WriterSound, ST!Loaded

LEMMA WriteKeeps ==
  ASSUME SettingsInv, NEW r \in Writers, NEW i \in Instances, NEW v \in ST!Rows, ST!Write(r, i, v),
         seeded \subseteq seeded', seeded' \subseteq Instances,
         writes' \in 0 .. MaxWrites
  PROVE  SettingsInv'
  <1> DEFINE new == [at |-> i, value |-> v]
             kept(j) == [reload[j] EXCEPT !.since = @ \cup {v}]
  <1>1. ST!TypeOK
    BY DEF SettingsInv
  <1>2. new \in ST!Setting /\ new.at = i /\ new.value = v
    BY DEF ST!Setting
  <1>3. ASSUME NEW j \in Instances, reload[j] # None
        PROVE  /\ kept(j) \in ST!Reload /\ kept(j).rows \in kept(j).since
    <2>1. reload[j] \in ST!Reload
      BY <1>1, <1>3, SettingsTypes
    <2>2. kept(j).rows = reload[j].rows /\ kept(j).since = reload[j].since \cup {v}
          /\ kept(j) \in ST!Reload
      BY <2>1 DEF ST!Reload
    <2>3. reload[j].rows \in reload[j].since
      BY <1>3 DEF SettingsInv, InstanceSound
    <2>4. QED
      BY <2>2, <2>3
  <1> HIDE DEF new, kept
  <1>4. /\ db' = v /\ setting' = [setting EXCEPT ![r] = new]
        /\ recent' = [j \in Instances |-> recent[j] \cup {v}]
        /\ reload' = [j \in Instances |-> IF reload[j] = None THEN None ELSE kept(j)]
        /\ UNCHANGED <<env, cache, hook, overtaken, strayed, faults>>
    BY DEF ST!Write, new, kept
  <1>5. ST!TypeOK'
    <2>1. reload' \in [Instances -> {None} \cup ST!Reload]
      BY <1>3, <1>4
    <2>2. setting' \in [Writers -> {None} \cup ST!Setting]
      BY <1>1, <1>2, <1>4, SettingsTypes
    <2>3. recent' \in [Instances -> SUBSET ST!Rows]
      BY <1>1, <1>4, SettingsTypes
    <2>4. QED
      BY <1>1, <1>4, <2>1, <2>2, <2>3 DEF ST!TypeOK
  <1>6. ASSUME NEW j \in Instances PROVE InstanceSound(j)'
    <2>1. InstanceSound(j) /\ recent'[j] = recent[j] \cup {v}
          /\ reload'[j] = IF reload[j] = None THEN None ELSE kept(j)
      BY <1>4 DEF SettingsInv
    <2>2. QED
      BY <1>3, <1>4, <2>1 DEF InstanceSound, ST!Loaded
  <1>7. ASSUME NEW q \in Writers PROVE WriterSound(q)'
    <2>1. CASE q = r
      BY <1>1, <1>2, <1>4, <2>1, SettingsTypes DEF WriterSound
    <2>2. CASE q # r
      <3>1. WriterSound(q) /\ setting'[q] = setting[q]
            /\ (setting[q] # None => setting[q].at \in Instances)
        BY <1>1, <1>4, <2>2, SettingsTypes DEF SettingsInv, ST!Setting
      <3>2. QED
        BY <1>4, <3>1 DEF WriterSound, ST!Loaded
    <2>3. QED
      BY <2>1, <2>2
  <1>8. QED
    BY <1>4, <1>5, <1>6, <1>7 DEF SettingsInv

LEMMA SetKeeps ==
  ASSUME SettingsInv, NEW r \in Writers, NEW i \in Instances,
         ST!Seed(r, i) \/ \E v \in ST!Rows : ST!Put(r, i, v)
  PROVE  SettingsInv'
  <1>1. ST!TypeOK
    BY DEF SettingsInv
  <1>2. CASE ST!Seed(r, i)
    <2>1. ST!Loaded(i) /\ i \notin seeded
      BY <1>2 DEF ST!Seed
    <2>2. env[i] # None
      BY <2>1 DEF SettingsInv, InstanceSound
    <2>3. env[i] \in ST!Rows
      BY <1>1, <2>2, SettingsTypes
    <2>4. ST!Write(r, i, env[i]) /\ seeded' = seeded \cup {i} /\ writes' = writes
      BY <1>2 DEF ST!Seed
    <2>5. writes \in 0 .. MaxWrites /\ seeded \subseteq Instances
      BY <1>1 DEF ST!TypeOK
    <2>6. QED
      BY <2>3, <2>4, <2>5, WriteKeeps
  <1>3. ASSUME NEW v \in ST!Rows, ST!Put(r, i, v) PROVE SettingsInv'
    <2>1. ST!Write(r, i, v) /\ seeded' = seeded /\ writes < MaxWrites /\ writes' = writes + 1
      BY <1>3 DEF ST!Put
    <2>2. writes' \in 0 .. MaxWrites /\ seeded \subseteq Instances
      BY <1>1, <2>1, ServerAssumption DEF ST!TypeOK
    <2>3. QED
      BY <2>1, <2>2, WriteKeeps
  <1>4. QED
    BY <1>2, <1>3

LEMMA InPlaceKeeps == ASSUME SettingsInv, NEW r \in Writers, ST!InPlace(r) PROVE SettingsInv'
  <1> DEFINE i == setting[r].at
             v == setting[r].value
  <1>1. ST!TypeOK
    BY DEF SettingsInv
  <1>2. i \in Instances /\ v \in ST!Rows
    BY <1>1, SettingsTypes DEF ST!InPlace, ST!Setting
  <1>3. v \in recent[i] \/ i \in overtaken \/ ~ ST!Loaded(i)
    BY DEF SettingsInv, WriterSound, ST!InPlace
  <1>4. /\ cache' = [cache EXCEPT ![i] = IF ST!Loaded(i) THEN v ELSE cache[i]]
        /\ setting' = [setting EXCEPT ![r] = None]
        /\ UNCHANGED <<db, env, seeded, reload, hook, recent, overtaken, strayed, writes, faults>>
    BY DEF ST!InPlace
  <1> HIDE DEF i, v
  <1>5. ST!TypeOK'
    BY <1>1, <1>2, <1>4, SettingsTypes DEF ST!TypeOK
  <1>6. ASSUME NEW j \in Instances PROVE InstanceSound(j)' /\ (ST!Loaded(j)' <=> ST!Loaded(j))
    <2>1. InstanceSound(j)
      BY DEF SettingsInv
    <2>2. v # None
      BY <1>2, ServerAssumption
    <2>3. QED
      BY <1>1, <1>2, <1>3, <1>4, <2>1, <2>2, SettingsTypes DEF InstanceSound, ST!Loaded
  <1>7. ASSUME NEW q \in Writers PROVE WriterSound(q)'
    <2>1. CASE q = r
      BY <1>1, <1>4, <2>1, SettingsTypes DEF WriterSound
    <2>2. CASE q # r
      <3>1. WriterSound(q) /\ setting'[q] = setting[q]
            /\ (setting[q] # None => setting[q].at \in Instances)
        BY <1>1, <1>4, <2>2, SettingsTypes DEF SettingsInv, ST!Setting
      <3>2. QED
        BY <1>4, <1>6, <3>1 DEF WriterSound
    <2>3. QED
      BY <2>1, <2>2
  <1>8. QED
    BY <1>4, <1>5, <1>6, <1>7 DEF SettingsInv

LEMMA RestartKeeps == ASSUME SettingsInv, NEW i \in Instances, ST!Restart(i) PROVE SettingsInv'
  <1>1. ST!TypeOK
    BY DEF SettingsInv
  <1>2. env' \in [Instances -> ST!Rows \cup {None}] /\ \A j \in Instances \ {i} : env'[j] = env[j]
    BY <1>1, SettingsTypes DEF ST!Restart
  <1>3. /\ cache' = [cache EXCEPT ![i] = None]
        /\ reload' = [reload EXCEPT ![i] = None]
        /\ setting' = [r \in Writers |-> IF r \in ST!Here(i) THEN None ELSE setting[r]]
        /\ seeded' = seeded \ {i} /\ overtaken' = overtaken \ {i}
        /\ recent' = [recent EXCEPT ![i] = {}]
        /\ UNCHANGED <<db, hook, strayed, writes>>
    BY DEF ST!Restart
  <1>4. faults' \in 0 .. MaxFaults
    BY <1>1, ServerAssumption DEF ST!Restart, ST!TypeOK
  <1>5. ST!TypeOK'
    BY <1>1, <1>2, <1>3, <1>4, SettingsTypes DEF ST!TypeOK
  <1>6. ASSUME NEW j \in Instances PROVE InstanceSound(j)'
    <2>1. InstanceSound(j)
      BY DEF SettingsInv
    <2>2. QED
      BY <1>1, <1>2, <1>3, <2>1, SettingsTypes DEF InstanceSound, ST!Loaded
  <1>7. ASSUME NEW r \in Writers PROVE WriterSound(r)'
    <2>1. CASE r \in ST!Here(i)
      BY <1>3, <2>1 DEF WriterSound
    <2>2. CASE r \notin ST!Here(i)
      <3>1. setting'[r] = setting[r] /\ (setting[r] # None => setting[r].at \in Instances \ {i})
        BY <1>1, <1>3, <2>2, SettingsTypes DEF ST!Here, ST!Setting
      <3>2. WriterSound(r)
        BY DEF SettingsInv
      <3>3. QED
        BY <1>1, <1>3, <3>1, <3>2, SettingsTypes DEF WriterSound, ST!Loaded
    <2>3. QED
      BY <2>1, <2>2
  <1>8. QED
    BY <1>3, <1>5, <1>6, <1>7 DEF SettingsInv

\* An address that passes is external or in the cache, which is a recent row.
LEMMA DeliverKeeps ==
  ASSUME SettingsInv, NEW i \in Instances, NEW ips \in SUBSET ST!Addresses, ST!Deliver(i, ips)
  PROVE  SettingsInv'
  <1>1. ST!TypeOK /\ ~ strayed /\ InstanceSound(i) /\ ST!Loaded(i)
    BY DEF SettingsInv, ST!Deliver, ST!Up
  <1>2. UNCHANGED <<db, env, cache, seeded, reload, setting, hook, recent, overtaken, writes, faults>>
    BY DEF ST!Deliver
  <1>3. ASSUME NEW pin \in ips, pin \in Internal, i \notin overtaken
        PROVE  \E row \in recent[i] : pin \in row
    <2>1. pin \in cache[i]
      BY <1>3, ServerAssumption DEF ST!Deliver, ST!Passes
    <2>2. cache[i] \in recent[i]
      BY <1>1, <1>3 DEF InstanceSound
    <2>3. QED
      BY <2>1, <2>2
  <1>4. ~ strayed'
    <2>1. PICK pin \in ips :
            strayed' = (strayed \/ /\ pin \in Internal /\ i \notin overtaken
                                   /\ \A row \in recent[i] : pin \notin row)
      BY DEF ST!Deliver
    <2>2. QED
      BY <1>1, <1>3, <2>1
  <1>5. strayed' \in BOOLEAN
    BY DEF ST!Deliver
  <1>6. ST!TypeOK'
    BY <1>1, <1>2, <1>5 DEF ST!TypeOK, ST!Deliver
  <1>7. QED
    BY <1>2, <1>4, <1>6 DEF SettingsInv, InstanceSound, WriterSound, ST!Loaded

LEMMA SettingsInvStep == SettingsInv /\ [ST!Next]_settingVars => SettingsInv'
  <1> SUFFICES ASSUME SettingsInv, [ST!Next]_settingVars PROVE SettingsInv'
    OBVIOUS
  <1>1. ASSUME UNCHANGED settingVars \/ ST!RemoveWebhook
               \/ \E i \in Instances, ips \in (SUBSET ST!Addresses) \ {{}} : ST!SetWebhook(i, ips)
        PROVE  SettingsInv'
    <2>1. UNCHANGED <<db, env, cache, seeded, reload, setting, recent, overtaken, strayed, writes, faults>>
          /\ hook' \in BOOLEAN
      BY <1>1 DEF settingVars, ST!RemoveWebhook, ST!SetWebhook, SettingsInv, ST!TypeOK
    <2>2. QED
      BY <2>1 DEF SettingsInv, ST!TypeOK, InstanceSound, WriterSound, ST!Loaded
  <1>2. QED
    BY <1>1, SelectKeeps, ReplaceKeeps, ReloadFailsKeeps, SetKeeps, InPlaceKeeps, RestartKeeps, DeliverKeeps
       DEF ST!Next
-----------------------------------------------------------------------------
(* The form of the parameters. *)

\* A save of a row without a cause to differ is the only one of that row in flight; until it
\* is served, or when it was refused, the row shows what is stored, and after that it
\* will.
SaveSound(s) ==
  LET k == s.key IN
    /\ k \in Secret => s.value # ""
    /\ k \notin excused =>
         /\ \A q \in SF!Ours(k) : q = s
         /\ IF s.served /\ ~ s.refused THEN stored[k] = s.value
            ELSE shown[k] = SF!Masked(k, stored[k])
RowSound(k) ==
  k \notin excused => /\ loading = "read" => answer[k] = SF!Masked(k, stored[k])
                      /\ loading = "done" /\ SF!Ours(k) = {} => shown[k] = SF!Masked(k, stored[k])
FormInv ==
  /\ SF!TypeOK
  /\ \A k \in Keys \ Secret : answer[k] # "SET"
  /\ loading # "done" => saves = {} /\ \A k \in Keys : typed[k] = {}
  /\ \A s \in saves : SaveSound(s)
  /\ \A k \in Keys : RowSound(k)
  /\ SF!NothingSwallowed

Shown == SF!Texts \cup {"other", "SET"}

LEMMA MaskedTyped ==
  ASSUME NEW k \in Keys, NEW v \in {"", "a", "other"} \cup SF!Texts
  PROVE  SF!Masked(k, v) \in Shown /\ (k \notin Secret => SF!Masked(k, v) = v)
         /\ (k \in Secret => SF!Masked(k, v) = IF v = "" THEN v ELSE "SET")
  BY DEF SF!Masked, SF!Texts, Shown

LEMMA FormBounds == MaxSaves \in Nat /\ MaxElsewhere \in Nat
  BY ServerAssumption

LEMMA FormInvInit == SF!Init => FormInv
  <1> SUFFICES ASSUME SF!Init PROVE FormInv
    OBVIOUS
  <1>1. SF!TypeOK
    <2>1. /\ answer = [k \in Keys |-> ""] /\ shown = [k \in Keys |-> ""]
          /\ draft = [k \in Keys |-> ""] /\ typed = [k \in Keys |-> {}]
          /\ stored \in [Keys -> {"", "a", "other"}]
      BY DEF SF!Init
    <2>2. count \in 0 .. MaxSaves /\ elsewhere \in 0 .. MaxElsewhere
      <3>1. count = 0 /\ elsewhere = 0
        BY DEF SF!Init
      <3>2. QED
        BY <3>1, FormBounds
    <2>3. QED
      BY <2>1, <2>2 DEF SF!Init, SF!TypeOK, SF!Texts
  <1>2. QED
    BY <1>1 DEF SF!Init, FormInv, RowSound, SF!NothingSwallowed

LEMMA FormTypes ==
  ASSUME SF!TypeOK
  PROVE  /\ stored \in [Keys -> {"", "a", "other"}]
         /\ shown \in [Keys -> Shown] /\ answer \in [Keys -> Shown]
         /\ draft \in [Keys -> SF!Texts \cup {"other"}]
         /\ saves \subseteq SF!Save /\ \A s \in saves : s.key \in Keys /\ s.value \in SF!Texts
         /\ typed \in [Keys -> SUBSET SF!Texts]
         /\ cleared \subseteq Secret /\ excused \subseteq Keys
         /\ count \in 0 .. MaxSaves /\ elsewhere \in 0 .. MaxElsewhere
  BY DEF SF!TypeOK, Shown, SF!Save

LEMMA ListKeeps == FormInv /\ SF!List => FormInv'
  <1> SUFFICES ASSUME FormInv, SF!List PROVE FormInv'
    OBVIOUS
  <1>1. SF!TypeOK
    BY DEF FormInv
  <1>2. answer' \in [Keys -> Shown]
    BY <1>1, FormTypes, MaskedTyped DEF SF!List
  <1>3. SF!TypeOK'
    BY <1>1, <1>2 DEF SF!List, SF!TypeOK, SF!page, Shown
  <1>4. saves' = {}
    BY DEF FormInv, SF!List
  <1>5. \A k \in Keys \ Secret : answer'[k] # "SET"
    BY <1>1, FormTypes, MaskedTyped DEF SF!List
  <1>6. QED
    BY <1>3, <1>4, <1>5 DEF FormInv, SF!List, SF!page, RowSound, SF!NothingSwallowed, SF!Masked

LEMMA LoadedKeeps == FormInv /\ SF!Loaded => FormInv'
  <1> SUFFICES ASSUME FormInv, SF!Loaded PROVE FormInv'
    OBVIOUS
  <1>1. SF!TypeOK
    BY DEF FormInv
  <1>2. draft' \in [Keys -> SF!Texts \cup {"other"}]
    <2> SUFFICES ASSUME NEW k \in Keys, k \notin Secret PROVE answer[k] \in SF!Texts \cup {"other"}
      BY DEF SF!Loaded, SF!Texts
    <2> QED
      BY <1>1, FormTypes DEF FormInv, Shown
  <1>3. SF!TypeOK'
    BY <1>1, <1>2 DEF SF!Loaded, SF!TypeOK
  <1>4. saves' = {} /\ \A k \in Keys : typed'[k] = {}
    BY DEF FormInv, SF!Loaded
  <1>5. QED
    BY <1>3, <1>4 DEF FormInv, SF!Loaded, RowSound, SF!NothingSwallowed, SF!Masked

LEMMA ElsewhereKeeps == ASSUME FormInv, NEW k \in Keys, SF!Elsewhere(k) PROVE FormInv'
  <1>1. SF!TypeOK
    BY DEF FormInv
  <1>2. SF!TypeOK'
    <2>1. elsewhere' \in 0 .. MaxElsewhere
      <3>1. elsewhere < MaxElsewhere /\ elsewhere' = elsewhere + 1
        BY DEF SF!Elsewhere
      <3>2. elsewhere \in 0 .. MaxElsewhere
        BY <1>1, FormTypes
      <3>3. QED
        BY <3>1, <3>2, FormBounds
    <2>2. stored' \in [Keys -> {"", "a", "other"}]
      BY <1>1, FormTypes DEF SF!Elsewhere
    <2>3. QED
      BY <1>1, <2>1, <2>2 DEF SF!Elsewhere, SF!TypeOK, SF!page
  <1>3. /\ UNCHANGED <<loading, answer, shown, draft, savingKey, typed, cleared, saves, count>>
        /\ \A j \in Keys \ {k} : stored'[j] = stored[j]
        /\ excused' = excused \cup {k}
    BY <1>1 DEF SF!Elsewhere, SF!page, SF!TypeOK
  <1>4. ASSUME NEW s \in saves PROVE SaveSound(s)'
    BY <1>1, <1>3, FormTypes DEF FormInv, SaveSound, SF!Ours, SF!Masked
  <1>5. QED
    BY <1>2, <1>3, <1>4 DEF FormInv, RowSound, SF!NothingSwallowed, SF!Ours, SF!Masked

LEMMA TypeKeeps == ASSUME FormInv, NEW k \in Keys, NEW t \in SF!Texts, SF!Type(k, t) PROVE FormInv'
  <1>1. SF!TypeOK
    BY DEF FormInv
  <1>2. SF!TypeOK'
    BY <1>1 DEF SF!Type, SF!TypeOK
  <1>3. SF!NothingSwallowed'
    BY <1>1, FormTypes DEF FormInv, SF!Type, SF!NothingSwallowed
  <1>4. QED
    BY <1>2, <1>3 DEF FormInv, SF!Type, SaveSound, RowSound, SF!Ours, SF!Masked

LEMMA SendKeeps == ASSUME FormInv, NEW k \in Keys, SF!Send(k) PROVE FormInv'
  <1> DEFINE new == [n |-> count + 1, key |-> k, value |-> draft[k], served |-> FALSE, refused |-> FALSE]
  <1>1. SF!TypeOK
    BY DEF FormInv
  <1>2. new \in SF!Save /\ new.key = k /\ new.value = draft[k] /\ ~ new.served
    <2>1. count + 1 \in 1 .. MaxSaves
      <3>1. count < MaxSaves
        BY DEF SF!Send
      <3>2. count \in 0 .. MaxSaves
        BY <1>1, FormTypes
      <3>3. QED
        BY <3>1, <3>2, FormBounds
    <2>2. draft[k] \in SF!Texts
      BY DEF SF!Send
    <2>3. QED
      BY <2>1, <2>2 DEF SF!Save
  <1>3. k \in Secret => draft[k] # ""
    BY DEF SF!Send, SF!Changed
  <1> HIDE DEF new
  <1>4. /\ loading = "done" /\ count' = count + 1 /\ count < MaxSaves /\ savingKey' = {k}
        /\ saves' = saves \cup {new}
        /\ excused' = IF SF!Ours(k) = {} THEN excused ELSE excused \cup {k}
        /\ UNCHANGED <<stored, loading, answer, shown, draft, elsewhere, typed, cleared>>
    BY DEF SF!Send, new
  <1>5. SF!TypeOK'
    <2>1. count' \in 0 .. MaxSaves
      <3>1. count \in 0 .. MaxSaves
        BY <1>1, FormTypes
      <3>2. QED
        BY <1>4, <3>1, FormBounds
    <2>2. QED
      BY <1>1, <1>2, <1>4, <2>1 DEF SF!TypeOK
  <1>6. ASSUME NEW s \in saves' PROVE SaveSound(s)'
    <2>1. CASE s = new
      <3>1. ASSUME k \notin excused'
            PROVE  SF!Ours(k)' = {new} /\ shown[k] = SF!Masked(k, stored[k])
        BY <1>2, <1>4, <3>1 DEF FormInv, RowSound, SF!Ours
      <3>2. QED
        BY <1>2, <1>3, <1>4, <2>1, <3>1 DEF SaveSound, SF!Masked
    <2>2. CASE s \in saves
      <3>1. SaveSound(s)
        BY <2>2 DEF FormInv
      <3>2. s.key = k => k \in excused'
        BY <1>4, <2>2 DEF SF!Ours
      <3>3. s.key # k => SF!Ours(s.key)' = SF!Ours(s.key)
        BY <1>2, <1>4 DEF SF!Ours
      <3>4. s.key # k => (s.key \in excused' <=> s.key \in excused)
        BY <1>4
      <3>5. QED
        BY <1>4, <3>1, <3>2, <3>3, <3>4 DEF SaveSound, SF!Masked
    <2>3. QED
      BY <1>4, <2>1, <2>2
  <1>7. QED
    BY <1>4, <1>5, <1>6 DEF FormInv, RowSound, SF!NothingSwallowed, SF!Ours, SF!Masked

LEMMA PutKeeps == ASSUME FormInv, NEW s \in saves, SF!Put(s) PROVE FormInv'
  <1> DEFINE k == s.key
  <1>1. SF!TypeOK /\ SaveSound(s) /\ loading = "done" /\ ~ s.served
    BY DEF FormInv, SF!Put
  <1>2. s \in SF!Save /\ k \in Keys /\ s.value \in SF!Texts
    BY <1>1, FormTypes
  <1>3. PICK refused \in BOOLEAN :
          /\ saves' = (saves \ {s}) \cup {[s EXCEPT !.served = TRUE, !.refused = refused]}
          /\ stored' = IF refused THEN stored ELSE [stored EXCEPT ![s.key] = SF!Trim(s.value)]
    BY DEF SF!Put
  <1> DEFINE new == [s EXCEPT !.served = TRUE, !.refused = refused]
  <1>4. /\ new \in SF!Save /\ new.key = k /\ new.value = s.value /\ new.served
        /\ new.refused = refused
    BY <1>2 DEF SF!Save
  <1>5. /\ saves' = (saves \ {s}) \cup {new}
        /\ UNCHANGED <<loading, answer, shown, draft, savingKey, typed, cleared, count, elsewhere>>
        /\ excused' = IF SF!Trim(s.value) # s.value THEN excused \cup {k} ELSE excused
    BY <1>3 DEF SF!Put, SF!page
  <1> HIDE DEF new, k
  <1>6. SF!Trim(s.value) \in {"", "a"}
    BY <1>2 DEF SF!Trim, SF!Texts
  <1>7. /\ stored' \in [Keys -> {"", "a", "other"}]
        /\ stored'[k] = IF refused THEN stored[k] ELSE SF!Trim(s.value)
        /\ \A j \in Keys : j # k => stored'[j] = stored[j]
    BY <1>1, <1>2, <1>3, <1>6, FormTypes DEF k
  <1>8. SF!TypeOK'
    BY <1>1, <1>2, <1>4, <1>5, <1>7 DEF SF!TypeOK
  <1>9. ASSUME NEW q \in saves' PROVE SaveSound(q)'
    <2>1. CASE q = new
      <3>1. ASSUME k \notin excused' PROVE SF!Ours(k)' = {new} /\ k \notin excused /\ s.value = SF!Trim(s.value)
        <4>1. k \notin excused /\ s.value = SF!Trim(s.value)
          BY <1>5, <3>1
        <4>2. \A p \in SF!Ours(k) : p = s
          BY <1>1, <4>1 DEF SaveSound, k
        <4>3. QED
          BY <1>4, <1>5, <4>1, <4>2 DEF SF!Ours
      <3>2. k \notin excused' => shown[k] = SF!Masked(k, stored[k])
        BY <1>1, <3>1 DEF SaveSound, k
      <3>3. k \in Secret => new.value # ""
        BY <1>1, <1>4 DEF SaveSound, k
      <3>4. QED
        BY <1>4, <1>5, <1>7, <2>1, <3>1, <3>2, <3>3 DEF SaveSound, SF!Masked
    <2>2. CASE q \in saves \ {s} /\ q.key = k
      <3>1. k \in excused
        BY <1>1, <2>2 DEF SaveSound, SF!Ours, k
      <3>2. SaveSound(q)
        BY <2>2 DEF FormInv
      <3>3. QED
        BY <1>5, <2>2, <3>1, <3>2 DEF SaveSound
    <2>3. CASE q \in saves \ {s} /\ q.key # k
      <3>1. SaveSound(q) /\ q.key \in Keys
        BY <1>1, <2>3, FormTypes DEF FormInv
      <3>2. SF!Ours(q.key)' = SF!Ours(q.key)
        BY <1>4, <1>5, <2>3, <3>1 DEF SF!Ours, k
      <3>3. QED
        BY <1>5, <1>7, <2>3, <3>1, <3>2 DEF SaveSound, SF!Masked
    <2>4. QED
      BY <1>5, <2>1, <2>2, <2>3
  <1>10. ASSUME NEW j \in Keys PROVE RowSound(j)'
    <2>1. CASE j = k
      <3>1. new \in SF!Ours(k)'
        BY <1>4, <1>5 DEF SF!Ours
      <3>2. QED
        BY <1>1, <1>5, <2>1, <3>1 DEF RowSound
    <2>2. CASE j # k
      <3>1. SF!Ours(j)' = SF!Ours(j)
        BY <1>4, <1>5, <2>2 DEF SF!Ours, k
      <3>2. QED
        BY <1>5, <1>7, <2>2, <3>1 DEF RowSound, FormInv, SF!Masked
    <2>3. QED
      BY <2>1, <2>2
  <1>11. QED
    BY <1>1, <1>5, <1>8, <1>9, <1>10 DEF FormInv, SF!NothingSwallowed

LEMMA EndKeeps == ASSUME FormInv, NEW s \in saves, SF!Saved(s) \/ SF!Failed(s) PROVE FormInv'
  <1> DEFINE k == s.key
  <1>1. SF!TypeOK /\ SaveSound(s) /\ loading = "done" /\ s.served
    BY DEF FormInv, SF!Saved, SF!Failed
  <1>2. s \in SF!Save /\ k \in Keys /\ s.value \in SF!Texts
    BY <1>1, FormTypes
  <1>3. /\ saves' = saves \ {s} /\ savingKey' = {} /\ excused \subseteq excused'
        /\ UNCHANGED <<stored, loading, answer, count, elsewhere, typed>>
    BY DEF SF!Saved, SF!Failed
  <1>4. \/ /\ ~ s.refused /\ excused' = excused
           /\ shown' = [shown EXCEPT ![k] = IF k \in Secret THEN "SET" ELSE s.value]
           /\ draft' = IF k \in Secret THEN [draft EXCEPT ![k] = ""] ELSE draft
           /\ cleared' = cleared \cup ({k} \cap Secret)
        \/ /\ excused' = IF s.refused THEN excused ELSE excused \cup {k}
           /\ UNCHANGED <<shown, draft, cleared>>
    BY DEF SF!Saved, SF!Failed, SF!OneField
  <1> HIDE DEF k
  <1>5. /\ shown' \in [Keys -> Shown] /\ \A j \in Keys : j # k => shown'[j] = shown[j]
        /\ draft' \in [Keys -> SF!Texts \cup {"other"}]
        /\ \A j \in Keys : j # k => draft'[j] = draft[j]
        /\ k \notin Secret => draft' = draft
        /\ cleared' \subseteq Secret /\ (k \in Secret => draft' = draft \/ k \in cleared')
        /\ cleared \subseteq cleared'
        /\ excused' \subseteq Keys
    <2>1. /\ shown \in [Keys -> Shown] /\ draft \in [Keys -> SF!Texts \cup {"other"}]
          /\ cleared \subseteq Secret /\ excused \subseteq Keys
      BY <1>1, FormTypes
    <2>2. "SET" \in Shown /\ s.value \in Shown /\ "" \in SF!Texts
      BY <1>2 DEF Shown, SF!Texts
    <2>3. CASE UNCHANGED <<shown, draft, cleared>>
      BY <1>2, <1>4, <2>1, <2>3
    <2>4. CASE k \in Secret /\ ~ UNCHANGED <<shown, draft, cleared>>
      BY <1>2, <1>4, <2>1, <2>2, <2>4
    <2>5. CASE k \notin Secret /\ ~ UNCHANGED <<shown, draft, cleared>>
      BY <1>2, <1>4, <2>1, <2>2, <2>5
    <2>6. QED
      BY <2>3, <2>4, <2>5
  <1>6. SF!TypeOK'
    BY <1>1, <1>3, <1>5 DEF SF!TypeOK, Shown
  <1>7. k \notin excused' => shown'[k] = SF!Masked(k, stored[k])
    <2> SUFFICES ASSUME k \notin excused' PROVE shown'[k] = SF!Masked(k, stored[k])
      OBVIOUS
    <2>1. k \notin excused /\ (k \in Secret => s.value # "")
          /\ IF s.refused THEN shown[k] = SF!Masked(k, stored[k]) ELSE stored[k] = s.value
      BY <1>1, <1>3 DEF SaveSound, k
    <2>2. CASE s.refused
      BY <1>4, <2>1, <2>2
    <2>3. CASE ~ s.refused
      <3>1. shown' = [shown EXCEPT ![k] = IF k \in Secret THEN "SET" ELSE s.value]
        BY <1>4, <2>3
      <3>2. shown'[k] = IF k \in Secret THEN "SET" ELSE s.value
        BY <1>1, <1>2, <3>1, FormTypes DEF k
      <3>3. QED
        BY <2>1, <2>3, <3>2 DEF SF!Masked
    <2>4. QED
      BY <2>2, <2>3
  <1>8. ASSUME NEW q \in saves' PROVE SaveSound(q)'
    <2>0. q \in saves /\ q # s /\ SaveSound(q) /\ q.key \in Keys
      BY <1>1, <1>3, FormTypes DEF FormInv
    <2>1. CASE q.key = k
      BY <1>1, <1>3, <2>0, <2>1 DEF SaveSound, SF!Ours, k
    <2>2. CASE q.key # k
      <3>1. \A p \in SF!Ours(q.key)' : p \in SF!Ours(q.key)
        BY <1>3 DEF SF!Ours
      <3>2. q.key \notin excused' => q.key \notin excused
        BY <1>3
      <3>3. shown'[q.key] = shown[q.key]
        BY <1>5, <2>0, <2>2
      <3>4. QED
        BY <1>3, <2>0, <3>1, <3>2, <3>3 DEF SaveSound, SF!Masked
    <2>3. QED
      BY <2>1, <2>2
  <1>9. ASSUME NEW j \in Keys PROVE RowSound(j)'
    <2>1. CASE j = k
      BY <1>1, <1>3, <1>7, <2>1 DEF RowSound, SF!Masked
    <2>2. CASE j # k
      <3>1. SF!Ours(j)' = SF!Ours(j)
        BY <1>3, <2>2 DEF SF!Ours, k
      <3>2. QED
        BY <1>1, <1>3, <1>5, <2>2, <3>1 DEF RowSound, FormInv, SF!Masked
    <2>3. QED
      BY <2>1, <2>2
  <1>10. SF!NothingSwallowed'
    <2> SUFFICES ASSUME NEW j \in Keys, NEW t \in typed[j] PROVE draft'[j] = t \/ j \in cleared'
      BY <1>3 DEF SF!NothingSwallowed
    <2>1. draft[j] = t \/ j \in cleared
      BY DEF FormInv, SF!NothingSwallowed
    <2>2. QED
      BY <1>5, <2>1
  <1>11. QED
    BY <1>1, <1>3, <1>6, <1>8, <1>9, <1>10 DEF FormInv

LEMMA FormInvStep == FormInv /\ [SF!Next]_formVars => FormInv'
  <1> SUFFICES ASSUME FormInv, [SF!Next]_formVars PROVE FormInv'
    OBVIOUS
  <1>1. CASE UNCHANGED formVars
    BY <1>1 DEF formVars, FormInv, SF!TypeOK, SaveSound, RowSound, SF!NothingSwallowed, SF!Ours, SF!Masked
  <1>2. QED
    BY <1>1, ListKeeps, LoadedKeeps, ElsewhereKeeps, TypeKeeps, SendKeeps, PutKeeps, EndKeeps
       DEF SF!Next, SF!Click, SF!PressEnter

LEMMA FormIsSound == FormInv => SF!FormSound
  BY DEF FormInv, RowSound, SF!FormSound, SF!RowHasCause
-----------------------------------------------------------------------------
(* The archive of the audit log. *)

InFile(rows) == file.whole /\ rows \subseteq file.rows
UpTo(x)      == {y \in table : y <= x}

\* How far a run is that has the month to itself: what it has got are the rows up to last.
RunSound(r) ==
  /\ run[r].step = "open" => run[r].got = {} /\ run[r].last = 0
  /\ run[r].step = "stream" => run[r].got = UpTo(run[r].last)
  /\ run[r].step = "close" => run[r].got = table
  /\ run[r].step = "delete" => InFile(table)

\* Until a run has deleted the month, the table holds every record.
Whole ==
  /\ \/ table = logged
     \/ table = {} /\ begun /\ InFile(logged) /\ \A r \in Runs : run[r] = None
  /\ \A r \in Runs : run[r] # None => RunSound(r)

ArchiveInv ==
  /\ AA!TypeOK /\ IsFiniteSet(table)
  /\ \A r \in Runs : run[r] # None => begun
  /\ ~ crossed => \A q, r \in Runs : run[q] # None /\ run[r] # None => q = r
  /\ ~ crossed /\ ~ late => Whole

LEMMA ArchiveInvInit == AA!Init => ArchiveInv
  <1> SUFFICES ASSUME AA!Init PROVE ArchiveInv
    OBVIOUS
  <1>1. AA!TypeOK
    BY DEF AA!Init, AA!TypeOK
  <1>2. QED
    BY <1>1, FS_EmptySet DEF AA!Init, ArchiveInv, Whole

LEMMA ArchiveTypes ==
  ASSUME AA!TypeOK
  PROVE  /\ run \in [Runs -> {None} \cup AA!Progress]
         /\ \A r \in Runs : run[r] # None => /\ run[r] \in AA!Progress
                                             /\ run[r].last \in Nat /\ run[r].got \subseteq Records
         /\ table \subseteq Records /\ Records \subseteq Nat /\ 0 \notin Records
         /\ None \notin AA!Progress
  <1>1. Records \subseteq Nat /\ 0 \notin Records /\ None \notin AA!Progress
    BY ServerAssumption
  <1>2. run \in [Runs -> {None} \cup AA!Progress] /\ table \subseteq Records
    BY DEF AA!TypeOK
  <1>3. ASSUME NEW r \in Runs, run[r] # None
        PROVE  run[r] \in AA!Progress /\ run[r].last \in Records \cup {0} /\ run[r].got \subseteq Records
    <2>1. run[r] \in AA!Progress
      BY <1>2, <1>3
    <2>2. QED
      BY <2>1 DEF AA!Progress
  <1>4. Records \cup {0} \subseteq Nat
    BY <1>1
  <1>5. QED
    BY <1>1, <1>2, <1>3, <1>4

LEMMA InsertEndsKeeps == ASSUME ArchiveInv, NEW x \in Records, AA!InsertEnds(x) PROVE ArchiveInv'
  <1>1. AA!TypeOK'
    BY DEF ArchiveInv, AA!TypeOK, AA!InsertEnds
  <1>2. IsFiniteSet(table')
    BY FS_AddElement DEF ArchiveInv, AA!InsertEnds
  <1>3. /\ UNCHANGED <<run, file, begun, crossed>>
        /\ \/ table' = table \cup {x} /\ logged' = logged \cup {x} /\ late' = (late \/ begun)
           \/ UNCHANGED <<table, logged, late>>
    BY DEF AA!InsertEnds
  <1>4. ~ crossed' /\ ~ late' => Whole'
    BY <1>3 DEF ArchiveInv, Whole, RunSound, InFile, UpTo
  <1>5. QED
    BY <1>1, <1>2, <1>3, <1>4 DEF ArchiveInv

\* A step of one run: it goes on or ends, the others stay where they are.
LEMMA RunKeeps ==
  ASSUME ArchiveInv, NEW r \in Runs, run[r] # None, NEW p \in {None} \cup AA!Progress,
         run' = [run EXCEPT ![r] = p],
         file' \in [rows: SUBSET Records, whole: BOOLEAN],
         table' \in {{}, table}, UNCHANGED <<month, pending, logged, begun, crossed, late>>,
         ASSUME Whole, \A q \in Runs \ {r} : run[q] = None
         PROVE  /\ p # None => RunSound(r)'
                /\ table' = table \/ (p = None /\ InFile(logged)')
  PROVE  ArchiveInv'
  <1>1. AA!TypeOK /\ run \in [Runs -> {None} \cup AA!Progress] /\ begun
    BY ArchiveTypes DEF ArchiveInv
  <1>2. run'[r] = p /\ \A q \in Runs \ {r} : run'[q] = run[q]
    BY <1>1
  <1>3. AA!TypeOK'
    BY <1>1 DEF AA!TypeOK
  <1>4. IsFiniteSet(table')
    BY FS_EmptySet DEF ArchiveInv
  <1>5. ~ crossed' => \A q, s \in Runs : run'[q] # None /\ run'[s] # None => q = s
    BY <1>2 DEF ArchiveInv
  <1>6. ~ crossed' /\ ~ late' => Whole'
    <2> SUFFICES ASSUME ~ crossed, ~ late PROVE Whole'
      OBVIOUS
    <2>1. Whole /\ \A q \in Runs \ {r} : run[q] = None
      BY DEF ArchiveInv
    <2>2. table = logged
      BY <2>1 DEF Whole
    <2>3. /\ p # None => RunSound(r)'
          /\ table' = table \/ (p = None /\ InFile(logged)')
      BY <2>1
    <2>4. \A q \in Runs : run'[q] # None => RunSound(q)'
      BY <1>2, <2>1, <2>3
    <2>5. \/ table' = logged'
          \/ table' = {} /\ begun' /\ InFile(logged)' /\ \A q \in Runs : run'[q] = None
      <3>1. begun' /\ logged' = logged /\ (table' = table \/ table' = {})
        BY <1>1
      <3>2. p = None => \A q \in Runs : run'[q] = None
        BY <1>2, <2>1
      <3>3. QED
        BY <2>2, <2>3, <3>1, <3>2
    <2>6. QED
      BY <2>4, <2>5 DEF Whole
  <1>7. QED
    BY <1>1, <1>3, <1>4, <1>5, <1>6 DEF ArchiveInv

LEMMA ListMonthKeeps == ASSUME ArchiveInv, NEW r \in Runs, AA!List(r) PROVE ArchiveInv'
  <1> DEFINE p == [step |-> "open", last |-> 0, got |-> {}]
  <1>1. AA!TypeOK
    BY DEF ArchiveInv
  <1>2. p \in AA!Progress /\ p.step = "open" /\ p.got = {} /\ p.last = 0
    BY DEF AA!Progress
  <1> HIDE DEF p
  <1>3. /\ run[r] = None /\ run' = [run EXCEPT ![r] = p] /\ table # {}
        /\ crossed' = (crossed \/ \E q \in Runs : run[q] # None)
        /\ begun' /\ begun' = TRUE
        /\ UNCHANGED <<month, pending, table, file, logged, late>>
    BY DEF AA!List, p
  <1>4. run'[r] = p /\ \A q \in Runs \ {r} : run'[q] = run[q]
    BY <1>1, <1>3, ArchiveTypes
  <1>5. AA!TypeOK'
    BY <1>1, <1>2, <1>3 DEF AA!TypeOK
  <1>6. ~ crossed' => \A q \in Runs \ {r} : run'[q] = None
    BY <1>3, <1>4
  <1>7. RunSound(r)'
    BY <1>2, <1>4 DEF RunSound
  <1>8. ~ crossed' /\ ~ late' => Whole'
    BY <1>3, <1>4, <1>6, <1>7 DEF ArchiveInv, Whole
  <1>9. QED
    BY <1>3, <1>5, <1>6, <1>8 DEF ArchiveInv

LEMMA OpenKeeps == ASSUME ArchiveInv, NEW r \in Runs, AA!Open(r) PROVE ArchiveInv'
  <1> DEFINE p == [run[r] EXCEPT !.step = "stream"]
  <1>1. AA!TypeOK /\ run[r] # None /\ run[r].step = "open"
    BY DEF ArchiveInv, AA!Open, AA!At
  <1>2. run[r] \in AA!Progress
    BY <1>1, ArchiveTypes
  <1>3. p \in AA!Progress /\ p.step = "stream" /\ p.last = run[r].last /\ p.got = run[r].got
    BY <1>2 DEF AA!Progress
  <1> HIDE DEF p
  <1>4. /\ run' = [run EXCEPT ![r] = p]
        /\ file' \in [rows: SUBSET Records, whole: BOOLEAN]
        /\ UNCHANGED <<month, pending, table, logged, begun, crossed, late>>
    BY DEF AA!Open, AA!history, p
  <1>5. ASSUME Whole PROVE RunSound(r)'
    <2>1. run'[r] = p
      BY <1>1, <1>4, ArchiveTypes
    <2>2. p.last = 0 /\ p.got = {}
      BY <1>1, <1>3, <1>5 DEF Whole, RunSound
    <2>3. UpTo(0)' = {}
      BY <1>1, <1>4, ArchiveTypes DEF UpTo
    <2>4. QED
      BY <1>3, <2>1, <2>2, <2>3 DEF RunSound
  <1>6. QED
    BY <1>1, <1>3, <1>4, <1>5, RunKeeps

LEMMA SameCardinality == \A S : AA!Cardinality(S) = Cardinality(S)
  BY DEF AA!Cardinality, Cardinality

\* A batch goes on where the last one ended, and a short one is the last.
LEMMA BatchIsNext ==
  ASSUME AA!TypeOK, IsFiniteSet(table), NEW r \in Runs, run[r] # None
  PROVE  LET rows == AA!NextBatch(r) IN
           /\ rows \subseteq AA!Beyond(r) /\ rows \subseteq table
           /\ rows # {} => /\ AA!Largest(rows) \in rows
                           /\ \A x \in AA!Beyond(r) : x \in rows <=> x <= AA!Largest(rows)
           /\ AA!Short(rows) => rows = AA!Beyond(r)
  <1> DEFINE rows == AA!NextBatch(r)
             rest == AA!Beyond(r)
  <1>1. rest \subseteq table /\ rest \subseteq Nat /\ IsFiniteSet(rest)
    BY ArchiveTypes, FS_Subset DEF AA!Beyond
  <1>2. ASSUME NEW x \in rest
        PROVE  Cardinality({y \in rest : y <= x}) = Cardinality(Below(rest, x)) + 1
    <2>1. {y \in rest : y <= x} = Below(rest, x) \cup {x} /\ x \notin Below(rest, x)
      <3>1. x \in Nat /\ \A y \in rest : y \in Nat /\ (y <= x <=> y < x \/ y = x)
        BY <1>1
      <3> HIDE DEF rest
      <3>2. ASSUME NEW y PROVE y \in {z \in rest : z <= x} <=> y \in Below(rest, x) \cup {x}
        BY <3>1 DEF Below
      <3>3. x \notin Below(rest, x)
        BY <3>1 DEF Below
      <3>4. QED
        BY <3>2, <3>3
    <2>2. IsFiniteSet(Below(rest, x))
      BY <1>1, RankGrows
    <2>3. QED
      BY <2>1, <2>2, FS_AddElement
  <1>3. rows = FirstOf(rest, BatchSize)
    <2>1. \A x \in rest : Cardinality(Below(rest, x)) \in Nat
      BY <1>1, RankGrows
    <2>2. \A x \in rest : Cardinality({y \in rest : y <= x}) <= BatchSize
                            <=> Cardinality(Below(rest, x)) < BatchSize
      BY <1>2, <2>1, ServerAssumption
    <2>3. rows = {x \in rest : Cardinality({y \in rest : y <= x}) <= BatchSize}
      BY SameCardinality DEF AA!NextBatch
    <2> HIDE DEF rows, rest
    <2>4. QED
      BY <2>2, <2>3 DEF FirstOf
  <1>4. /\ rows \subseteq rest /\ IsFiniteSet(rows)
        /\ rows # rest => Cardinality(rows) = BatchSize
        /\ \A x \in rows, y \in rest : y <= x => y \in rows
    <2>1. BatchSize \in Nat
      BY ServerAssumption
    <2>2. FirstOf(rest, BatchSize) \subseteq rest
      BY DEF FirstOf
    <2> HIDE DEF rows, rest
    <2>3. QED
      BY <1>1, <1>3, <2>1, <2>2, FirstOfCount
  <1>5. rows # {} => \E x \in rows : \A y \in rows : y <= x
    <2> HIDE DEF rows, rest
    <2> QED
      BY <1>1, <1>4, GreatestExists
  <1>6. rows # {} => /\ AA!Largest(rows) \in rows
                     /\ \A y \in rows : y <= AA!Largest(rows)
    <2> HIDE DEF rows, rest
    <2> QED
      BY <1>5 DEF AA!Largest
  <1>7. AA!Short(rows) => rows = rest
    <2>1. BatchSize \in Nat
      BY ServerAssumption
    <2> HIDE DEF rows, rest
    <2>2. AA!Short(rows) => Cardinality(rows) < BatchSize
      BY SameCardinality DEF AA!Short
    <2>3. QED
      BY <1>4, <2>1, <2>2
  <1>8. QED
    BY <1>1, <1>4, <1>6, <1>7

LEMMA ReadBatchKeeps == ASSUME ArchiveInv, NEW r \in Runs, AA!ReadBatch(r) PROVE ArchiveInv'
  <1> DEFINE rows == AA!NextBatch(r)
             last == IF rows = {} THEN run[r].last ELSE AA!Largest(rows)
             step == IF AA!Short(rows) THEN "close" ELSE "stream"
             p == [run[r] EXCEPT !.got = run[r].got \cup rows, !.last = last, !.step = step]
  <1>1. AA!TypeOK /\ run[r] # None /\ run[r].step = "stream" /\ IsFiniteSet(table)
    BY DEF ArchiveInv, AA!ReadBatch, AA!At
  <1>2. run[r] \in AA!Progress /\ run[r].last \in Nat /\ run[r].got \subseteq Records
        /\ table \subseteq Records /\ Records \subseteq Nat
    BY <1>1, ArchiveTypes
  <1>3. /\ rows \subseteq AA!Beyond(r) /\ rows \subseteq table
        /\ rows # {} => /\ AA!Largest(rows) \in rows
                        /\ \A x \in AA!Beyond(r) : x \in rows <=> x <= AA!Largest(rows)
        /\ AA!Short(rows) => rows = AA!Beyond(r)
    BY <1>1, BatchIsNext
  <1>4. /\ UNCHANGED <<month, pending, table, file, logged, begun, crossed, late>>
        /\ run' = [run EXCEPT ![r].got = @ \cup rows,
                              ![r].last = IF rows = {} THEN @ ELSE AA!Largest(rows),
                              ![r].step = IF AA!Short(rows) THEN "close" ELSE @]
    BY DEF AA!ReadBatch, AA!history
  <1> HIDE DEF rows
  <1>5. last \in Records \cup {0} /\ last \in Nat
    BY <1>2, <1>3 DEF AA!Progress
  <1>6. run' = [run EXCEPT ![r] = p]
    BY <1>1, <1>4, ArchiveTypes
  <1>7. /\ p \in AA!Progress /\ p.got = run[r].got \cup rows /\ p.last = last /\ p.step = step
    BY <1>2, <1>3, <1>5 DEF AA!Progress
  <1> HIDE DEF p
  <1>8. ASSUME Whole PROVE RunSound(r)'
    <2>1. run'[r] = p
      BY <1>1, <1>6, ArchiveTypes
    <2>2. run[r].got = UpTo(run[r].last)
      BY <1>1, <1>8 DEF Whole, RunSound
    <2>3. \A x \in table : x \in run[r].got \cup rows <=> x <= last
      <3>1. \A x \in table : x \in Nat /\ (x \in AA!Beyond(r) <=> x > run[r].last)
        BY <1>2 DEF AA!Beyond
      <3>2. \A x \in table : x \in run[r].got <=> x <= run[r].last
        BY <2>2 DEF UpTo
      <3>3. CASE rows = {}
        BY <3>2, <3>3
      <3>4. CASE rows # {}
        <4>1. last \in rows /\ last > run[r].last
          BY <1>2, <1>3, <3>1, <3>4
        <4>2. \A x \in table : x > run[r].last => (x \in rows <=> x <= last)
          BY <1>3, <3>1, <3>4
        <4>3. \A x \in table : x <= run[r].last => x \notin rows /\ x <= last
          BY <1>2, <1>3, <1>5, <3>1, <4>1
        <4>4. QED
          BY <1>2, <3>1, <3>2, <4>2, <4>3
      <3>5. QED
        BY <3>3, <3>4
    <2>4. p.got \subseteq table
      BY <1>3, <1>7, <2>2 DEF UpTo
    <2>5. AA!Short(rows) => p.got = table
      <3> SUFFICES ASSUME AA!Short(rows), NEW x \in table, x \notin run[r].got PROVE x \in rows
        BY <1>7, <2>4
      <3>1. x \in Nat /\ ~ (x <= run[r].last)
        BY <1>2, <2>2 DEF UpTo
      <3>2. QED
        BY <1>2, <1>3, <3>1 DEF AA!Beyond
    <2>6. p.got = UpTo(last)
      BY <1>7, <2>3, <2>4 DEF UpTo
    <2>7. QED
      <3>1. UpTo(run[r].last)' = UpTo(p.last)
        BY <1>4, <2>1 DEF UpTo
      <3>2. p.step = "stream" \/ (p.step = "close" /\ AA!Short(rows))
        BY <1>7
      <3>3. RunSound(r)' <=> /\ p.step = "open" => p.got = {} /\ p.last = 0
                             /\ p.step = "stream" => p.got = UpTo(run[r].last)'
                             /\ p.step = "close" => p.got = table'
                             /\ p.step = "delete" => InFile(table)'
        BY <2>1 DEF RunSound
      <3>4. QED
        BY <1>4, <1>7, <2>5, <2>6, <3>1, <3>2, <3>3
  <1>9. file' \in [rows: SUBSET Records, whole: BOOLEAN] /\ table' \in {{}, table}
    BY <1>1, <1>4 DEF AA!TypeOK
  <1> HIDE DEF last, step
  <1>10. QED
    BY <1>1, <1>4, <1>6, <1>7, <1>8, <1>9, RunKeeps

LEMMA CloseKeeps == ASSUME ArchiveInv, NEW r \in Runs, AA!Close(r) PROVE ArchiveInv'
  <1> DEFINE p == IF run[r].got = {} THEN None ELSE [run[r] EXCEPT !.step = "delete"]
  <1>1. AA!TypeOK /\ run[r] # None /\ run[r].step = "close"
    BY DEF ArchiveInv, AA!Close, AA!At
  <1>2. run[r] \in AA!Progress /\ run[r].got \subseteq Records
    BY <1>1, ArchiveTypes
  <1>3. p \in {None} \cup AA!Progress /\ (p # None => p.step = "delete")
    BY <1>2 DEF AA!Progress
  <1>4. PICK garbled \in BOOLEAN :
          /\ garbled => AA!Streaming # {r}
          /\ file' = IF garbled THEN [rows |-> {}, whole |-> FALSE]
                     ELSE [rows |-> run[r].got, whole |-> TRUE]
    BY DEF AA!Close
  <1>5. /\ run' = [run EXCEPT ![r] = p]
        /\ UNCHANGED <<month, pending, table, logged, begun, crossed, late>>
    BY DEF AA!Close, AA!history
  <1> HIDE DEF p
  <1>6. file' \in [rows: SUBSET Records, whole: BOOLEAN]
    BY <1>2, <1>4
  <1>7. ASSUME Whole, \A q \in Runs \ {r} : run[q] = None
        PROVE  p # None => RunSound(r)'
    <2>1. AA!Streaming = {r}
      BY <1>1, <1>7 DEF AA!Streaming, AA!At
    <2>2. file'.whole /\ file'.rows = table
      BY <1>1, <1>4, <1>7, <2>1 DEF Whole, RunSound
    <2>3. run'[r] = p
      BY <1>1, <1>5, ArchiveTypes
    <2>4. QED
      BY <1>3, <1>5, <2>2, <2>3 DEF RunSound, InFile
  <1>8. QED
    BY <1>1, <1>3, <1>5, <1>6, <1>7, RunKeeps

LEMMA DeleteKeeps == ASSUME ArchiveInv, NEW r \in Runs, AA!Delete(r) PROVE ArchiveInv'
  <1>1. AA!TypeOK /\ run[r] # None /\ run[r].step = "delete"
    BY DEF ArchiveInv, AA!Delete, AA!At
  <1>2. /\ run' = [run EXCEPT ![r] = None] /\ table' = {} /\ file' = file
        /\ UNCHANGED <<month, pending, logged, begun, crossed, late>>
    BY DEF AA!Delete, AA!history
  <1>3. Whole => InFile(logged)'
    BY <1>1, <1>2 DEF Whole, RunSound, InFile
  <1>4. QED
    BY <1>1, <1>2, <1>3, RunKeeps DEF AA!TypeOK

LEMMA AbortKeeps == ASSUME ArchiveInv, NEW r \in Runs, AA!Abort(r) PROVE ArchiveInv'
  <1>1. AA!TypeOK /\ run[r] # None
    BY DEF ArchiveInv, AA!Abort
  <1>2. /\ run' = [run EXCEPT ![r] = None] /\ table' = table /\ file' = file
        /\ UNCHANGED <<month, pending, logged, begun, crossed, late>>
    BY DEF AA!Abort, AA!history
  <1>3. QED
    BY <1>1, <1>2, RunKeeps DEF AA!TypeOK

LEMMA ArchiveInvStep == ArchiveInv /\ [AA!Next]_archiveVars => ArchiveInv'
  <1> SUFFICES ASSUME ArchiveInv, [AA!Next]_archiveVars PROVE ArchiveInv'
    OBVIOUS
  <1>1. ASSUME UNCHANGED archiveVars \/ AA!TimePasses \/ \E x \in Records : AA!Record(x)
        PROVE  ArchiveInv'
    <2>1. UNCHANGED <<table, file, run, logged, begun, crossed, late>>
          /\ month' \in {"current", "past", "old"} /\ pending' \subseteq Records
      BY <1>1 DEF archiveVars, AA!TimePasses, AA!Record, AA!history, ArchiveInv, AA!TypeOK
    <2>2. QED
      BY <2>1 DEF ArchiveInv, AA!TypeOK, Whole, RunSound, InFile, UpTo
  <1>2. QED
    BY <1>1, InsertEndsKeeps, ListMonthKeeps, OpenKeeps, ReadBatchKeeps, CloseKeeps, DeleteKeeps, AbortKeeps
       DEF AA!Next

LEMMA RecordsAreKept == ArchiveInv => AA!NoRecordLost
  BY DEF ArchiveInv, Whole, InFile, AA!NoRecordLost
-----------------------------------------------------------------------------
(* All four together. *)

ServerVars == <<subject, queueVars, settingVars, archiveVars, formVars>>

LEMMA OneAtATime ==
  [ServerNext]_ServerVars => /\ [Next]_vars /\ [ST!Next]_settingVars
                             /\ [AA!Next]_archiveVars /\ [SF!Next]_formVars
  BY DEF ServerNext, ServerVars, queueVars, QueueAlone, SettingsAlone, ArchiveAlone, FormAlone

ServerInv == TypeInv /\ SettingsInv /\ ArchiveInv /\ FormInv

LEMMA ServerInvariance == ServerSpec => []ServerInv
  <1>1. ServerInit => ServerInv
    BY TypeInvInit, SettingsInvInit, ArchiveInvInit, FormInvInit DEF ServerInit, ServerInv
  <1>2. ServerInv /\ [ServerNext]_ServerVars => ServerInv'
    BY OneAtATime, TypeInvStep, SettingsInvStep, ArchiveInvStep, FormInvStep DEF ServerInv
  <1>3. QED
    BY <1>1, <1>2, PTL DEF ServerSpec, ServerVars
-----------------------------------------------------------------------------
\* Whatever set() calls, reloads and stops do to one another, what an instance works with was
\* the row since the SELECT its cache is from, or a reload of its own came between the
\* two steps of a set() (settings.service), and no POST goes to an internal address that was
\* taken off the list before (egress.util).  And the page of an administrator shows what
\* is stored, and keeps what was typed, but for the causes listed there (Settings.tsx).
THEOREM SettingsAreSound == ServerSpec => []SettingsSound
  <1>1. ServerInv => SettingsSound
    BY FormIsSound DEF ServerInv, SettingsInv, InstanceSound, SettingsSound, ST!StaleIsRecent
  <1>2. QED
    BY <1>1, ServerInvariance, PTL

\* Wherever runs of the archive stop and start over, a record that was committed is in the
\* table or in a whole file, while no two runs are in flight at once and none is committed
\* after a run has begun (audit-archive.service).
THEOREM RecordsAreNeverLost == ServerSpec => []NoRecordLost
  <1>1. ServerInv => NoRecordLost
    BY RecordsAreKept DEF ServerInv, NoRecordLost
  <1>2. QED
    BY <1>1, ServerInvariance, PTL

\* Each of the four machines keeps its types, for any number of instances, writers, saves and
\* runs.
THEOREM ServerTypes == ServerSpec => []AllTyped
  <1>1. ServerInv => AllTyped
    BY DEF ServerInv, TypeInv, SettingsInv, ArchiveInv, FormInv, AllTyped
  <1>2. QED
    BY <1>1, ServerInvariance, PTL
=============================================================================
