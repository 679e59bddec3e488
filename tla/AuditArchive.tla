----------------------------- MODULE AuditArchive -----------------------------
(***************************************************************************)
(* The audit log of one month on its way to the archive:                    *)
(* common/audit.service.ts (record), modules/jobs/audit-archive.service.ts   *)
(* and scripts/archive-audit.js, which runs the same service by hand.        *)
(*                                                                         *)
(* A run streams the month in batches of ascending ids into one gzip file,   *)
(* which it opens for writing and so empties, and then deletes the month in  *)
(* one statement.  Every run writes the same file: the volume is shared.    *)
(* Nothing keeps the monthly job of one instance, that of another and the    *)
(* script apart.                                                           *)
(*                                                                         *)
(* Left out: the other months, which a run takes one after the other, the   *)
(* content of a record, the queries of the screens.                         *)
(***************************************************************************)
EXTENDS Naturals, FiniteSets

CONSTANTS
  Records,      \* ids, in the order of the sequence
  Runs, None,
  BatchSize     \* BATCH

VARIABLES
  month,     \* "current", "past", "old" (365 days ago)
  pending,   \* records of this month whose INSERT has begun
  table,     \* committed rows of audit_logs
  file,      \* [rows, whole]: what the file gives when it is read
  run,       \* run -> None or how far it is
  logged,    \* history: records that were committed
  begun,     \* history: a run of this month has begun
  crossed,   \* history: two runs were in flight at once
  late       \* history: a record was committed after a run had begun

vars == <<month, pending, table, file, run, logged, begun, crossed, late>>
history == <<logged, begun, crossed, late>>

Progress == [step: {"open", "stream", "close", "delete"},
             last: Records \cup {0}, got: SUBSET Records]

TypeOK ==
  /\ month \in {"current", "past", "old"}
  /\ pending \subseteq Records /\ logged \subseteq Records /\ table \subseteq logged
  /\ file \in [rows: SUBSET Records, whole: BOOLEAN]
  /\ run \in [Runs -> {None} \cup Progress]
  /\ begun \in BOOLEAN /\ crossed \in BOOLEAN /\ late \in BOOLEAN

Init ==
  /\ month = "current" /\ pending = {} /\ table = {}
  /\ file = [rows |-> {}, whole |-> FALSE]
  /\ run = [r \in Runs |-> None]
  /\ logged = {} /\ begun = FALSE /\ crossed = FALSE /\ late = FALSE
-----------------------------------------------------------------------------
At(r, step) == run[r] # None /\ run[r].step = step
Streaming   == {r \in Runs : At(r, "stream") \/ At(r, "close")}

\* record: created_at is the moment the INSERT begins, the row is there once it
\* is committed.  An INSERT that fails is only logged.
Record(x) ==
  /\ month = "current" /\ \A y \in pending \cup logged : y < x
  /\ pending' = pending \cup {x}
  /\ UNCHANGED <<month, table, file, run, history>>
InsertEnds(x) ==
  /\ x \in pending /\ pending' = pending \ {x}
  /\ \/ /\ table' = table \cup {x} /\ logged' = logged \cup {x}
        /\ late' = (late \/ begun)
     \/ UNCHANGED <<table, logged, late>>
  /\ UNCHANGED <<month, file, run, begun, crossed>>

\* Statements are cut off after 10 s: no INSERT in flight is a year old.
TimePasses ==
  /\ \/ month = "current" /\ month' = "past"
     \/ month = "past" /\ pending = {} /\ month' = "old"
  /\ UNCHANGED <<pending, table, file, run, history>>

\* archiveOlderThan: the month is over and has rows.  The job of the server
\* takes months that are a year old, the script what it is told.
List(r) ==
  /\ run[r] = None /\ month \in {"past", "old"} /\ table # {}
  /\ run' = [run EXCEPT ![r] = [step |-> "open", last |-> 0, got |-> {}]]
  /\ crossed' = (crossed \/ \E q \in Runs : run[q] # None)
  /\ begun' = TRUE
  /\ UNCHANGED <<month, pending, table, file, logged, late>>

\* createWriteStream empties the file.
Open(r) ==
  /\ At(r, "open")
  /\ file' = [rows |-> {}, whole |-> FALSE]
  /\ run' = [run EXCEPT ![r].step = "stream"]
  /\ UNCHANGED <<month, pending, table, history>>

Beyond(r)  == {x \in table : x > run[r].last}
NextBatch(r) == {x \in Beyond(r) : Cardinality({y \in Beyond(r) : y <= x}) <= BatchSize}
AlwaysShort(rows) == TRUE   \* (mutation)
Short(rows) == Cardinality(rows) < BatchSize
Largest(rows) == CHOOSE x \in rows : \A y \in rows : y <= x
ReadBatch(r) ==
  /\ At(r, "stream")
  /\ LET rows == NextBatch(r) IN
       run' = [run EXCEPT ![r].got = @ \cup rows,
                          ![r].last = IF rows = {} THEN @ ELSE Largest(rows),
                          ![r].step = IF Short(rows) THEN "close" ELSE @]
  /\ UNCHANGED <<month, pending, table, file, history>>

\* The stream ends.  With two writers the file is one of them or neither.
Close(r) ==
  /\ At(r, "close")
  /\ \E garbled \in BOOLEAN :
       /\ garbled => Streaming # {r}
       /\ file' = IF garbled THEN [rows |-> {}, whole |-> FALSE]
                  ELSE [rows |-> run[r].got, whole |-> TRUE]
  /\ run' = [run EXCEPT ![r] = IF @.got = {} THEN None ELSE [@ EXCEPT !.step = "delete"]]
  /\ UNCHANGED <<month, pending, table, history>>
Delete(r) ==
  /\ At(r, "delete")
  /\ table' = {}
  /\ run' = [run EXCEPT ![r] = None]
  /\ UNCHANGED <<month, pending, file, history>>

\* A statement or the disk fails, or the server stops: the next run starts over.
Abort(r) ==
  /\ run[r] # None
  /\ run' = [run EXCEPT ![r] = None]
  /\ UNCHANGED <<month, pending, table, file, history>>

Next ==
  \/ \E x \in Records : Record(x) \/ InsertEnds(x)
  \/ TimePasses
  \/ \E r \in Runs : List(r) \/ Open(r) \/ ReadBatch(r) \/ Close(r) \/ Delete(r) \/ Abort(r)
-----------------------------------------------------------------------------
\* AD-13, the invariant the service's comment states: every record that was
\* committed is in the table or can be read from the archive, wherever a run
\* stops and starts over; unless two runs were in flight at once, or a record of
\* the month was committed after a run of the script had begun.
NoRecordLost ==
  \A x \in logged : x \in table \/ (file.whole /\ x \in file.rows) \/ crossed \/ late
=============================================================================
