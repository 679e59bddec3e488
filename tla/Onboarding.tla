----------------------------- MODULE Onboarding ------------------------------
(***************************************************************************)
(* How users come to be and which department they carry:                    *)
(* modules/users/users.service.ts (create, update), csv-import.service.ts   *)
(* and modules/departments/departments.service.ts.                          *)
(*                                                                         *)
(* users.department is a name, not a key: nothing but these services keeps  *)
(* it in the catalogue.  create and update read the catalogue and write     *)
(* later; an import reads it once for the whole file; the removal of a       *)
(* department counts its users first; a rename carries them along in one     *)
(* transaction, whose UPDATE sees the users of the moment it starts.         *)
(*                                                                         *)
(* A person stands for an e-mail address and an employee code, both unique   *)
(* over all rows, deleted ones too.  Left out: a change of either, the       *)
(* groups of a row (GroupAccess), the policy of a password set by hand.      *)
(***************************************************************************)
EXTENDS Naturals, FiniteSets

CONSTANTS Persons, Depts, Names, Reqs, None

VARIABLES
  row,       \* person -> None or [dept, deleted, pw]
  dept,      \* rows of departments: id -> name, or None
  busy,      \* request -> None or what it has read
  crossed,   \* history: the catalogue was written while another request was on its way
  returned   \* history: users reactivated after their department could go

vars == <<row, dept, busy, crossed, returned>>

UserRow == [dept: Names, deleted: BOOLEAN, pw: BOOLEAN]
Steps   == {"dup", "insert", "password", "setDept", "row", "temp", "count", "delete", "carry", "commit"}
Request == [step: Steps, who: Persons \cup {None}, name: Names \cup {None}, id: Depts \cup {None},
            with: BOOLEAN, todo: SUBSET Persons, seen: SUBSET Persons]
Idle    == [step |-> "dup", who |-> None, name |-> None, id |-> None, with |-> FALSE,
            todo |-> {}, seen |-> {}]

TypeOK ==
  /\ row \in [Persons -> {None} \cup UserRow]
  /\ dept \in [Depts -> {None} \cup Names]
  /\ busy \in [Reqs -> {None} \cup Request]
  /\ crossed \in BOOLEAN /\ returned \subseteq Persons

Init ==
  /\ row = [p \in Persons |-> None]
  /\ dept = [d \in Depts |-> None]
  /\ busy = [r \in Reqs |-> None]
  /\ crossed = FALSE /\ returned = {}
-----------------------------------------------------------------------------
Catalogue == {dept[d] : d \in Depts} \ {None}
Exists(p) == row[p] # None
Live(p)   == Exists(p) /\ ~row[p].deleted
At(r, step) == busy[r] # None /\ busy[r].step = step
\* The rows a rename has written and not yet committed: the others wait.
Held(p) == \E q \in Reqs : At(q, "commit") /\ p \in busy[q].seen

\* A writer of the catalogue and any other request overlap.
Changes(b) == b # None /\ b.step \in {"count", "delete", "carry", "commit"}
Cross(r, b) == \E q \in Reqs \ {r} : busy[q] # None /\ (Changes(b) \/ Changes(busy[q]))
Enter(r, b) ==
  /\ busy[r] = None
  /\ busy' = [busy EXCEPT ![r] = b]
  /\ crossed' = (crossed \/ Cross(r, b))
Step(r, s) == busy' = [busy EXCEPT ![r].step = s]
Leave(r)   == busy' = [busy EXCEPT ![r] = None]
Tables     == <<row, dept, returned>>

\* create: the catalogue, the duplicates, the INSERT (the unique indexes have
\* the last word), and the password set by hand.
Create(r, p, n, with) ==
  /\ n \in Catalogue
  /\ Enter(r, [Idle EXCEPT !.who = p, !.name = n, !.with = with])
  /\ UNCHANGED Tables
Duplicate(r) ==
  /\ At(r, "dup")
  /\ IF Exists(busy[r].who) THEN Leave(r) ELSE Step(r, "insert")
  /\ UNCHANGED <<Tables, crossed>>
NewRow(n) == [dept |-> n, deleted |-> FALSE, pw |-> FALSE]
Insert(p, n) == row' = IF Exists(p) THEN row ELSE [row EXCEPT ![p] = NewRow(n)]
InsertUser(r) ==
  /\ At(r, "insert")
  /\ Insert(busy[r].who, busy[r].name)
  /\ IF ~Exists(busy[r].who) /\ busy[r].with THEN Step(r, "password") ELSE Leave(r)
  /\ UNCHANGED <<dept, crossed, returned>>
SetPassword(r) ==
  /\ At(r, "password") /\ ~Held(busy[r].who)
  /\ row' = IF Exists(busy[r].who) THEN [row EXCEPT ![busy[r].who].pw = TRUE] ELSE row
  /\ Leave(r)
  /\ UNCHANGED <<dept, crossed, returned>>

\* update: the user, the catalogue, the UPDATE.
Update(r, p, n) ==
  /\ Exists(p) /\ n \in Catalogue
  /\ Enter(r, [Idle EXCEPT !.step = "setDept", !.who = p, !.name = n])
  /\ UNCHANGED Tables
WriteDept(r) ==
  /\ At(r, "setDept") /\ ~Held(busy[r].who)
  /\ row' = IF Exists(busy[r].who) THEN [row EXCEPT ![busy[r].who].dept = busy[r].name] ELSE row
  /\ returned' = returned \ {busy[r].who}
  /\ Leave(r)
  /\ UNCHANGED <<dept, crossed>>

\* commit of an import: identities and catalogue are read once, then each row
\* is a transaction of its own.  An identity that was taken is skipped.
Import(r, file, n) ==
  /\ n \in Catalogue
  /\ Enter(r, [Idle EXCEPT !.step = "row", !.name = n, !.todo = {p \in file : ~Exists(p)}])
  /\ UNCHANGED Tables
CreateRow(r) ==
  /\ At(r, "row")
  /\ \E p \in busy[r].todo :
       /\ Insert(p, busy[r].name)
       /\ busy' = [busy EXCEPT ![r].todo = @ \ {p}, ![r].who = p,
                               ![r].step = IF Exists(p) THEN "row" ELSE "temp"]
  /\ UNCHANGED <<dept, crossed, returned>>
\* ... any other error: ROLLBACK, and on to the next row.
RowFails(r) ==
  /\ At(r, "row")
  /\ \E p \in busy[r].todo : busy' = [busy EXCEPT ![r].todo = @ \ {p}]
  /\ UNCHANGED <<Tables, crossed>>
\* The temporary password is issued after the COMMIT; an error is only logged.
IssueTemp(r) ==
  /\ At(r, "temp") /\ ~Held(busy[r].who)
  /\ \E sent \in BOOLEAN :
       row' = IF sent /\ Live(busy[r].who) THEN [row EXCEPT ![busy[r].who].pw = TRUE] ELSE row
  /\ Step(r, "row")
  /\ UNCHANGED <<dept, crossed, returned>>
FileDone(r) == At(r, "row") /\ busy[r].todo = {} /\ Leave(r) /\ UNCHANGED <<Tables, crossed>>

SoftDelete(p) == Live(p) /\ row' = [row EXCEPT ![p].deleted = TRUE] /\ UNCHANGED returned
Reactivate(p) ==
  /\ Exists(p) /\ row[p].deleted
  /\ row' = [row EXCEPT ![p].deleted = FALSE]
  /\ returned' = returned \cup {p}
Erase(p) == Exists(p) /\ row[p].deleted /\ row' = [row EXCEPT ![p] = None] /\ returned' = returned \ {p}
Lifecycle(p) == ~Held(p) /\ (SoftDelete(p) \/ Reactivate(p) \/ Erase(p)) /\ UNCHANGED <<dept, busy, crossed>>
-----------------------------------------------------------------------------
\* create of a department: one INSERT under the unique index.
AddDept(d, n) ==
  /\ dept[d] = None /\ n \notin Catalogue
  /\ dept' = [dept EXCEPT ![d] = n]
  /\ UNCHANGED <<row, busy, crossed, returned>>

\* remove: its name, how many live users carry it, the DELETE.
RemoveDept(r, d) ==
  /\ dept[d] # None
  /\ Enter(r, [Idle EXCEPT !.step = "count", !.id = d, !.name = dept[d]])
  /\ UNCHANGED Tables
FewCarry(n) == Cardinality({p \in Persons : Live(p) /\ row[p].dept = n}) <= 1   \* (mutation)
Locked(d) == \E q \in Reqs : (At(q, "carry") \/ At(q, "commit")) /\ busy[q].id = d
NobodyCarries(n) == \A p \in Persons : Live(p) => row[p].dept # n
CountUsers(r) ==
  /\ At(r, "count")
  /\ IF NobodyCarries(busy[r].name) THEN Step(r, "delete") ELSE Leave(r)
  /\ UNCHANGED <<Tables, crossed>>
DeleteDept(r) ==
  /\ At(r, "delete") /\ ~Locked(busy[r].id)
  /\ dept' = [dept EXCEPT ![busy[r].id] = None]
  /\ Leave(r)
  /\ UNCHANGED <<row, crossed, returned>>

\* rename: BEGIN, the row locked, no other department of that name ...
RenameDept(r, d, n) ==
  /\ dept[d] # None /\ \A e \in Depts \ {d} : dept[e] # n
  /\ ~Locked(d)
  /\ Enter(r, [Idle EXCEPT !.step = "carry", !.id = d, !.name = n])
  /\ UNCHANGED Tables
\* ... UPDATE users, which sees those who carry the old name now, deleted too ...
Carry(r) ==
  /\ At(r, "carry")
  /\ busy' = [busy EXCEPT ![r].step = "commit",
                          ![r].seen = {p \in Persons : Exists(p) /\ row[p].dept = dept[busy[r].id]}]
  /\ UNCHANGED <<Tables, crossed>>
\* ... COMMIT, which the unique index may still refuse.
CommitRename(r) ==
  /\ At(r, "commit")
  /\ LET rn == busy[r]
         free == dept[rn.id] # None /\ \A e \in Depts \ {rn.id} : dept[e] # rn.name IN
       /\ dept' = IF free THEN [dept EXCEPT ![rn.id] = rn.name] ELSE dept
       /\ row' = IF free THEN [p \in Persons |-> IF p \in rn.seen /\ Exists(p)
                                                 THEN [row[p] EXCEPT !.dept = rn.name] ELSE row[p]]
                 ELSE row
  /\ Leave(r)
  /\ UNCHANGED <<crossed, returned>>

\* A statement fails, or the server stops.
Abort(r) == busy[r] # None /\ Leave(r) /\ UNCHANGED <<Tables, crossed>>

Next ==
  \/ \E r \in Reqs, p \in Persons, n \in Names : Update(r, p, n) \/ \E w \in BOOLEAN : Create(r, p, n, w)
  \/ \E r \in Reqs, f \in SUBSET Persons, n \in Names : Import(r, f, n)
  \/ \E r \in Reqs : Duplicate(r) \/ InsertUser(r) \/ SetPassword(r) \/ WriteDept(r)
  \/ \E r \in Reqs : CreateRow(r) \/ RowFails(r) \/ IssueTemp(r) \/ FileDone(r) \/ Abort(r)
  \/ \E p \in Persons : Lifecycle(p)
  \/ \E d \in Depts, n \in Names : AddDept(d, n)
  \/ \E r \in Reqs, d \in Depts : RemoveDept(r, d) \/ \E n \in Names : RenameDept(r, d, n)
  \/ \E r \in Reqs : CountUsers(r) \/ DeleteDept(r) \/ Carry(r) \/ CommitRename(r)
-----------------------------------------------------------------------------
\* A live user carries a department of the catalogue, after any sequence of
\* creations, imports, updates, removals and renames, unless the catalogue was
\* written while another request was on its way, or the user came back from a
\* deletion, for whom the removal of a department does not look.
LabelHasCause ==
  crossed \/ \A p \in Persons : Live(p) => row[p].dept \in Catalogue \/ p \in returned
=============================================================================
