---------------------------- MODULE ProjectAdmins ----------------------------
(***************************************************************************)
(* Projects, their applications and their administrators:                   *)
(* modules/projects/projects.service.ts and the creation and deletion of    *)
(* clients in modules/clients/clients.service.ts.                           *)
(*                                                                         *)
(* An appointment is two rows, the role project_admin in admin_roles and    *)
(* the project in admin_projects, written and removed in two statements     *)
(* without a transaction.  A guard that finds no role refuses whatever the  *)
(* projects are, and a role without a project still opens what every        *)
(* administrator may do.                                                    *)
(*                                                                         *)
(* Left out: names and descriptions (their UPDATE, the unique name), the    *)
(* lists of the screens, the audit rows.                                    *)
(***************************************************************************)
EXTENDS Naturals, FiniteSets

CONSTANTS People, Projects, Apps, Reqs, None

VARIABLES
  exists,     \* rows of projects
  alive,      \* rows of users that are not deleted
  role,       \* users with the role project_admin
  scope,      \* rows of admin_projects
  appOf,      \* application -> its project, or None
  job,        \* request -> None or what it has read
  mixed       \* history: users two requests were about at once, or one was cut off

vars == <<exists, alive, role, scope, appOf, job, mixed>>

Removal == {"empty", "admins", "delete", "clean", "cleanDrop"}
Steps   == {"role", "scope", "dismiss", "count", "drop", "insert"} \cup Removal
Job     == [step: Steps, user: People \cup {None}, project: Projects,
            users: SUBSET People, apps: SUBSET Apps]
NoWork  == [step |-> "insert", user |-> None, project |-> None, users |-> {}, apps |-> {}]

TypeOK ==
  /\ exists \subseteq Projects /\ alive \subseteq People /\ role \subseteq People
  /\ scope \subseteq People \X Projects
  /\ appOf \in [Apps -> Projects \cup {None}]
  /\ job \in [Reqs -> {None} \cup Job]
  /\ mixed \subseteq People

Init ==
  /\ exists = Projects /\ alive = People
  /\ role = {} /\ scope = {}
  /\ appOf = [a \in Apps |-> None]
  /\ job = [r \in Reqs |-> None]
  /\ mixed = {}
-----------------------------------------------------------------------------
Has(u) == \E p \in Projects : <<u, p>> \in scope
Running(r, step) == job[r] # None /\ job[r].step = step
Rows == <<exists, alive, role, scope, appOf>>

\* Whose rows a request may write: a removal of a project, anybody's.
About(j) == IF j = None \/ j.step = "insert" THEN {}
            ELSE IF j.step \in Removal THEN People ELSE {j.user}
Others(r) == UNION {About(job[q]) : q \in Reqs \ {r}}

Start(r, j) ==
  /\ job[r] = None
  /\ job' = [job EXCEPT ![r] = j]
  /\ mixed' = mixed \cup (About(j) \cap Others(r))
  /\ UNCHANGED Rows
Goto(r, step) == job' = [job EXCEPT ![r].step = step]
End(r)        == job' = [job EXCEPT ![r] = None]
Writes(r, s)  == Running(r, s) /\ UNCHANGED mixed
Reads(r, s)   == Writes(r, s) /\ UNCHANGED Rows

\* appointAdmin: the project and the user are there, then the two rows.
Appoint(r, u, p) ==
  /\ p \in exists /\ u \in alive
  /\ Start(r, [NoWork EXCEPT !.step = "role", !.user = u, !.project = p])
InsertRole(r) ==
  /\ Writes(r, "role")
  /\ IF job[r].user \in alive THEN role' = role \cup {job[r].user} /\ Goto(r, "scope")
     ELSE role' = role /\ End(r)
  /\ UNCHANGED <<exists, alive, scope, appOf>>
\* The foreign key refuses a project, or a user, that is gone.
InsertScope(r) ==
  /\ Writes(r, "scope")
  /\ scope' = IF job[r].project \in exists /\ job[r].user \in alive
              THEN scope \cup {<<job[r].user, job[r].project>>} ELSE scope
  /\ End(r)
  /\ UNCHANGED <<exists, alive, role, appOf>>

\* removeAdmin: the project, the count of what is left, the role.
Dismiss(r, u, p) == Start(r, [NoWork EXCEPT !.step = "dismiss", !.user = u, !.project = p])
DeleteScope(r) ==
  /\ Writes(r, "dismiss")
  /\ scope' = scope \ {<<job[r].user, job[r].project>>}
  /\ Goto(r, "count")
  /\ UNCHANGED <<exists, alive, role, appOf>>
RoleKept(r) ==   \* (mutation)
  /\ Reads(r, "count")
  /\ End(r)
CountLeft(r) ==
  /\ Reads(r, "count")
  /\ IF Has(job[r].user) THEN End(r) ELSE Goto(r, "drop")
DropRole(r) ==
  /\ Writes(r, "drop")
  /\ role' = role \ {job[r].user}
  /\ End(r)
  /\ UNCHANGED <<exists, alive, scope, appOf>>

\* remove: no application is left, the administrators, the DELETE with its
\* cascade, then the role of everybody who has no project any more.
Remove(r, p) == p \in exists /\ Start(r, [NoWork EXCEPT !.step = "empty", !.project = p])
CountApps(r) ==
  /\ Reads(r, "empty")
  /\ IF \E a \in Apps : appOf[a] = job[r].project THEN End(r) ELSE Goto(r, "admins")
ReadAdmins(r) ==
  /\ Reads(r, "admins")
  /\ job' = [job EXCEPT ![r].step = "delete",
                        ![r].users = {u \in People : <<u, job[r].project>> \in scope}]
DeleteProject(r) ==
  /\ Writes(r, "delete")
  /\ LET p == job[r].project IN
       /\ exists' = exists \ {p}
       /\ scope' = {s \in scope : s[2] # p}
       /\ appOf' = [a \in Apps |-> IF appOf[a] = p THEN None ELSE appOf[a]]
  /\ Goto(r, "clean")
  /\ UNCHANGED <<alive, role>>
NobodyLeft(r) == Reads(r, "clean") /\ job[r].users = {} /\ End(r)
CountHis(r) ==
  /\ Reads(r, "clean")
  /\ \E u \in job[r].users :
       IF Has(u) THEN job' = [job EXCEPT ![r].users = @ \ {u}]
       ELSE job' = [job EXCEPT ![r].step = "cleanDrop", ![r].users = @ \ {u}, ![r].user = u]
DropHis(r) ==
  /\ Writes(r, "cleanDrop")
  /\ role' = role \ {job[r].user}
  /\ job' = [job EXCEPT ![r].step = "clean", ![r].user = None]
  /\ UNCHANGED <<exists, alive, scope, appOf>>

\* create of a client: the scope is what the guard read, the INSERT comes
\* after the hash of the secret and needs the project.
CreateApp(r, a, u, p) ==
  /\ appOf[a] = None /\ (u = None \/ (u \in role /\ <<u, p>> \in scope))
  /\ job[r] = None
  /\ job' = [job EXCEPT ![r] = [NoWork EXCEPT !.project = p, !.apps = {a}]]
  /\ UNCHANGED <<Rows, mixed>>
InsertApp(r) ==
  /\ Writes(r, "insert")
  /\ appOf' = [a \in Apps |-> IF a \in job[r].apps /\ appOf[a] = None /\ job[r].project \in exists
                              THEN job[r].project ELSE appOf[a]]
  /\ End(r)
  /\ UNCHANGED <<exists, alive, role, scope>>
DeleteApp(a) ==
  /\ appOf[a] # None
  /\ appOf' = [appOf EXCEPT ![a] = None]
  /\ UNCHANGED <<exists, alive, role, scope, job, mixed>>

\* A permanent deletion of the user (users.service) takes both rows with it.
EraseUser(u) ==
  /\ u \in alive
  /\ alive' = alive \ {u} /\ role' = role \ {u} /\ scope' = {s \in scope : s[1] # u}
  /\ UNCHANGED <<exists, appOf, job, mixed>>

\* A statement fails, or the server stops.
Abort(r) ==
  /\ job[r] # None
  /\ mixed' = mixed \cup About(job[r])
  /\ End(r)
  /\ UNCHANGED Rows

Next ==
  \/ \E r \in Reqs, u \in People, p \in Projects : Appoint(r, u, p) \/ Dismiss(r, u, p)
  \/ \E r \in Reqs, p \in Projects : Remove(r, p)
  \/ \E r \in Reqs : InsertRole(r) \/ InsertScope(r) \/ DeleteScope(r) \/ CountLeft(r) \/ DropRole(r)
  \/ \E r \in Reqs : CountApps(r) \/ ReadAdmins(r) \/ DeleteProject(r) \/ NobodyLeft(r)
                     \/ CountHis(r) \/ DropHis(r)
  \/ \E r \in Reqs, a \in Apps, u \in People \cup {None}, p \in Projects : CreateApp(r, a, u, p)
  \/ \E r \in Reqs : InsertApp(r) \/ Abort(r)
  \/ \E a \in Apps : DeleteApp(a)
  \/ \E u \in People : EraseUser(u)
-----------------------------------------------------------------------------
\* Appointments hold together: when no request about a user is in flight, the
\* user has the role exactly if a project is left, whatever was appointed,
\* dismissed, deleted and cascaded before, unless two such requests overlapped
\* or one was cut off.
AppointmentWhole ==
  \A u \in People : u \in mixed \/ (\E r \in Reqs : u \in About(job[r])) \/ (u \in role <=> Has(u))
=============================================================================
