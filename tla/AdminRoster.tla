----------------------------- MODULE AdminRoster -----------------------------
(***************************************************************************)
(* Who can administer the identity provider: modules/users/users.service.ts *)
(* (lock, delete, expiry, appointment of system administrators) and the     *)
(* hourly modules/users/expiry.service.ts.                                  *)
(*                                                                         *)
(* Every operation is a check, in one or more SELECTs, and an UPDATE or     *)
(* DELETE later, with no transaction and no lock: one action per statement. *)
(* The break-glass account is an administrator no screen shows.             *)
(*                                                                         *)
(* Left out: the revocation of sessions (OidcStore), the events and the     *)
(* audit rows that follow the write, project administrators, creation of    *)
(* users (all exist at the start; a row that is deleted for good is None).  *)
(***************************************************************************)
EXTENDS Naturals, FiniteSets

CONSTANTS
  Users,
  Breakglass,   \* users.is_breakglass, set by the seed scripts only
  Founders,     \* system administrators at the start
  Reqs,         \* requests of administrators in flight at once
  None

Row == [status: {"active", "locked"}, deleted: BOOLEAN,
        expiry: {"none", "ahead", "past"}]

ASSUME RosterAssumption ==
  /\ Breakglass \subseteq Users /\ Founders \subseteq Users \ Breakglass
  /\ Cardinality(Founders) <= 2
  /\ IsFiniteSet(Users) /\ IsFiniteSet(Reqs) /\ Reqs # {}
  /\ None \notin Row

VARIABLES
  user,      \* rows of users
  ssa,       \* rows of admin_roles with role 'ssa'
  pc, op, target,   \* requests: next statement, operation, whom it is about
  seen       \* history: the administrators the request counted

vars == <<user, ssa, pc, op, target, seen>>

Ops   == {"lock", "unlock", "softDelete", "hardDelete", "reactivate",
          "setExpiry", "setPast", "clearExpiry", "grantSsa", "revokeSsa"}
Steps == {"idle", "role", "count", "confirm", "hasRole", "countRoles", "write"}

TypeOK ==
  /\ user \in [Users -> Row \cup {None}]
  /\ ssa \subseteq Users
  /\ pc \in [Reqs -> Steps]
  /\ op \in [Reqs -> Ops \cup {None}]
  /\ target \in [Reqs -> Users \cup {None}]
  /\ seen \in [Reqs -> SUBSET Users]

Init ==
  /\ user = [u \in Users |-> [status |-> "active", deleted |-> FALSE, expiry |-> "none"]]
  /\ ssa = Breakglass \cup Founders
  /\ pc = [r \in Reqs |-> "idle"]
  /\ op = [r \in Reqs |-> None]
  /\ target = [r \in Reqs |-> None]
  /\ seen = [r \in Reqs |-> {}]
-----------------------------------------------------------------------------
Present(u) == user[u] # None
Visible(u) == Present(u) /\ u \notin Breakglass
Alive(u)   == Present(u) /\ user[u].status = "active" /\ ~user[u].deleted

\* The administrators assertNotLastOperableSsa counts, and those grantSsa and
\* revokeSsa count: locked and deleted ones too.
Operable  == {u \in ssa \ Breakglass : Alive(u)}
Appointed == ssa \ Breakglass

Goto(r, step) == pc' = [pc EXCEPT ![r] = step]
Finish(r) ==
  /\ Goto(r, "idle")
  /\ op' = [op EXCEPT ![r] = None]
  /\ target' = [target EXCEPT ![r] = None]
  /\ seen' = [seen EXCEPT ![r] = {}]

\* A check passes on to the next statement, or the request ends with an error.
GoOn(r, ok, step) ==
  \/ ok /\ Goto(r, step) /\ UNCHANGED <<op, target, seen>>
  \/ ~ok /\ Finish(r)

NotOnSelf == {"lock", "softDelete", "hardDelete", "setExpiry", "setPast", "revokeSsa"}
Guarded   == {"lock", "softDelete", "hardDelete", "setExpiry", "setPast"}

FirstStep(o) == CASE o \in Guarded    -> "role"
                  [] o = "grantSsa"   -> "countRoles"
                  [] o = "revokeSsa"  -> "hasRole"
                  [] OTHER            -> "write"

AnyoneAdmissible(o, u) ==   \* (mutation)
  o \in {"hardDelete", "grantSsa"} => Visible(u) /\ ~user[u].deleted
\* Whom an operation refuses at once: assertNotBreakglass, get().
Admissible(o, u) ==
  /\ o \in {"hardDelete", "revokeSsa", "grantSsa"} => Visible(u)
  /\ o = "grantSsa" => ~user[u].deleted

\* AdminGuard lets administrator a through; its request is about user u.
Begin(r, a, o, u) ==
  /\ pc[r] = "idle" /\ a \in ssa /\ Alive(a)
  /\ o \in NotOnSelf => u # a
  /\ Admissible(o, u)
  /\ op' = [op EXCEPT ![r] = o]
  /\ target' = [target EXCEPT ![r] = u]
  /\ Goto(r, FirstStep(o))
  /\ UNCHANGED <<user, ssa, seen>>

\* assertNotLastOperableSsa, first statement: is it an administrator at all?
AfterGuard(r) == IF op[r] = "hardDelete" THEN "confirm" ELSE "write"
CheckRole(r) ==
  /\ pc[r] = "role"
  /\ Goto(r, IF target[r] \in Appointed THEN "count" ELSE AfterGuard(r))
  /\ UNCHANGED <<user, ssa, op, target, seen>>

\* ... second statement: how many are left?
AnyLeft    == Cardinality(Operable) >= 1   \* (mutation)
EnoughLeft == Cardinality(Operable) > 1
Count(r) ==
  /\ pc[r] = "count"
  /\ \/ /\ EnoughLeft
        /\ seen' = [seen EXCEPT ![r] = Operable]
        /\ Goto(r, AfterGuard(r))
        /\ UNCHANGED <<op, target>>
     \/ ~EnoughLeft /\ Finish(r)
  /\ UNCHANGED <<user, ssa>>

\* hardDelete: only of somebody who is locked or deleted.
Down(u) == user[u].deleted \/ user[u].status = "locked"
MayErase(u) == Down(u)
Confirm(r) ==
  /\ pc[r] = "confirm"
  /\ GoOn(r, Present(target[r]) /\ MayErase(target[r]), "write")
  /\ UNCHANGED <<user, ssa>>

HasRole(r) ==
  /\ pc[r] = "hasRole"
  /\ GoOn(r, target[r] \in ssa, "countRoles")
  /\ UNCHANGED <<user, ssa>>

\* The ceiling of an appointment, the floor of a removal.
InBounds(o) == IF o = "grantSsa" THEN Cardinality(Appointed) < 2
               ELSE Cardinality(Appointed) > 1
CountRoles(r) ==
  /\ pc[r] = "countRoles"
  /\ GoOn(r, InBounds(op[r]), "write")
  /\ UNCHANGED <<user, ssa>>
-----------------------------------------------------------------------------
(* The statements that write.  An UPDATE whose WHERE finds no row is an      *)
(* error for the caller and no change.                                      *)

Update(u, where, row) ==
  /\ user' = IF Visible(u) /\ where THEN [user EXCEPT ![u] = row] ELSE user
  /\ UNCHANGED ssa

SuspendInstead(u, s) ==   \* (mutation)
  Update(u, ~user[u].deleted, [user[u] EXCEPT !.status = "suspended"])
SetStatus(u, s)  == Update(u, ~user[u].deleted, [user[u] EXCEPT !.status = s])
SoftDelete(u)    == Update(u, ~user[u].deleted, [user[u] EXCEPT !.deleted = TRUE])
SetExpiry(u, e)  == Update(u, ~user[u].deleted, [user[u] EXCEPT !.expiry = e])
Reactivate(u)    == Update(u, user[u].deleted,
                           [user[u] EXCEPT !.deleted = FALSE, !.status = "active"])

\* DELETE FROM users, which takes the roles with it (ON DELETE CASCADE).
HardDelete(u) ==
  /\ user' = IF Visible(u) THEN [user EXCEPT ![u] = None] ELSE user
  /\ ssa' = IF Visible(u) THEN ssa \ {u} ELSE ssa

\* INSERT ON CONFLICT DO NOTHING: the foreign key refuses a user who is gone.
GrantSsa(u)  == ssa' = (IF Present(u) THEN ssa \cup {u} ELSE ssa) /\ UNCHANGED user
RevokeSsa(u) == ssa' = ssa \ {u} /\ UNCHANGED user

Write(r) ==
  /\ pc[r] = "write"
  /\ LET u == target[r] IN
       \/ op[r] = "lock"        /\ SetStatus(u, "locked")
       \/ op[r] = "unlock"      /\ SetStatus(u, "active")
       \/ op[r] = "softDelete"  /\ SoftDelete(u)
       \/ op[r] = "hardDelete"  /\ HardDelete(u)
       \/ op[r] = "reactivate"  /\ Reactivate(u)
       \/ op[r] = "setExpiry"   /\ SetExpiry(u, "ahead")
       \/ op[r] = "setPast"     /\ SetExpiry(u, "past")
       \/ op[r] = "clearExpiry" /\ SetExpiry(u, "none")
       \/ op[r] = "grantSsa"    /\ GrantSsa(u)
       \/ op[r] = "revokeSsa"   /\ RevokeSsa(u)
  /\ Finish(r)

\* The hourly cron: one UPDATE of everybody past the expiry, whoever it is.
AutoLock ==
  /\ user' = [u \in Users |->
                IF Alive(u) /\ user[u].expiry = "past"
                THEN [user[u] EXCEPT !.status = "locked"] ELSE user[u]]
  /\ UNCHANGED <<ssa, pc, op, target, seen>>

TimePasses(u) ==
  /\ Present(u) /\ user[u].expiry = "ahead"
  /\ user' = [user EXCEPT ![u].expiry = "past"]
  /\ UNCHANGED <<ssa, pc, op, target, seen>>

\* A statement fails, or the server stops.
Abort(r) == pc[r] # "idle" /\ Finish(r) /\ UNCHANGED <<user, ssa>>

Request(r) ==
  \/ \E a, u \in Users, o \in Ops : Begin(r, a, o, u)
  \/ CheckRole(r) \/ Count(r) \/ Confirm(r) \/ HasRole(r) \/ CountRoles(r)
  \/ Write(r) \/ Abort(r)

Next == \/ \E r \in Reqs : Request(r)
        \/ \E u \in Users : TimePasses(u)
        \/ AutoLock

Spec == Init /\ [][Next]_vars
-----------------------------------------------------------------------------
\* The emergency door stays open: nothing an administrator or the cron does,
\* in any order, locks, deletes, expires or demotes the break-glass account.
BreakglassOperable ==
  \A u \in Breakglass : Alive(u) /\ u \in ssa /\ user[u].expiry = "none"

\* The last visible administrator who can still work is lost to the expiry
\* cron, to the removal of a role, or to a request whose count was stale when
\* it wrote: never to a lock, a deletion or an expiry that counted right.
LastOperableLostToRace ==
  [][(Operable # {} /\ Operable' = {}) =>
       \/ UNCHANGED pc
       \/ \E r \in Reqs : /\ pc[r] = "write" /\ pc'[r] = "idle"
                          /\ op[r] = "revokeSsa" \/ seen[r] # Operable]_vars

\* The ceiling of two administrators holds for one request at a time and slips
\* by one for every further request in flight, never by more, however long the
\* sequence of appointments and removals.  (grantSsa counts, then inserts.)
SsaCeiling == Cardinality(Appointed) <= 1 + Cardinality(Reqs)

\* revokeSsa: the removal of a role never leaves nobody operable.
RemovalLeavesOperable ==
  [][\A r \in Reqs : (/\ op[r] = "revokeSsa" /\ pc[r] = "write"
                      /\ Operable # {}) => Operable' # {}]_vars
=============================================================================
