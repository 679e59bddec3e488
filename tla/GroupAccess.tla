----------------------------- MODULE GroupAccess -----------------------------
(***************************************************************************)
(* Who may sign in where: modules/groups/groups.service.ts (members, the    *)
(* deletion of a group), the groups and the allow-all flag of a client in   *)
(* modules/clients/clients.service.ts, and the gate isClientLoginAllowed of *)
(* modules/auth-oidc/login.service.ts.                                      *)
(*                                                                         *)
(* The system administrator may do everything; a project administrator      *)
(* manages the groups and clients of the projects in its scope, and groups  *)
(* are global: one that two projects use belongs to both.                   *)
(*                                                                         *)
(* Left out: names and descriptions of groups, disabled clients (OidcStore  *)
(* has them), the accounts of administrators, which a project administrator *)
(* may not touch, the events and audit rows.                                *)
(***************************************************************************)
EXTENDS Naturals, FiniteSets

CONSTANTS Members, Groups, Clients, Reqs, None

VARIABLES
  group,     \* rows of groups: not yet created, there, gone
  member,    \* rows of user_groups
  assigned,  \* rows of client_groups
  allowAll,  \* clients with allow_all_groups
  signedIn,  \* <<user, client>> with a live grant and tokens
  call,      \* request -> None or what it has checked
  kept,      \* history: grants that lost their right where nothing revokes them
  shared     \* history: groups two projects may share

vars == <<group, member, assigned, allowAll, signedIn, call, kept, shared>>

\* Each client of the instance belongs to a project of its own, so a project is
\* named by its client and a scope is a set of clients; None: the SSA.
Scopes == {None} \cup {{c} : c \in Clients}
Ops    == {"addMember", "removeMember", "revoke", "deleteGroup", "addGroup", "signIn"}
Call   == [op: Ops, scope: Scopes, users: SUBSET Members, group: Groups \cup {None},
           client: Clients \cup {None}]

TypeOK ==
  /\ group \in [Groups -> {"new", "there", "gone"}]
  /\ member \subseteq Members \X Groups /\ assigned \subseteq Clients \X Groups
  /\ allowAll \subseteq Clients
  /\ signedIn \subseteq Members \X Clients /\ kept \subseteq signedIn
  /\ call \in [Reqs -> {None} \cup Call]
  /\ shared \subseteq Groups

Init ==
  /\ group = [g \in Groups |-> "new"]
  /\ member = {} /\ assigned = {} /\ allowAll = {} /\ signedIn = {}
  /\ call = [r \in Reqs |-> None]
  /\ kept = {} /\ shared = {}
-----------------------------------------------------------------------------
\* isClientLoginAllowed, over the rows of one moment.
Allowed(u, c, rows) ==
  \/ c \in rows.all
  \/ \E g \in Groups : <<u, g>> \in rows.members /\ <<c, g>> \in rows.groups
Now   == [all |-> allowAll, members |-> member, groups |-> assigned]
Later == [all |-> allowAll', members |-> member', groups |-> assigned']
MayUse(u, c) == Allowed(u, c, Now)
LosesNow == {s \in signedIn : Allowed(s[1], s[2], Now) /\ ~Allowed(s[1], s[2], Later)}

Covers(scope, c)    == scope # None => c \in scope
CanManage(scope, g) == scope # None => \E c \in scope : <<c, g>> \in assigned

Asking(r, op) == call[r] # None /\ call[r].op = op
Ask(r, c)     == call[r] = None /\ call' = [call EXCEPT ![r] = c]
Then(r, op)   == call' = [call EXCEPT ![r].op = op]
Done(r)       == call' = [call EXCEPT ![r] = None]
Rows          == <<group, member, assigned, allowAll, signedIn, kept, shared>>

CreateGroup(g) ==
  /\ group[g] = "new"
  /\ group' = [group EXCEPT ![g] = "there"]
  /\ UNCHANGED <<member, assigned, allowAll, signedIn, call, kept, shared>>

\* addMember and removeMember: assertCanManage, then the row.
Check(r, op, scope, u, g) ==
  /\ op \in {"addMember", "removeMember"}
  /\ group[g] = "there" /\ CanManage(scope, g)
  /\ Ask(r, [op |-> op, scope |-> scope, users |-> {u}, group |-> g, client |-> None])
  /\ UNCHANGED Rows
\* The foreign key refuses a group that is gone.
AddMember(r) ==
  /\ Asking(r, "addMember")
  /\ member' = IF group[call[r].group] = "there"
               THEN member \cup (call[r].users \X {call[r].group}) ELSE member
  /\ Done(r)
  /\ UNCHANGED <<group, assigned, allowAll, signedIn, kept, shared>>
RemoveMember(r) ==
  /\ Asking(r, "removeMember")
  /\ member' = member \ (call[r].users \X {call[r].group})
  /\ Then(r, "revoke")
  /\ UNCHANGED <<group, assigned, allowAll, signedIn, shared>>
  /\ kept' = kept \cup {s \in LosesNow : ~Covers(call[r].scope, s[2])}

\* remove: the members, the DELETE with its cascade, then everybody's sessions.
ReadMembers(r, g) ==
  /\ group[g] = "there"
  /\ Ask(r, [op |-> "deleteGroup", scope |-> None, group |-> g, client |-> None,
             users |-> {u \in Members : <<u, g>> \in member}])
  /\ UNCHANGED Rows
DeleteGroup(r) ==
  /\ Asking(r, "deleteGroup")
  /\ group' = [group EXCEPT ![call[r].group] = "gone"]
  /\ member' = {m \in member : m[2] # call[r].group}
  /\ assigned' = {a \in assigned : a[2] # call[r].group}
  /\ Then(r, "revoke")
  /\ UNCHANGED <<allowAll, signedIn, shared>>
  /\ kept' = kept \cup {s \in LosesNow : s[1] \notin call[r].users}

\* revokeAllForUser for the SSA, revokeForUserInProjects for the others.
FirstOnly(scope, users) ==   \* (mutation)
  {s \in signedIn : s[1] \in users /\ scope # None /\ Covers(scope, s[2])}
Reached(scope, users) == {s \in signedIn : s[1] \in users /\ Covers(scope, s[2])}
Revoke(r) ==
  /\ Asking(r, "revoke")
  /\ signedIn' = signedIn \ Reached(call[r].scope, call[r].users)
  /\ kept' = kept \cap signedIn'
  /\ Done(r)
  /\ UNCHANGED <<group, member, assigned, allowAll, shared>>

\* addGroup: the client in scope, no client of a foreign project has the group.
IgnoresOne(scope, g) ==   \* (mutation)
  scope # None => Cardinality({c \in Clients : <<c, g>> \in assigned}) <= 1
NotForeign(scope, g) ==
  scope # None => \A c \in Clients : <<c, g>> \in assigned => c \in scope
CheckGroup(r, scope, c, g) ==
  /\ group[g] = "there" /\ Covers(scope, c) /\ NotForeign(scope, g)
  /\ Ask(r, [op |-> "addGroup", scope |-> scope, users |-> {}, group |-> g, client |-> c])
  /\ UNCHANGED Rows
Overlapping(r) == \E q \in Reqs \ {r} : call[q] # None /\ call[q].op = "addGroup"
                                         /\ call[q].group = call[r].group
AddGroup(r) ==
  /\ Asking(r, "addGroup")
  /\ assigned' = assigned \cup {<<call[r].client, call[r].group>>}
  /\ shared' = IF call[r].scope = None \/ Overlapping(r) THEN shared \cup {call[r].group} ELSE shared
  /\ Done(r)
  /\ UNCHANGED <<group, member, allowAll, signedIn, kept>>

\* removeGroup, setAllowAll: the right goes, the sessions stay.
Withdraw ==
  /\ \/ \E a \in assigned : assigned' = assigned \ {a} /\ UNCHANGED allowAll
     \/ \E c \in Clients : /\ allowAll' = (IF c \in allowAll THEN allowAll \ {c} ELSE allowAll \cup {c})
                           /\ UNCHANGED assigned
  /\ UNCHANGED <<group, member, signedIn, call, shared>>
  /\ kept' = kept \cup LosesNow

\* The gate, and the grant that is written after it.
Gate(r, u, c) ==
  /\ MayUse(u, c)
  /\ Ask(r, [op |-> "signIn", scope |-> None, users |-> {u}, group |-> None, client |-> c])
  /\ UNCHANGED Rows
SignIn(r) ==
  /\ Asking(r, "signIn")
  /\ LET new == call[r].users \X {call[r].client} IN
       /\ signedIn' = signedIn \cup new
       /\ kept' = (kept \ new) \cup {s \in new : ~MayUse(s[1], s[2])}
  /\ Done(r)
  /\ UNCHANGED <<group, member, assigned, allowAll, shared>>

\* A statement fails, or the server stops: what was not revoked stays.
Abort(r) ==
  /\ call[r] # None
  /\ kept' = IF call[r].op = "revoke" THEN kept \cup {s \in signedIn : s[1] \in call[r].users} ELSE kept
  /\ Done(r)
  /\ UNCHANGED <<group, member, assigned, allowAll, signedIn, shared>>

Next ==
  \/ \E r \in Reqs, op \in Ops, s \in Scopes, u \in Members, g \in Groups : Check(r, op, s, u, g)
  \/ \E r \in Reqs : AddMember(r) \/ RemoveMember(r) \/ DeleteGroup(r) \/ Revoke(r) \/ AddGroup(r)
  \/ \E r \in Reqs, g \in Groups : ReadMembers(r, g)
  \/ \E r \in Reqs, s \in Scopes, c \in Clients, g \in Groups : CheckGroup(r, s, c, g)
  \/ \E r \in Reqs, u \in Members, c \in Clients : Gate(r, u, c)
  \/ \E r \in Reqs : SignIn(r) \/ Abort(r)
  \/ Withdraw
  \/ \E g \in Groups : CreateGroup(g)
-----------------------------------------------------------------------------
\* FR-05: whoever is removed from a group, or loses it with the group, is out of
\* the clients it opened once the request is done.  A grant without a right is
\* left only where the code does not look: the client is outside the scope of
\* the project administrator who removed the member, the right was withdrawn
\* from the client, the gate was passed before, the member joined after the
\* members were read, or the request was cut off.
BeingRevoked(s) == \E r \in Reqs : /\ Asking(r, "revoke") /\ s[1] \in call[r].users
                                   /\ Covers(call[r].scope, s[2])
NoRightHasCause == \A s \in signedIn : MayUse(s[1], s[2]) \/ s \in kept \/ BeingRevoked(s)

\* C1: administrators of single projects never bring a group into two projects,
\* one request at a time: an SSA did, or two assignments of it overlapped.
GroupsApart ==
  \A a, b \in assigned : a[2] = b[2] /\ a[1] # b[1] => a[2] \in shared
=============================================================================
