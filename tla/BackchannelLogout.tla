--------------------------- MODULE BackchannelLogout ---------------------------
(***************************************************************************)
(* The end of a user's sessions as the applications learn of it:            *)
(* common/backchannel-logout.service.ts, called by revokeAllForUser of       *)
(* session-revocation.service.ts before it deletes the sessions, and an      *)
(* application with sessions of its own, demo-app/src/index.ts.              *)
(*                                                                         *)
(* One user.  A revocation reads the ids of the sessions, then each session, *)
(* posts a logout token to every client in them that has a logout address,   *)
(* waits five seconds at most, whatever comes, and deletes what is there     *)
(* then.  The application ends all sessions of the user it knows of, not      *)
(* those it is about to store.                                             *)
(*                                                                         *)
(* Left out: the signature of the logout token, logout begun at the          *)
(* application (it ends the session at the provider, which is external).     *)
(***************************************************************************)
EXTENDS Naturals, Sequences, FiniteSets

CONSTANTS
  Ids,        \* sessions of the user at the provider, one after the other
  Apps, Deaf, \* clients; those with no backchannelLogoutUri
  Runs, None

VARIABLES
  live,      \* sessions in oidc_payloads
  begun,     \* sessions there have been
  clients,   \* session -> clients in its authorizations
  flows,     \* callbacks of applications: [app, s, step]
  local,     \* <<app, session>>: sessions of the applications
  run,       \* revocation -> None or [at, ids, targets]
  posts,     \* logout tokens on their way: [app, of]
  excused    \* history: <<app, session>> the application need not know of

vars == <<live, begun, clients, flows, local, run, posts, excused>>
Pairs == Apps \X Ids

\* The steps of revokeAllForUser and notifyLogout.
DeleteFirst == <<"delete", "list", "find", "post">>   \* (mutation)
Order       == <<"list", "find", "post", "delete">>

TypeOK ==
  /\ live \subseteq begun /\ begun \subseteq Ids
  /\ clients \in [Ids -> SUBSET Apps]
  /\ flows \subseteq [app: Apps, s: Ids, step: {"code", "verify"}]
  /\ local \subseteq Pairs /\ excused \subseteq Pairs
  /\ run \in [Runs -> {None} \cup [at: DOMAIN Order, ids: SUBSET Ids, targets: SUBSET Pairs]]
  /\ posts \subseteq [app: Apps, of: Runs]

Init ==
  /\ live = {} /\ begun = {} /\ clients = [s \in Ids |-> {}]
  /\ flows = {} /\ local = {}
  /\ run = [r \in Runs |-> None] /\ posts = {} /\ excused = {}
-----------------------------------------------------------------------------
At(r, step)   == run[r] # None /\ Order[run[r].at] = step
Past(r, step) == run[r] # None /\ \E i \in DOMAIN Order : Order[i] = step /\ run[r].at > i

\* A session at the provider, and what it authorizes.  A revocation that has
\* looked already will not tell the application, but delete the session.
SignIn(s) ==
  /\ s \notin begun /\ \A t \in begun : t < s
  /\ begun' = begun \cup {s} /\ live' = live \cup {s}
  /\ UNCHANGED <<clients, flows, local, run, posts, excused>>
Unseen(s) == \E r \in Runs : Past(r, "find") \/ (Past(r, "list") /\ s \notin run[r].ids)
Authorize(app, s) ==
  /\ s \in live
  /\ clients' = [clients EXCEPT ![s] = @ \cup {app}]
  /\ flows' = flows \cup {[app |-> app, s |-> s, step |-> "code"]}
  /\ excused' = IF Unseen(s) THEN excused \cup {<<app, s>>} ELSE excused
  /\ UNCHANGED <<live, begun, local, run, posts>>

\* /auth/callback: the code for tokens, the check of the token, the session.
Exchange(f) ==
  /\ f \in flows /\ f.step = "code"
  /\ flows' = (flows \ {f}) \cup IF f.s \in live THEN {[f EXCEPT !.step = "verify"]} ELSE {}
  /\ UNCHANGED <<live, begun, clients, local, run, posts, excused>>
StoreSession(f) ==
  /\ f \in flows /\ f.step = "verify"
  /\ flows' = flows \ {f}
  /\ local' = local \cup {<<f.app, f.s>>}
  /\ UNCHANGED <<live, begun, clients, run, posts, excused>>
\* /backchannel-logout: every session of the user the application has.
ReceiveLogout(p) ==
  /\ p \in posts /\ posts' = posts \ {p}
  /\ local' = {l \in local : l[1] # p.app}
  /\ excused' = excused \cup {<<f.app, f.s>> : f \in {g \in flows : g.app = p.app}}
  /\ UNCHANGED <<live, begun, clients, flows, run>>
\* /logout of the application.
LeaveApp(l) ==
  /\ l \in local /\ local' = local \ {l}
  /\ UNCHANGED <<live, begun, clients, flows, run, posts, excused>>
-----------------------------------------------------------------------------
Advance(r, ids, targets) ==
  run' = [run EXCEPT ![r] =
            IF run[r].at = Len(Order) THEN None
            ELSE [at |-> run[r].at + 1, ids |-> ids, targets |-> targets]]

Revoke(r) ==
  /\ run[r] = None /\ \A q \in Runs : q > r => run[q] = None
  /\ run' = [run EXCEPT ![r] = [at |-> 1, ids |-> {}, targets |-> {}]]
  /\ UNCHANGED <<live, begun, clients, flows, local, posts, excused>>

\* SELECT of the sessions; when it fails nobody is told.
List(r) ==
  /\ At(r, "list")
  /\ \E ids \in {live, {}} :
       /\ Advance(r, ids, {})
       /\ excused' = IF ids = live THEN excused ELSE excused \cup (Apps \X live)
  /\ UNCHANGED <<live, begun, clients, flows, local, posts>>
\* Session.find of each, of which some may fail.
Find(r) ==
  /\ At(r, "find")
  /\ \E fails \in SUBSET (run[r].ids \cap live) :
       LET found == (run[r].ids \cap live) \ fails IN
       /\ Advance(r, run[r].ids, {t \in Pairs : t[2] \in found /\ t[1] \in clients[t[2]]})
       /\ excused' = excused \cup (Apps \X fails)
  /\ UNCHANGED <<live, begun, clients, flows, local, posts>>
\* client.backchannelLogout for every target at once.
Post(r) ==
  /\ At(r, "post")
  /\ posts' = posts \cup {[app |-> app, of |-> r] :
                            app \in {t[1] : t \in run[r].targets} \ Deaf}
  /\ Advance(r, run[r].ids, run[r].targets)
  /\ UNCHANGED <<live, begun, clients, flows, local, excused>>
\* A token is lost, or refused: logged, not sent again.
PostFails(p) ==
  /\ p \in posts /\ posts' = posts \ {p}
  /\ excused' = excused \cup ({p.app} \X begun)
  /\ UNCHANGED <<live, begun, clients, flows, local, run>>
\* All answered, or five seconds over: one transaction.
Delete(r) ==
  /\ At(r, "delete")
  /\ live' = {} /\ clients' = [s \in Ids |-> {}]
  /\ Advance(r, run[r].ids, run[r].targets)
  /\ UNCHANGED <<begun, flows, local, posts, excused>>
DeleteFails(r) ==
  /\ At(r, "delete") /\ run' = [run EXCEPT ![r] = None]
  /\ UNCHANGED <<live, begun, clients, flows, local, posts, excused>>

\* revokeSession and revokeOtherSessions tell no application.
RevokeQuietly(s) ==
  /\ s \in live
  /\ live' = live \ {s} /\ clients' = [clients EXCEPT ![s] = {}]
  /\ excused' = excused \cup (Apps \X {s})
  /\ UNCHANGED <<begun, flows, local, run, posts>>

Next ==
  \/ \E s \in Ids : SignIn(s) \/ RevokeQuietly(s) \/ \E app \in Apps : Authorize(app, s)
  \/ \E f \in flows : Exchange(f) \/ StoreSession(f)
  \/ \E p \in posts : ReceiveLogout(p) \/ PostFails(p)
  \/ \E l \in local : LeaveApp(l)
  \/ \E r \in Runs : \/ Revoke(r) \/ List(r) \/ Find(r) \/ Post(r)
                     \/ Delete(r) \/ DeleteFails(r)
-----------------------------------------------------------------------------
\* Back-channel logout, read before the sessions are deleted: once a session is
\* gone, an application with a logout address has no session from it, or the
\* token is on its way, unless: the user came to it after the revocation had
\* looked, or was coming when the token arrived; a read failed; the token was
\* lost; the session was ended alone, which tells no application.
AppLogoutHasCause ==
  \A l \in local :
    l[2] \notin live /\ l[1] \notin Deaf =>
      \/ l \in excused
      \/ \E p \in posts : p.app = l[1]
=============================================================================
