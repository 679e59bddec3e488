------------------------------ MODULE OidcStore ------------------------------
(***************************************************************************)
(* The token and session store of the identity provider:                   *)
(*   oidc/pg-adapter.ts, the part of oidc/provider.factory.ts that reads    *)
(*   and writes through it, common/session-revocation.service.ts and the    *)
(*   purge of modules/jobs/cleanup.service.ts.                             *)
(*                                                                         *)
(* Table oidc_payloads is three functions, session, grant and token (codes  *)
(* and refresh tokens: a code is the token that is its own root).  Table    *)
(* sessions, the projection self-service lists, is the function listed.    *)
(* An HTTP request is a process r in Reqs: each SQL statement it runs on    *)
(* its own is one action, so requests interleave between statements, and    *)
(* what a request read before is in copy[r] and held[r].                   *)
(*                                                                         *)
(* Left out: AccessToken rows (JWTs, stored nowhere), user codes, the      *)
(* display column last_activity, and audit rows.                           *)
(***************************************************************************)
EXTENDS Integers, FiniteSets

CONSTANTS
  Users, Clients,
  Uids, Grants, Tokens,   \* ids the library mints; finite in a checked instance
  Reqs,                   \* requests in flight at once
  NoRow,                  \* no such row, or nothing held
  Idle, Cap,              \* idle window and absolute cap of a session
  CodeTtl,                \* life of an authorization code
  MaxTime                 \* bound on the clock

ASSUME IdsAssumption ==
  /\ Uids \cup Grants \cup Tokens \subseteq Nat
  /\ Uids \cap Grants = {} /\ Uids \cap Tokens = {} /\ Grants \cap Tokens = {}
  /\ NoRow \notin Nat
ASSUME TimesAssumption ==
  Idle \in Nat /\ Cap \in Nat /\ CodeTtl \in Nat /\ MaxTime \in Nat

VARIABLES
  now,      \* the clock of the database
  active,   \* users.status = 'active' and not deleted
  session, grant, token,   \* rows of oidc_payloads, by type
  listed,   \* rows of sessions
  pc, aim, copy, held,     \* requests: next statement, whose, what was read
  minted,   \* history: ids handed out
  killed,   \* history: grants an administrator's kill switch covered
  ended,    \* history: sessions that were logged out or revoked
  overtaken \* history: codes of which a token was exchanged with nothing left to
            \* notice that it was, or is being, exchanged elsewhere (Unnoticed)

rows == <<session, grant, token>>
vars == <<now, active, session, grant, token, listed,
          pc, aim, copy, held, minted, killed, ended, overtaken>>
-----------------------------------------------------------------------------
SessionRow == [user: Users, loginTs: Nat, exp: Nat,
               grants: [Clients -> Grants \cup {NoRow}]]
GrantRow   == [user: Users, client: Clients, exp: Nat]
TokenRow   == [id: Tokens, root: Tokens, user: Users, client: Clients,
               grant: Grants, uid: Uids, exp: Nat, consumed: BOOLEAN]
ListedRow  == [user: Users, revoked: BOOLEAN]
ASSUME RowsAssumption == NoRow \notin SessionRow \cup GrantRow \cup TokenRow \cup ListedRow
Aim        == [user: Users, uid: Uids \cup {NoRow}]

Steps == {"idle",
          "gate", "mint", "code", "session", "mirror",    \* /authorize
          "consume", "issue", "slide", "drop",            \* /token
          "unlist", "others", "unlistOthers", "killAll", "destroy"}

TypeOK ==
  /\ now \in Nat
  /\ active \in [Users -> BOOLEAN]
  /\ session \in [Uids -> SessionRow \cup {NoRow}]
  /\ grant \in [Grants -> GrantRow \cup {NoRow}]
  /\ token \in [Tokens -> TokenRow \cup {NoRow}]
  /\ listed \in [Uids -> ListedRow \cup {NoRow}]
  /\ pc \in [Reqs -> Steps]
  /\ aim \in [Reqs -> Aim \cup {NoRow}]
  /\ copy \in [Reqs -> SessionRow \cup {NoRow}]
  /\ held \in [Reqs -> TokenRow \cup {NoRow}]
  /\ minted \subseteq Uids \cup Grants \cup Tokens
  /\ killed \subseteq Grants
  /\ ended \subseteq Uids
  /\ overtaken \subseteq Tokens

Init ==
  /\ now = 0
  /\ active = [u \in Users |-> TRUE]
  /\ session = [i \in Uids |-> NoRow]
  /\ grant = [g \in Grants |-> NoRow]
  /\ token = [t \in Tokens |-> NoRow]
  /\ listed = [i \in Uids |-> NoRow]
  /\ pc = [r \in Reqs |-> "idle"]
  /\ aim = [r \in Reqs |-> NoRow]
  /\ copy = [r \in Reqs |-> NoRow]
  /\ held = [r \in Reqs |-> NoRow]
  /\ minted = {} /\ killed = {} /\ ended = {} /\ overtaken = {}
-----------------------------------------------------------------------------
Least(a, b) == IF a <= b THEN a ELSE b
Most(a, b)  == IF a >= b THEN a ELSE b

\* Ids are handed out in order: which one is fresh never matters.
Fresh(S, x) == x \in S \ minted /\ \A y \in S \ minted : x <= y

\* find and findByUid return a row only while expires_at > now.
SessionLive(i) == session[i] # NoRow /\ session[i].exp > now
GrantLive(g)   == grant[g] # NoRow /\ grant[g].exp > now
TokenLive(t)   == token[t] # NoRow /\ token[t].exp > now

\* A token bound to a session is honoured only while that session lives, is
\* the same user's and remembers the token's grant (expiresWithSession).
BoundToSession(t) ==
  LET k == token[t] IN
    /\ SessionLive(k.uid)
    /\ session[k.uid].user = k.user
    /\ session[k.uid].grants[k.client] = k.grant

Honoured(t) == /\ TokenLive(t) /\ BoundToSession(t)
               /\ GrantLive(token[t].grant)
               /\ active[token[t].user]
Usable(t) == Honoured(t) /\ ~token[t].consumed

SessionExpUncapped(loginTs) == now + Idle   \* (mutation)
\* ttl.Session: what is left of the idle window or of the cap, never negative.
SessionExp(loginTs) == Most(now, Least(now + Idle, loginTs + Cap))

DeleteByAccount(g) ==   \* (mutation)
  token' = [t \in Tokens |->
       IF token[t] # NoRow /\ \E s \in Tokens : /\ token[s] # NoRow
                                               /\ token[s].grant = g
                                               /\ token[s].user = token[t].user
       THEN NoRow ELSE token[t]]
DeleteTokens(S) == token' = [t \in Tokens |-> IF t \in S THEN NoRow ELSE token[t]]
\* DELETE FROM oidc_payloads WHERE grant_id = g.  The Grant row itself stays: it is
\* built without a grantId, so that its own grant_id is NULL.
DeleteByGrant(g) == DeleteTokens({t \in Tokens : token[t] # NoRow /\ token[t].grant = g})

Goto(r, step) == pc' = [pc EXCEPT ![r] = step]
Finish(r) ==
  /\ Goto(r, "idle")
  /\ aim' = [aim EXCEPT ![r] = NoRow]
  /\ copy' = [copy EXCEPT ![r] = NoRow]
  /\ held' = [held EXCEPT ![r] = NoRow]
-----------------------------------------------------------------------------
(* /authorize: a login opens a session, a cookie brings an existing one back. *)

Login(r, u, i) ==
  /\ pc[r] = "idle" /\ active[u] /\ Fresh(Uids, i)
  /\ minted' = minted \cup {i}
  /\ aim' = [aim EXCEPT ![r] = [user |-> u, uid |-> i]]
  /\ copy' = [copy EXCEPT ![r] = [user |-> u, loginTs |-> now, exp |-> now,
                                  grants |-> [c \in Clients |-> NoRow]]]
  /\ Goto(r, "gate")
  /\ UNCHANGED <<now, active, rows, listed, held, killed, ended, overtaken>>

AuthorizeRead(r, i) ==
  /\ pc[r] = "idle" /\ SessionLive(i)
  /\ aim' = [aim EXCEPT ![r] = [user |-> session[i].user, uid |-> i]]
  /\ copy' = [copy EXCEPT ![r] = session[i]]
  /\ Goto(r, "gate")
  /\ UNCHANGED <<now, active, rows, listed, held, minted, killed, ended, overtaken>>

CodeOfOldGrant(r, c, g, t) ==   \* (mutation)
  [id |-> t, root |-> t, user |-> copy[r].user, client |-> c,
   grant |-> copy[r].grants[c], uid |-> aim[r].uid, exp |-> now, consumed |-> FALSE]
NewCode(r, c, g, t) ==
  [id |-> t, root |-> t, user |-> copy[r].user, client |-> c, grant |-> g,
   uid |-> aim[r].uid, exp |-> now, consumed |-> FALSE]

Remembered(r, c) ==
  LET old == copy[r].grants[c] IN old # NoRow /\ GrantLive(old)

\* loadExistingGrant up to its last write: the access gate, then the grant the
\* session remembers when its row is still there, else a new one to be saved.
LoadGrant(r, c, g, t) ==
  /\ pc[r] = "gate" /\ active[copy[r].user] /\ Fresh(Tokens, t)
  /\ LET old == copy[r].grants[c] IN
       \/ /\ Remembered(r, c) /\ g = old
          /\ minted' = minted \cup {t}
          /\ Goto(r, "code")
       \/ /\ ~Remembered(r, c)
          /\ Fresh(Grants, g)
          /\ minted' = minted \cup {g, t}
          /\ Goto(r, "mint")
  /\ held' = [held EXCEPT ![r] = NewCode(r, c, g, t)]
  /\ copy' = [copy EXCEPT ![r].grants[c] = g]
  /\ UNCHANGED <<now, active, rows, listed, aim, killed, ended, overtaken>>

MintGrant(r) ==
  /\ pc[r] = "mint"
  /\ grant' = [grant EXCEPT ![held[r].grant] =
                 [user |-> held[r].user, client |-> held[r].client,
                  exp |-> now + Cap]]
  /\ Goto(r, "code")
  /\ UNCHANGED <<now, active, session, token, listed, aim, copy, held,
                 minted, killed, ended, overtaken>>

SaveCode(r) ==
  /\ pc[r] = "code"
  /\ token' = [token EXCEPT ![held[r].id] = [held[r] EXCEPT !.exp = now + CodeTtl]]
  /\ Goto(r, "session")
  /\ UNCHANGED <<now, active, session, grant, listed, aim, copy, held,
                 minted, killed, ended, overtaken>>

\* upsert of type Session: the whole payload read earlier is written back.
SaveSession(r) ==
  /\ pc[r] = "session"
  /\ session' = [session EXCEPT ![aim[r].uid] =
                   [copy[r] EXCEPT !.exp = SessionExp(copy[r].loginTs)]]
  /\ Goto(r, "mirror")
  /\ UNCHANGED <<now, active, grant, token, listed, aim, copy, held,
                 minted, killed, ended, overtaken>>

\* ... then the projection: ON CONFLICT keeps the owner, clears revoked_at.
MirrorSession(r) ==
  /\ pc[r] = "mirror"
  /\ LET i == aim[r].uid IN
       listed' = [listed EXCEPT ![i] =
         [user |-> IF listed[i] = NoRow THEN copy[r].user ELSE listed[i].user,
          revoked |-> FALSE]]
  /\ Finish(r)
  /\ UNCHANGED <<now, active, rows, minted, killed, ended, overtaken>>
-----------------------------------------------------------------------------
(* /token: a code or a refresh token is found, consumed, replaced. *)

Redeem(r, t) ==
  /\ pc[r] = "idle" /\ Usable(t)
  /\ held' = [held EXCEPT ![r] = token[t]]
  /\ Goto(r, "consume")
  /\ UNCHANGED <<now, active, rows, listed, aim, copy, minted, killed, ended, overtaken>>

\* The library finds the token already consumed: it deletes what carries the
\* grant's id, answers invalid_grant ...
RedeemReplay(r, t) ==
  /\ pc[r] = "idle" /\ Honoured(t) /\ token[t].consumed
  /\ DeleteByGrant(token[t].grant)
  /\ held' = [held EXCEPT ![r] = token[t]]
  /\ Goto(r, "drop")
  /\ UNCHANGED <<now, active, session, grant, listed, aim, copy,
                 minted, killed, ended, overtaken>>

\* ... and deletes the Grant row by its id, in a statement of its own.
DropGrant(r) ==
  /\ pc[r] = "drop"
  /\ grant' = [grant EXCEPT ![held[r].grant] = NoRow]
  /\ Finish(r)
  /\ UNCHANGED <<now, active, session, token, listed, minted, killed, ended, overtaken>>

ConsumeOnly(t) ==   \* (mutation)
  token' = IF token[t] = NoRow THEN token ELSE [token EXCEPT ![t].consumed = TRUE]
\* consume(): one transaction.  It resolves normally in all three cases, so
\* the request that lost goes on and issues a token as well.
ConsumeRow(t) ==
  IF token[t] = NoRow
  THEN UNCHANGED token
  ELSE IF token[t].consumed
       THEN DeleteByGrant(token[t].grant)
       ELSE token' = [token EXCEPT ![t].consumed = TRUE]

\* Neither this consume() nor a later one takes away what the other request will
\* have issued: the row is gone, or the other one has consumed and not yet issued.
Unnoticed(r) ==
  \/ token[held[r].id] = NoRow
  \/ \E q \in Reqs \ {r} : pc[q] = "issue" /\ held[q].root = held[r].root

Consume(r) ==
  /\ pc[r] = "consume"
  /\ ConsumeRow(held[r].id)
  /\ overtaken' = IF Unnoticed(r) THEN overtaken \cup {held[r].root} ELSE overtaken
  /\ Goto(r, "issue")
  /\ UNCHANGED <<now, active, session, grant, listed, aim, copy, held,
                 minted, killed, ended>>

IssueRefresh(r, t) ==
  /\ pc[r] = "issue" /\ Fresh(Tokens, t)
  /\ minted' = minted \cup {t}
  /\ token' = [token EXCEPT ![t] =
                 [held[r] EXCEPT !.id = t, !.exp = now + Cap, !.consumed = FALSE]]
  /\ Goto(r, "slide")
  /\ UNCHANGED <<now, active, session, grant, listed, aim, copy, held,
                 killed, ended, overtaken>>

SlidAnyRow(i) ==   \* (mutation)
  IF session[i] # NoRow
  THEN [session EXCEPT ![i].exp = Least(now + Idle, session[i].loginTs + Cap)]
  ELSE session
\* The idle window slides: only a session that is still alive is extended.
Slid(i) ==
  IF SessionLive(i)
  THEN [session EXCEPT ![i].exp = Least(now + Idle, session[i].loginTs + Cap)]
  ELSE session

SlideSession(r) ==
  /\ pc[r] = "slide"
  /\ session' = Slid(held[r].uid)
  /\ Finish(r)
  /\ UNCHANGED <<now, active, grant, token, listed, minted, killed, ended, overtaken>>
-----------------------------------------------------------------------------
(* SessionRevocationService, and the adapter's destroy. *)

Unlist(S) ==
  listed' = [i \in Uids |-> IF i \in S /\ listed[i] # NoRow
                            THEN [listed[i] EXCEPT !.revoked = TRUE]
                            ELSE listed[i]]
ListedFor(u) == {i \in Uids : listed[i] # NoRow /\ listed[i].user = u}
SessionsOf(u) == {i \in Uids : session[i] # NoRow /\ session[i].user = u}

\* DELETE of type Session, RefreshToken, AuthorizationCode, by session key.
DeleteSessions(u, S) ==
  /\ session' = [i \in Uids |->
       IF i \in S /\ i \in SessionsOf(u) THEN NoRow ELSE session[i]]
  /\ DeleteTokens({t \in Tokens : token[t] # NoRow /\ token[t].user = u
                                                  /\ token[t].uid \in S})
  /\ ended' = ended \cup (S \cap SessionsOf(u))

RevokeSession(r, u, i) ==
  /\ pc[r] = "idle" /\ i \in minted
  /\ DeleteSessions(u, {i})
  /\ aim' = [aim EXCEPT ![r] = [user |-> u, uid |-> i]]
  /\ Goto(r, "unlist")
  /\ UNCHANGED <<now, active, grant, listed, copy, held, minted, killed, overtaken>>

UnlistSession(r) ==
  /\ pc[r] = "unlist"
  /\ Unlist({aim[r].uid} \cap ListedFor(aim[r].user))
  /\ Finish(r)
  /\ UNCHANGED <<now, active, rows, minted, killed, ended, overtaken>>

\* The cookie's session is looked up, expired or not; no match keeps nothing.
ResolveCurrent(r, u, i) ==
  /\ pc[r] = "idle"
  /\ aim' = [aim EXCEPT ![r] =
               [user |-> u, uid |-> IF i \in SessionsOf(u) THEN i ELSE NoRow]]
  /\ Goto(r, "others")
  /\ UNCHANGED <<now, active, rows, listed, copy, held, minted, killed, ended, overtaken>>

RevokeOtherSessions(r) ==
  /\ pc[r] = "others"
  /\ DeleteSessions(aim[r].user, Uids \ {aim[r].uid})
  /\ Goto(r, "unlistOthers")
  /\ UNCHANGED <<now, active, grant, listed, aim, copy, held, minted, killed, overtaken>>

UnlistOtherSessions(r) ==
  /\ pc[r] = "unlistOthers"
  /\ Unlist(ListedFor(aim[r].user) \ {aim[r].uid})
  /\ Finish(r)
  /\ UNCHANGED <<now, active, rows, minted, killed, ended, overtaken>>

\* setLocked(true) and softDelete: the status first, the revocation after it.
LockUser(r, u) ==
  /\ pc[r] = "idle" /\ active[u]
  /\ active' = [active EXCEPT ![u] = FALSE]
  /\ aim' = [aim EXCEPT ![r] = [user |-> u, uid |-> NoRow]]
  /\ Goto(r, "killAll")
  /\ UNCHANGED <<now, rows, listed, copy, held, minted, killed, ended, overtaken>>

\* setLocked(false) and reactivate.
UnlockUser(u) ==
  /\ ~active[u]
  /\ active' = [active EXCEPT ![u] = TRUE]
  /\ UNCHANGED <<now, rows, listed, pc, aim, copy, held, minted, killed, ended, overtaken>>

\* Log out everywhere, reset of a password: the back-channel notice goes out.
LogoutAll(r, u) ==
  /\ pc[r] = "idle"
  /\ aim' = [aim EXCEPT ![r] = [user |-> u, uid |-> NoRow]]
  /\ Goto(r, "killAll")
  /\ UNCHANGED <<now, active, rows, listed, copy, held, minted, killed, ended, overtaken>>

DeleteGrantsKeepsRows(u, S) ==   \* (mutation)
  /\ token' = [t \in Tokens |->
       IF token[t] # NoRow /\ token[t].user = u /\ token[t].client \in S
       THEN NoRow ELSE token[t]]
  /\ killed' = killed \cup {g \in Grants : /\ grant[g] # NoRow /\ grant[g].user = u
                                           /\ grant[g].client \in S}
  /\ UNCHANGED grant
\* DELETE of every artifact of the user that falls in S (a set of clients).
DeleteGrants(u, S) ==
  LET cut == {g \in Grants : grant[g] # NoRow /\ grant[g].user = u
                                              /\ grant[g].client \in S} IN
    /\ grant' = [g \in Grants |-> IF g \in cut THEN NoRow ELSE grant[g]]
    /\ token' = [t \in Tokens |->
         IF token[t] # NoRow /\ token[t].user = u /\ token[t].client \in S
         THEN NoRow ELSE token[t]]
    /\ killed' = killed \cup cut

\* revokeAllForUser: one transaction.
RevokeAllForUser(r) ==
  /\ pc[r] = "killAll"
  /\ LET u == aim[r].user IN
       /\ DeleteGrants(u, Clients)
       /\ session' = [i \in Uids |-> IF i \in SessionsOf(u) THEN NoRow ELSE session[i]]
       /\ ended' = ended \cup SessionsOf(u)
       /\ Unlist(ListedFor(u))
  /\ Finish(r)
  /\ UNCHANGED <<now, active, minted, overtaken>>

\* revokeForUserInProjects: S is the clients of the projects named.
RevokeForUserInProjects(u, S) ==
  /\ DeleteGrants(u, S)
  /\ UNCHANGED <<now, active, session, listed, pc, aim, copy, held, minted,
                 ended, overtaken>>

\* destroy() of a Session (end_session): projection first, then the row.
LogoutMark(r, i) ==
  /\ pc[r] = "idle" /\ SessionLive(i)
  /\ Unlist({i})
  /\ aim' = [aim EXCEPT ![r] = [user |-> session[i].user, uid |-> i]]
  /\ Goto(r, "destroy")
  /\ UNCHANGED <<now, active, rows, copy, held, minted, killed, ended, overtaken>>

Destroy(r) ==
  /\ pc[r] = "destroy"
  /\ session' = [session EXCEPT ![aim[r].uid] = NoRow]
  /\ ended' = ended \cup {aim[r].uid}
  /\ Finish(r)
  /\ UNCHANGED <<now, active, grant, token, listed, minted, killed, overtaken>>
-----------------------------------------------------------------------------
\* The hourly purge: one DELETE of every row past its expiry.
Cleanup ==
  /\ session' = [i \in Uids |->
       IF session[i] # NoRow /\ session[i].exp < now THEN NoRow ELSE session[i]]
  /\ grant' = [g \in Grants |->
       IF grant[g] # NoRow /\ grant[g].exp < now THEN NoRow ELSE grant[g]]
  /\ DeleteTokens({t \in Tokens : token[t] # NoRow /\ token[t].exp < now})
  /\ UNCHANGED <<now, active, listed, pc, aim, copy, held, minted, killed, ended, overtaken>>

\* A statement fails or the process stops: the request ends where it is.
Abort(r) ==
  /\ pc[r] # "idle"
  /\ Finish(r)
  /\ UNCHANGED <<now, active, rows, listed, minted, killed, ended, overtaken>>

Tick ==
  /\ now < MaxTime
  /\ now' = now + 1
  /\ UNCHANGED <<active, rows, listed, pc, aim, copy, held, minted,
                 killed, ended, overtaken>>

Authorize(r) ==
  \/ \E u \in Users, i \in Uids : Login(r, u, i)
  \/ \E i \in Uids : AuthorizeRead(r, i)
  \/ \E c \in Clients, g \in Grants, t \in Tokens : LoadGrant(r, c, g, t)
  \/ MintGrant(r) \/ SaveCode(r) \/ SaveSession(r) \/ MirrorSession(r)

Exchange(r) ==
  \/ \E t \in Tokens : Redeem(r, t) \/ RedeemReplay(r, t) \/ IssueRefresh(r, t)
  \/ Consume(r) \/ SlideSession(r) \/ DropGrant(r)

Revoke(r) ==
  \/ \E u \in Users, i \in Uids : RevokeSession(r, u, i) \/ ResolveCurrent(r, u, i)
  \/ \E i \in Uids : LogoutMark(r, i)
  \/ \E u \in Users : LockUser(r, u) \/ LogoutAll(r, u)
  \/ UnlistSession(r) \/ RevokeOtherSessions(r) \/ UnlistOtherSessions(r)
  \/ RevokeAllForUser(r) \/ Destroy(r)

Next ==
  \/ \E r \in Reqs : Authorize(r) \/ Exchange(r) \/ Revoke(r) \/ Abort(r)
  \/ \E u \in Users : UnlockUser(u)
  \/ \E u \in Users : \E S \in SUBSET Clients : RevokeForUserInProjects(u, S)
  \/ Cleanup
  \/ Tick

Spec == Init /\ [][Next]_vars
-----------------------------------------------------------------------------
\* Global and per-project revocation are final: whatever requests were in
\* flight, no token ever works again under a grant the kill switch covered.
\* (revokeAllForUser, revokeForUserInProjects against upsert and consume.)
KillSwitchIsFinal ==
  \A t \in Tokens : Usable(t) => token[t].grant \notin killed

\* However many requests redeem the tokens of a code, one token of it works: who
\* comes second takes the successor of the first one away, or is refused.  Except
\* where consume() cannot notice: the row it should mark was deleted in between, or
\* the other request has marked its own and is still to issue, so that its successor
\* is saved after the delete.  Then both work, for the delete leaves the Grant row.
\* (consume of oidc/pg-adapter.ts.)
OneUsablePerLineage ==
  \A a, b \in Tokens :
    (/\ Usable(a) /\ Usable(b) /\ a # b
     /\ token[a].root = token[b].root) => token[a].root \in overtaken

\* No refresh, no late write of a session and no stale copy of it carries a
\* session past the absolute cap counted from its login.  (ttl.Session and the
\* sliding UPDATE.)
NothingPastCap ==
  \A i \in Uids : SessionLive(i) => now < session[i].loginTs + Cap

\* A refresh never brings an expired session back: only an /authorize request
\* that had read the session alive may write it again.
RefreshNeverRevives ==
  [][\A i \in Uids :
       (session[i] # NoRow /\ ~SessionLive(i) /\ SessionLive(i)')
         => \E r \in Reqs : pc[r] = "session" /\ aim[r].uid = i]_vars

\* A working token stops working only for a cause that concerns it: time, its
\* own use, a replay under its grant, a revocation of its grant, session or
\* account, or a request that writes its session back from a copy that does
\* not remember its grant.  (Nobody is signed out of one application because
\* of another: deletes by grant, by client and by session key.)
ReplayUnder(g) ==
  \/ \E s \in Tokens : /\ token[s] # NoRow /\ token[s].grant = g /\ token[s].consumed
                         /\ token'[s] = NoRow
  \/ \E r \in Reqs : pc[r] = "drop" /\ held[r].grant = g
StaleWrite(k) ==
  \E r \in Reqs : /\ pc[r] = "session" /\ aim[r].uid = k.uid
                  /\ copy[r].grants[k.client] # k.grant
LossHasCause ==
  [][\A t \in Tokens :
       (Usable(t) /\ ~Usable(t)') =>
         LET k == token[t] IN
           \/ now' # now
           \/ \E r \in Reqs : pc[r] = "consume" /\ held[r].id = t
           \/ ReplayUnder(k.grant)
           \/ k.grant \in killed' \/ k.uid \in ended' \/ ~active'[k.user]
           \/ StaleWrite(k)]_vars

\* What session-revocation.service.ts says of revokeAllForUser and its
\* siblings: once a session was revoked or logged out it is gone for good.
EndedStaysEnded == \A i \in ended : ~SessionLive(i)

\* What the comment above consume() says of the successor that a race leaves behind: it is
\* refused at its next use, so that never two tokens of one code work.
OrphansRefused ==
  \A a, b \in Tokens : Usable(a) /\ Usable(b) /\ token[a].root = token[b].root => a = b
=============================================================================
