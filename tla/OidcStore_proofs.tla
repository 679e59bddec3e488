--------------------------- MODULE OidcStore_proofs ---------------------------
(***************************************************************************)
(* Theorems about OidcStore, for every set of users, clients, ids and       *)
(* requests and every idle window and cap.                                  *)
(***************************************************************************)
EXTENDS OidcStore, TLAPS

(* What a request holds at each statement: needed because TypeOK alone does *)
(* not say that held[r] is a row when it is saved.                          *)
Authorizing == {"gate", "mint", "code", "session", "mirror"}
Holding     == {"mint", "code", "session", "mirror", "consume", "issue", "slide",
                "drop"}
OnSession   == Authorizing \cup {"unlist", "destroy"}
OnUser      == OnSession \cup {"others", "unlistOthers", "killAll"}

ReqOK(r) ==
  /\ pc[r] \in Authorizing => copy[r] \in SessionRow
  /\ pc[r] \in Holding     => held[r] \in TokenRow
  /\ pc[r] \in OnUser      => aim[r] \in Aim
  /\ pc[r] \in OnSession   => aim[r].uid \in Uids

TypeInv == TypeOK /\ \A r \in Reqs : ReqOK(r)

LEMMA TypeInvInit == Init => TypeInv
  BY IdsAssumption DEF Init, TypeInv, TypeOK, ReqOK, Authorizing, Holding, OnSession, OnUser, Steps

LEMMA UnlistType ==
  ASSUME TypeOK, NEW S, Unlist(S)
  PROVE  listed' \in [Uids -> ListedRow \cup {NoRow}]
  <1>1. ASSUME NEW i \in Uids, listed[i] # NoRow
        PROVE  [listed[i] EXCEPT !.revoked = TRUE] \in ListedRow
    BY <1>1 DEF TypeOK, ListedRow
  <1>2. QED
    BY <1>1 DEF TypeOK, Unlist

LEMMA DeleteType ==
  ASSUME TypeInv, NEW S, DeleteTokens(S)
  PROVE  token' \in [Tokens -> TokenRow \cup {NoRow}]
  BY DEF TypeInv, TypeOK, DeleteTokens

LEMMA ReissuedRow ==
  ASSUME NEW k \in TokenRow, NEW t \in Tokens, NEW e \in Nat
  PROVE  [k EXCEPT !.id = t, !.exp = e, !.consumed = FALSE] \in TokenRow
  BY DEF TokenRow

LEMMA TypeInvStep == TypeInv /\ [Next]_vars => TypeInv'
  <1> SUFFICES ASSUME TypeInv, [Next]_vars PROVE TypeInv'
    OBVIOUS
  <1> USE IdsAssumption, TimesAssumption
  <1> USE DEF TypeInv, TypeOK, ReqOK, Authorizing, Holding, OnSession, OnUser, Steps, rows
  <1>1. ASSUME NEW r \in Reqs, Authorize(r) PROVE TypeInv'
    <2>1. ASSUME NEW u \in Users, NEW i \in Uids, Login(r, u, i) PROVE TypeInv'
      BY <2>1 DEF Login, Goto, SessionRow, Aim, Fresh
    <2>2. ASSUME NEW i \in Uids, AuthorizeRead(r, i) PROVE TypeInv'
      BY <2>2 DEF AuthorizeRead, Goto, SessionRow, Aim, SessionLive
    <2>3. ASSUME NEW c \in Clients, NEW g \in Grants, NEW t \in Tokens, LoadGrant(r, c, g, t)
          PROVE TypeInv'
      <3>1. pc[r] = "gate" /\ copy[r] \in SessionRow /\ aim[r].uid \in Uids
        BY <2>3 DEF LoadGrant
      <3>2. NewCode(r, c, g, t) \in TokenRow
        BY <3>1 DEF NewCode, TokenRow, SessionRow
      <3>3. [copy[r] EXCEPT !.grants[c] = g] \in SessionRow
        BY <3>1 DEF SessionRow
      <3>4. /\ held' = [held EXCEPT ![r] = NewCode(r, c, g, t)]
            /\ copy' = [copy EXCEPT ![r] = [copy[r] EXCEPT !.grants[c] = g]]
        BY <2>3 DEF LoadGrant
      <3>5. \/ pc' = [pc EXCEPT ![r] = "code"] /\ minted' = minted \cup {t}
            \/ pc' = [pc EXCEPT ![r] = "mint"] /\ minted' = minted \cup {g, t}
        BY <2>3 DEF LoadGrant, Goto
      <3>6. UNCHANGED <<now, active, rows, listed, aim, killed, ended, overtaken>>
        BY <2>3 DEF LoadGrant
      <3>7. TypeOK'
        BY <3>1, <3>2, <3>3, <3>4, <3>5, <3>6
      <3>8. QED
        BY <3>1, <3>2, <3>3, <3>4, <3>5, <3>6, <3>7
    <2>4. CASE MintGrant(r)
      BY <2>4 DEF MintGrant, Goto, GrantRow, TokenRow
    <2>5. CASE SaveCode(r)
      BY <2>5 DEF SaveCode, Goto, TokenRow
    <2>6. CASE SaveSession(r)
      BY <2>6 DEF SaveSession, Goto, SessionRow, SessionExp, Most, Least
    <2>7. CASE MirrorSession(r)
      BY <2>7 DEF MirrorSession, Finish, Goto, SessionRow, ListedRow
    <2>8. QED
      BY <1>1, <2>1, <2>2, <2>3, <2>4, <2>5, <2>6, <2>7 DEF Authorize
  <1>2. ASSUME NEW r \in Reqs, Exchange(r) PROVE TypeInv'
    <2>1. ASSUME NEW t \in Tokens, Redeem(r, t) PROVE TypeInv'
      BY <2>1 DEF Redeem, Goto, Usable, Honoured, TokenLive
    <2>2. ASSUME NEW t \in Tokens, RedeemReplay(r, t) PROVE TypeInv'
      <3>1. token[t] \in TokenRow
        BY <2>2 DEF RedeemReplay, Honoured, TokenLive
      <3>2. token' \in [Tokens -> TokenRow \cup {NoRow}]
        BY <2>2, DeleteType DEF RedeemReplay, DeleteByGrant
      <3>3. QED
        BY <2>2, <3>1, <3>2 DEF RedeemReplay, Goto
    <2>3. ASSUME NEW t \in Tokens, IssueRefresh(r, t) PROVE TypeInv'
      <3>1. pc[r] = "issue" /\ held[r] \in TokenRow
        BY <2>3 DEF IssueRefresh
      <3>2. [held[r] EXCEPT !.id = t, !.exp = now + Cap, !.consumed = FALSE] \in TokenRow
        <4> DEFINE e == now + Cap
        <4>1. e \in Nat
          OBVIOUS
        <4> HIDE DEF e
        <4>2. [held[r] EXCEPT !.id = t, !.exp = e, !.consumed = FALSE] \in TokenRow
          BY <3>1, <4>1, ReissuedRow
        <4>3. QED
          BY <4>2 DEF e
      <3>3. token' = [token EXCEPT ![t] =
                [held[r] EXCEPT !.id = t, !.exp = now + Cap, !.consumed = FALSE]]
        BY <2>3 DEF IssueRefresh
      <3>4. token' \in [Tokens -> TokenRow \cup {NoRow}]
        BY <3>2, <3>3
      <3>5. QED
        BY <2>3, <3>1, <3>4 DEF IssueRefresh, Goto
    <2>4. CASE Consume(r)
      <3>1. pc[r] = "consume" /\ held[r] \in TokenRow /\ held[r].id \in Tokens
        BY <2>4 DEF Consume, TokenRow
      <3>2. token' \in [Tokens -> TokenRow \cup {NoRow}]
        <4> DEFINE t == held[r].id
        <4>1. CASE token[t] = NoRow
          BY <2>4, <4>1 DEF Consume, ConsumeRow
        <4>2. CASE token[t] # NoRow /\ token[t].consumed
          BY <2>4, <4>2, DeleteType DEF Consume, ConsumeRow, DeleteByGrant
        <4>3. CASE token[t] # NoRow /\ ~token[t].consumed
          <5> HIDE DEF t
          <5>0. t \in Tokens /\ token[t] \in TokenRow
            BY <3>1, <4>3 DEF t
          <5>1. [token[t] EXCEPT !.consumed = TRUE] \in TokenRow
            BY <5>0 DEF TokenRow
          <5>2. token' = [token EXCEPT ![t] = [token[t] EXCEPT !.consumed = TRUE]]
            BY <2>4, <4>3 DEF Consume, ConsumeRow, t
          <5>3. QED
            BY <5>0, <5>1, <5>2
        <4>4. QED
          BY <4>1, <4>2, <4>3
      <3>3. overtaken' \subseteq Tokens
        BY <2>4, <3>1 DEF Consume, TokenRow
      <3>4. QED
        BY <2>4, <3>1, <3>2, <3>3 DEF Consume, Goto
    <2>5. CASE SlideSession(r)
      <3> DEFINE i == held[r].uid
                 e == Least(now + Idle, session[i].loginTs + Cap)
      <3>1. pc[r] = "slide" /\ i \in Uids
        BY <2>5 DEF SlideSession, TokenRow
      <3>2. session[i] # NoRow => [session[i] EXCEPT !.exp = e] \in SessionRow
        BY <3>1 DEF SessionRow, Least
      <3>3. \/ session' = session
            \/ /\ session[i] # NoRow
               /\ session' = [session EXCEPT ![i] = [session[i] EXCEPT !.exp = e]]
        BY <2>5 DEF SlideSession, Slid, SessionLive
      <3> HIDE DEF i, e
      <3>4. session' \in [Uids -> SessionRow \cup {NoRow}]
        BY <3>1, <3>2, <3>3
      <3>5. QED
        BY <2>5, <3>4 DEF SlideSession, Finish, Goto
    <2>6. CASE DropGrant(r)
      BY <2>6 DEF DropGrant, Finish, Goto
    <2>7. QED
      BY <1>2, <2>1, <2>2, <2>3, <2>4, <2>5, <2>6 DEF Exchange
  <1>3. ASSUME NEW r \in Reqs, Revoke(r) PROVE TypeInv'
    <2>1. ASSUME NEW u \in Users, NEW i \in Uids, RevokeSession(r, u, i) PROVE TypeInv'
      BY <2>1, DeleteType DEF RevokeSession, DeleteSessions, Goto, Aim
    <2>2. ASSUME NEW u \in Users, NEW i \in Uids, ResolveCurrent(r, u, i) PROVE TypeInv'
      BY <2>2 DEF ResolveCurrent, Goto, Aim
    <2>3. ASSUME NEW i \in Uids, LogoutMark(r, i) PROVE TypeInv'
      <3>1. listed' \in [Uids -> ListedRow \cup {NoRow}]
        BY <2>3, UnlistType DEF LogoutMark
      <3>2. QED
        BY <2>3, <3>1 DEF LogoutMark, Goto, Aim, SessionLive, SessionRow
    <2>4. ASSUME NEW u \in Users, LockUser(r, u) PROVE TypeInv'
      BY <2>4 DEF LockUser, Goto, Aim
    <2>5. ASSUME NEW u \in Users, LogoutAll(r, u) PROVE TypeInv'
      BY <2>5 DEF LogoutAll, Goto, Aim
    <2>6. CASE UnlistSession(r)
      <3>1. listed' \in [Uids -> ListedRow \cup {NoRow}]
        BY <2>6, UnlistType DEF UnlistSession
      <3>2. QED
        BY <2>6, <3>1 DEF UnlistSession, Finish, Goto
    <2>7. CASE RevokeOtherSessions(r)
      BY <2>7, DeleteType DEF RevokeOtherSessions, DeleteSessions, Goto, Aim
    <2>8. CASE UnlistOtherSessions(r)
      <3>1. listed' \in [Uids -> ListedRow \cup {NoRow}]
        BY <2>8, UnlistType DEF UnlistOtherSessions
      <3>2. QED
        BY <2>8, <3>1 DEF UnlistOtherSessions, Finish, Goto
    <2>9. CASE RevokeAllForUser(r)
      <3>1. listed' \in [Uids -> ListedRow \cup {NoRow}]
        BY <2>9, UnlistType DEF RevokeAllForUser
      <3>2. QED
        BY <2>9, <3>1 DEF RevokeAllForUser, DeleteGrants, SessionsOf, Finish, Goto
    <2>10. CASE Destroy(r)
      BY <2>10 DEF Destroy, Finish, Goto
    <2>11. QED
      BY <1>3, <2>1, <2>2, <2>3, <2>4, <2>5, <2>6, <2>7, <2>8, <2>9, <2>10 DEF Revoke
  <1>4. ASSUME NEW r \in Reqs, Abort(r) PROVE TypeInv'
    BY <1>4 DEF Abort, Finish, Goto
  <1>5. ASSUME NEW u \in Users, UnlockUser(u) PROVE TypeInv'
    BY <1>5 DEF UnlockUser
  <1>6. ASSUME NEW u \in Users, NEW S \in SUBSET Clients, RevokeForUserInProjects(u, S)
        PROVE TypeInv'
    BY <1>6 DEF RevokeForUserInProjects, DeleteGrants
  <1>7. CASE Cleanup
    BY <1>7, DeleteType DEF Cleanup
  <1>8. CASE Tick
    BY <1>8 DEF Tick
  <1>9. CASE UNCHANGED vars
    BY <1>9 DEF vars
  <1>10. QED
    BY <1>1, <1>2, <1>3, <1>4, <1>5, <1>6, <1>7, <1>8, <1>9 DEF Next

LEMMA TypeInvariant == Spec => []TypeInv
  BY TypeInvInit, TypeInvStep, PTL DEF Spec

\* Every row, every request and every history variable keeps its type.
THEOREM TypeCorrect == Spec => []TypeOK
  BY TypeInvariant, PTL DEF TypeInv

-----------------------------------------------------------------------------
(* The kill switch is final.  A covered grant has no row; a request between *)
(* LoadGrant and MintGrant could bring a row back, so the invariant says    *)
(* that the grant it is about to save is fresh, and its own.                *)

KillInv ==
  /\ \A g \in Grants : grant[g] # NoRow => g \in minted
  /\ killed \subseteq minted
  /\ \A g \in killed : grant[g] = NoRow
  /\ \A r \in Reqs : pc[r] = "mint" =>
       /\ held[r].grant \in minted \ killed
       /\ grant[held[r].grant] = NoRow
  /\ \A r, s \in Reqs :
       (pc[r] = "mint" /\ pc[s] = "mint" /\ r # s) => held[r].grant # held[s].grant

LEMMA KillInvImplies == TypeInv /\ KillInv => KillSwitchIsFinal
  <1> SUFFICES ASSUME TypeInv, KillInv, NEW t \in Tokens, Usable(t)
               PROVE  token[t].grant \notin killed
    BY DEF KillSwitchIsFinal
  <1>1. grant[token[t].grant] # NoRow
    BY DEF Usable, Honoured, GrantLive
  <1>2. QED
    BY <1>1 DEF KillInv

(* A step that only deletes grant rows, covers no grant, forgets no id and  *)
(* leaves no request about to mint that was not, keeps the invariant.       *)
LEMMA KillInvShrink ==
  ASSUME KillInv, TypeOK,
         \A g \in Grants : grant'[g] = grant[g] \/ grant'[g] = NoRow,
         minted \subseteq minted', killed' = killed,
         \A r \in Reqs : pc'[r] = "mint" => pc[r] = "mint" /\ held'[r] = held[r],
         \A r \in Reqs : pc[r] = "mint" => held[r].grant \in Grants
  PROVE  KillInv'
  BY DEF KillInv, TypeOK

LEMMA KillInvDelete ==
  ASSUME KillInv, TypeInv, NEW u, NEW S, DeleteGrants(u, S), minted' = minted,
         \A r \in Reqs : pc'[r] = "mint" => pc[r] = "mint" /\ held'[r] = held[r]
  PROVE  KillInv'
  <1> DEFINE cut == {g \in Grants : grant[g] # NoRow /\ grant[g].user = u
                                                   /\ grant[g].client \in S}
  <1>1. /\ grant' = [g \in Grants |-> IF g \in cut THEN NoRow ELSE grant[g]]
        /\ killed' = killed \cup cut
    BY DEF DeleteGrants
  <1>2. cut \subseteq Grants /\ \A g \in cut : grant[g] # NoRow
    OBVIOUS
  <1> HIDE DEF cut
  <1>3. \A r \in Reqs : pc[r] = "mint" => held[r].grant \in Grants
    BY DEF TypeInv, ReqOK, Holding, TokenRow
  <1>4. killed \subseteq Grants
    BY DEF TypeInv, TypeOK
  <1>5. QED
    BY <1>1, <1>2, <1>3, <1>4 DEF KillInv

LEMMA KillInvInit == Init => KillInv
  BY DEF Init, KillInv

LEMMA KillInvStep == TypeInv /\ KillInv /\ [Next]_vars => KillInv'
  <1> SUFFICES ASSUME TypeInv, KillInv, [Next]_vars PROVE KillInv'
    OBVIOUS
  <1> USE DEF rows
  <1>0. /\ TypeOK
        /\ \A r \in Reqs : pc[r] = "mint" => held[r].grant \in Grants
        /\ pc \in [Reqs -> Steps] /\ DOMAIN held = Reqs
    BY DEF TypeInv, TypeOK, ReqOK, Holding, TokenRow
  <1>1. ASSUME NEW r \in Reqs, Authorize(r) PROVE KillInv'
    <2>1. ASSUME NEW u \in Users, NEW i \in Uids, Login(r, u, i) PROVE KillInv'
      BY <1>0, <2>1, KillInvShrink DEF Login, Goto
    <2>2. ASSUME NEW i \in Uids, AuthorizeRead(r, i) PROVE KillInv'
      BY <1>0, <2>2, KillInvShrink DEF AuthorizeRead, Goto
    <2>3. ASSUME NEW c \in Clients, NEW g \in Grants, NEW t \in Tokens, LoadGrant(r, c, g, t)
          PROVE KillInv'
      <3>0. /\ pc[r] = "gate" /\ UNCHANGED <<grant, killed>>
            /\ held' = [held EXCEPT ![r] = NewCode(r, c, g, t)]
            /\ NewCode(r, c, g, t).grant = g
        BY <2>3 DEF LoadGrant, NewCode
      <3>1. CASE pc' = [pc EXCEPT ![r] = "code"] /\ minted' = minted \cup {t}
        BY <1>0, <3>0, <3>1, KillInvShrink
      <3>2. CASE /\ pc' = [pc EXCEPT ![r] = "mint"] /\ minted' = minted \cup {g, t}
                 /\ g \notin minted
        <4>1. grant[g] = NoRow /\ g \notin killed
          BY <3>2 DEF KillInv
        <4>2. held'[r].grant = g
          BY <1>0, <3>0
        <4>3. \A s \in Reqs : s # r => held'[s] = held[s] /\ pc'[s] = pc[s]
          BY <1>0, <3>0, <3>2
        <4>4. QED
          BY <1>0, <3>0, <3>2, <4>1, <4>2, <4>3 DEF KillInv
      <3>3. QED
        BY <2>3, <3>1, <3>2 DEF LoadGrant, Goto, Fresh
    <2>4. CASE MintGrant(r)
      <3> DEFINE g == held[r].grant
      <3>1. /\ pc[r] = "mint" /\ pc' = [pc EXCEPT ![r] = "code"]
            /\ UNCHANGED <<held, minted, killed>>
            /\ \A h \in Grants : h # g => grant'[h] = grant[h]
        BY <1>0, <2>4 DEF MintGrant, Goto, TypeOK
      <3>2. g \in minted /\ g \notin killed /\ g \in Grants
        BY <1>0, <3>1 DEF KillInv
      <3>3. \A s \in Reqs : pc'[s] = "mint" => s # r /\ pc[s] = "mint" /\ held[s].grant # g
        BY <1>0, <3>1 DEF KillInv
      <3> HIDE DEF g
      <3>4. killed \subseteq Grants
        BY <1>0 DEF TypeOK
      <3>5. QED
        BY <1>0, <3>1, <3>2, <3>3, <3>4 DEF KillInv
    <2>5. CASE SaveCode(r)
      BY <1>0, <2>5, KillInvShrink DEF SaveCode, Goto
    <2>6. CASE SaveSession(r)
      BY <1>0, <2>6, KillInvShrink DEF SaveSession, Goto
    <2>7. CASE MirrorSession(r)
      BY <1>0, <2>7, KillInvShrink DEF MirrorSession, Finish, Goto
    <2>8. QED
      BY <1>1, <2>1, <2>2, <2>3, <2>4, <2>5, <2>6, <2>7 DEF Authorize
  <1>2. ASSUME NEW r \in Reqs, Exchange(r) PROVE KillInv'
    <2>1. ASSUME NEW t \in Tokens, Redeem(r, t) PROVE KillInv'
      BY <1>0, <2>1, KillInvShrink DEF Redeem, Goto
    <2>2. ASSUME NEW t \in Tokens, RedeemReplay(r, t) PROVE KillInv'
      BY <1>0, <2>2, KillInvShrink DEF RedeemReplay, Goto
    <2>3. ASSUME NEW t \in Tokens, IssueRefresh(r, t) PROVE KillInv'
      BY <1>0, <2>3, KillInvShrink DEF IssueRefresh, Goto
    <2>4. CASE Consume(r)
      BY <1>0, <2>4, KillInvShrink DEF Consume, Goto
    <2>5. CASE SlideSession(r)
      BY <1>0, <2>5, KillInvShrink DEF SlideSession, Finish, Goto
    <2>6. CASE DropGrant(r)
      BY <1>0, <2>6, KillInvShrink DEF DropGrant, Finish, Goto, TypeOK
    <2>7. QED
      BY <1>2, <2>1, <2>2, <2>3, <2>4, <2>5, <2>6 DEF Exchange
  <1>3. ASSUME NEW r \in Reqs, Revoke(r) PROVE KillInv'
    <2>1. ASSUME NEW u \in Users, NEW i \in Uids, RevokeSession(r, u, i) PROVE KillInv'
      BY <1>0, <2>1, KillInvShrink DEF RevokeSession, Goto
    <2>2. ASSUME NEW u \in Users, NEW i \in Uids, ResolveCurrent(r, u, i) PROVE KillInv'
      BY <1>0, <2>2, KillInvShrink DEF ResolveCurrent, Goto
    <2>3. ASSUME NEW i \in Uids, LogoutMark(r, i) PROVE KillInv'
      BY <1>0, <2>3, KillInvShrink DEF LogoutMark, Goto
    <2>4. ASSUME NEW u \in Users, LockUser(r, u) PROVE KillInv'
      BY <1>0, <2>4, KillInvShrink DEF LockUser, Goto
    <2>5. ASSUME NEW u \in Users, LogoutAll(r, u) PROVE KillInv'
      BY <1>0, <2>5, KillInvShrink DEF LogoutAll, Goto
    <2>6. CASE UnlistSession(r)
      BY <1>0, <2>6, KillInvShrink DEF UnlistSession, Finish, Goto
    <2>7. CASE RevokeOtherSessions(r)
      BY <1>0, <2>7, KillInvShrink DEF RevokeOtherSessions, Goto
    <2>8. CASE UnlistOtherSessions(r)
      BY <1>0, <2>8, KillInvShrink DEF UnlistOtherSessions, Finish, Goto
    <2>9. CASE RevokeAllForUser(r)
      BY <1>0, <2>9, KillInvDelete DEF RevokeAllForUser, Finish, Goto
    <2>10. CASE Destroy(r)
      BY <1>0, <2>10, KillInvShrink DEF Destroy, Finish, Goto
    <2>11. QED
      BY <1>3, <2>1, <2>2, <2>3, <2>4, <2>5, <2>6, <2>7, <2>8, <2>9, <2>10 DEF Revoke
  <1>4. ASSUME NEW r \in Reqs, Abort(r) PROVE KillInv'
    BY <1>0, <1>4, KillInvShrink DEF Abort, Finish, Goto
  <1>5. ASSUME NEW u \in Users, UnlockUser(u) PROVE KillInv'
    BY <1>0, <1>5, KillInvShrink DEF UnlockUser
  <1>6. ASSUME NEW u \in Users, NEW S \in SUBSET Clients, RevokeForUserInProjects(u, S)
        PROVE KillInv'
    BY <1>6, KillInvDelete DEF RevokeForUserInProjects
  <1>7. CASE Cleanup
    BY <1>0, <1>7, KillInvShrink DEF Cleanup
  <1>8. CASE Tick
    BY <1>0, <1>8, KillInvShrink DEF Tick
  <1>9. CASE UNCHANGED vars
    BY <1>0, <1>9, KillInvShrink DEF vars
  <1>10. QED
    BY <1>1, <1>2, <1>3, <1>4, <1>5, <1>6, <1>7, <1>8, <1>9 DEF Next

\* No token ever works again under a grant that a global or per-project
\* revocation covered, whatever requests were in flight when it ran.
THEOREM KillSwitch == Spec => []KillSwitchIsFinal
  <1>1. Spec => []KillInv
    BY TypeInvariant, KillInvInit, KillInvStep, PTL DEF Spec
  <1>2. QED
    BY <1>1, TypeInvariant, KillInvImplies, PTL

-----------------------------------------------------------------------------
(* What every step does to the sessions and to the clock: rows are deleted, *)
(* and two steps write one.                                                 *)
SessionsShrink == \A i \in Uids : session'[i] = session[i] \/ session'[i] = NoRow

LEMMA SessionSteps ==
  ASSUME TypeInv, [Next]_vars
  PROVE  \/ /\ SessionsShrink /\ now' \in Nat /\ now <= now'
         \/ \E r \in Reqs : SaveSession(r)
         \/ \E r \in Reqs : SlideSession(r)
  <1> USE DEF rows
  <1>0. now \in Nat /\ now <= now /\ now + 1 \in Nat /\ now <= now + 1 /\ DOMAIN session = Uids
    BY DEF TypeInv, TypeOK
  <1>1. CASE UNCHANGED <<now, session>>
    BY <1>0, <1>1 DEF SessionsShrink
  <1>2. ASSUME NEW r \in Reqs, Authorize(r) PROVE UNCHANGED <<now, session>> \/ SaveSession(r)
    BY <1>2 DEF Authorize, Login, AuthorizeRead, LoadGrant, MintGrant, SaveCode, MirrorSession
  <1>3. ASSUME NEW r \in Reqs, Exchange(r) PROVE UNCHANGED <<now, session>> \/ SlideSession(r)
    BY <1>3 DEF Exchange, Redeem, RedeemReplay, IssueRefresh, Consume, DropGrant
  <1>4. ASSUME NEW r \in Reqs, Revoke(r) PROVE now' = now /\ SessionsShrink
    <2>1. \/ UNCHANGED <<now, session>>
          \/ RevokeOtherSessions(r) \/ RevokeAllForUser(r) \/ Destroy(r)
          \/ \E u \in Users, i \in Uids : RevokeSession(r, u, i)
      BY <1>4 DEF Revoke, ResolveCurrent, LogoutMark, LockUser, LogoutAll,
                  UnlistSession, UnlistOtherSessions
    <2>2. CASE RevokeOtherSessions(r)
      BY <2>2 DEF RevokeOtherSessions, DeleteSessions, SessionsShrink
    <2>3. CASE RevokeAllForUser(r)
      BY <2>3 DEF RevokeAllForUser, SessionsShrink
    <2>4. CASE Destroy(r)
      BY <1>0, <2>4 DEF Destroy, SessionsShrink
    <2>5. ASSUME NEW u \in Users, NEW i \in Uids, RevokeSession(r, u, i)
          PROVE  now' = now /\ SessionsShrink
      BY <2>5 DEF RevokeSession, DeleteSessions, SessionsShrink
    <2>6. QED
      BY <2>1, <2>2, <2>3, <2>4, <2>5 DEF SessionsShrink
  <1>5. CASE Cleanup
    BY <1>0, <1>5 DEF Cleanup, SessionsShrink
  <1>6. CASE Tick
    BY <1>0, <1>6 DEF Tick, SessionsShrink
  <1>7. ASSUME \/ \E r \in Reqs : Abort(r)
               \/ \E u \in Users : UnlockUser(u)
               \/ \E u \in Users : \E S \in SUBSET Clients : RevokeForUserInProjects(u, S)
               \/ UNCHANGED vars
        PROVE  UNCHANGED <<now, session>>
    BY <1>7 DEF Abort, UnlockUser, RevokeForUserInProjects, vars
  <1>8. QED
    BY <1>0, <1>1, <1>2, <1>3, <1>4, <1>5, <1>6, <1>7 DEF Next

-----------------------------------------------------------------------------
(* The absolute cap.  ttl.Session never answers a negative lifetime, so a   *)
(* row written after its cap carries expires_at = now: past the cap or not, *)
(* expiry is bounded by the cap or already reached.                        *)

Bounded(k) == k.exp <= k.loginTs + Cap \/ k.exp <= now
CapInv == \A i \in Uids : session[i] # NoRow => Bounded(session[i])

LEMMA CapInvImplies == TypeInv /\ CapInv => NothingPastCap
  BY TimesAssumption DEF TypeInv, TypeOK, SessionRow, CapInv, Bounded, NothingPastCap, SessionLive

LEMMA CapInvFrame ==
  ASSUME CapInv, TypeInv, now' \in Nat, now <= now',
         \A i \in Uids : session'[i] = session[i] \/ session'[i] = NoRow
  PROVE  CapInv'
  BY TimesAssumption DEF CapInv, Bounded, TypeInv, TypeOK, SessionRow

LEMMA CapInvStep == TypeInv /\ CapInv /\ [Next]_vars => CapInv'
  <1> SUFFICES ASSUME TypeInv, CapInv, [Next]_vars PROVE CapInv'
    OBVIOUS
  <1> USE DEF rows
  <1>0. TypeOK /\ now \in Nat /\ now + 1 \in Nat /\ now <= now
    BY DEF TypeInv, TypeOK
  <1>1. ASSUME NEW r \in Reqs, SaveSession(r) PROVE CapInv'
    <2>1. copy[r] \in SessionRow /\ aim[r].uid \in Uids
      BY <1>1 DEF TypeInv, ReqOK, Authorizing, OnSession, SaveSession
    <2> DEFINE new == [copy[r] EXCEPT !.exp = SessionExp(copy[r].loginTs)]
    <2>2. Bounded(new)
      BY <1>0, <2>1, TimesAssumption DEF Bounded, SessionRow, SessionExp, Most, Least
    <2>3. session' = [session EXCEPT ![aim[r].uid] = new] /\ now' = now
      BY <1>1 DEF SaveSession
    <2> HIDE DEF new
    <2>4. \A i \in Uids : session'[i] = session[i] \/ session'[i] = new
      BY <1>0, <2>3 DEF TypeOK
    <2>5. QED
      BY <2>2, <2>3, <2>4 DEF CapInv, Bounded
  <1>2. ASSUME NEW r \in Reqs, SlideSession(r) PROVE CapInv'
    <2> DEFINE i == held[r].uid
               e == Least(now + Idle, session[i].loginTs + Cap)
    <2>1. i \in Uids /\ now' = now
      BY <1>2 DEF TypeInv, ReqOK, Holding, TokenRow, SlideSession
    <2>2. CASE SessionLive(i)
      <3>1. session' = [session EXCEPT ![i] = [session[i] EXCEPT !.exp = e]]
        BY <1>2, <2>2 DEF SlideSession, Slid
      <3>2. session[i] \in SessionRow
        BY <1>0, <2>1, <2>2 DEF TypeOK, SessionLive
      <3>3. e <= session[i].loginTs + Cap
        BY <1>0, <3>2, TimesAssumption DEF Least, SessionRow
      <3> HIDE DEF i, e
      <3>4. Bounded([session[i] EXCEPT !.exp = e])
        BY <3>2, <3>3 DEF Bounded, SessionRow
      <3>5. \A j \in Uids : \/ session'[j] = session[j]
                            \/ session'[j] = [session[i] EXCEPT !.exp = e]
        BY <1>0, <3>1 DEF TypeOK
      <3>6. QED
        BY <2>1, <3>4, <3>5 DEF CapInv, Bounded
    <2>3. CASE ~SessionLive(i)
      <3>1. session' = session
        BY <1>2, <2>3 DEF SlideSession, Slid
      <3>2. QED
        BY <1>0, <2>1, <3>1, CapInvFrame
    <2>4. QED
      BY <2>2, <2>3
  <1>3. CASE SessionsShrink /\ now' \in Nat /\ now <= now'
    BY <1>3, CapInvFrame DEF SessionsShrink
  <1>4. QED
    BY <1>1, <1>2, <1>3, SessionSteps

\* No session is ever alive beyond the absolute cap counted from its login.
THEOREM AbsoluteCap == Spec => []NothingPastCap
  <1>1. Init => CapInv
    BY DEF Init, CapInv
  <1>2. Spec => []CapInv
    BY <1>1, TypeInvariant, CapInvStep, PTL DEF Spec
  <1>3. QED
    BY <1>2, TypeInvariant, CapInvImplies, PTL

-----------------------------------------------------------------------------
(* One working token for each code.  A token that is used leaves one        *)
(* successor; the request that comes second finds the row consumed and      *)
(* takes the successor away, so that its own is the only one.  It cannot    *)
(* when the row is gone or the first one is still to issue: then the code   *)
(* is in overtaken.                                                         *)

Bearing == {"mint", "code", "consume", "issue"}
Bears(r) == pc[r] \in Bearing

(* The tokens there are, and those requests are about to save or replace.   *)
Carried == {token[t] : t \in {s \in Tokens : token[s] # NoRow}}
             \cup {held[r] : r \in {s \in Reqs : Bears(s)}}

(* What a session remembers is a grant of its user for that client, known   *)
(* before; a grant about to be saved is remembered by nobody else.          *)
GrantFits(g, u, c) == grant[g] # NoRow => grant[g].user = u /\ grant[g].client = c
Remembers(m) ==
  \A c \in Clients : m.grants[c] # NoRow =>
    m.grants[c] \in minted /\ GrantFits(m.grants[c], m.user, c)
Unremembered(r) ==
  /\ \A i \in Uids : session[i] # NoRow =>
       \A c \in Clients : session[i].grants[c] # held[r].grant
  /\ \A s \in Reqs \ {r} : pc[s] \in Authorizing =>
       \A c \in Clients : copy[s].grants[c] # held[r].grant
  /\ copy[r].user = held[r].user
  /\ \A c \in Clients : copy[r].grants[c] = held[r].grant => c = held[r].client
RememberInv ==
  /\ \A i \in Uids : session[i] # NoRow => Remembers(session[i])
  /\ \A r \in Reqs : pc[r] \in Authorizing => Remembers(copy[r])
  /\ \A r \in Reqs : pc[r] = "mint" => Unremembered(r)

(* No exchange of a token of the line went unnoticed.                       *)
Watched(k) == k.root \notin overtaken

Unused(t) == token[t] # NoRow /\ ~token[t].consumed

Identified == \A t \in Tokens : token[t] # NoRow => token[t].id = t
AllMinted  == \A k \in Carried : {k.id, k.root, k.grant} \subseteq minted
OneGrant   == \A k, l \in Carried : k.root = l.root => k.grant = l.grant
GrantsFit  == \A k \in Carried : GrantFits(k.grant, k.user, k.client)
Beginning(r) ==
  /\ held[r].root = held[r].id /\ token[held[r].id] = NoRow
  /\ \A t \in Tokens : token[t] # NoRow => token[t].root # held[r].root
  /\ \A s \in Reqs \ {r} : Bears(s) =>
       held[s].root # held[r].root /\ held[s].id # held[r].id
GrantUnborne(r) ==
  /\ \A t \in Tokens : token[t] # NoRow => token[t].grant # held[r].grant
  /\ \A s \in Reqs \ {r} : Bears(s) => held[s].grant # held[r].grant
RowToConsume(r) ==
  LET t == held[r].id IN token[t] # NoRow => token[t].root = held[r].root
OneEnd ==
  /\ \A s, t \in Tokens : Unused(s) /\ Unused(t) /\ s # t /\ Watched(token[s])
                            => token[s].root # token[t].root
  /\ \A t \in Tokens, r \in Reqs :
       Unused(t) /\ pc[r] = "issue" /\ Watched(held[r]) => token[t].root # held[r].root
  /\ \A q, r \in Reqs :
       pc[q] = "issue" /\ pc[r] = "issue" /\ q # r /\ Watched(held[q])
         => held[q].root # held[r].root
LineageInv ==
  /\ Identified /\ AllMinted /\ OneGrant /\ GrantsFit
  /\ \A r \in Reqs : pc[r] \in {"mint", "code"} => Beginning(r)
  /\ \A r \in Reqs : pc[r] = "mint" => GrantUnborne(r)
  /\ \A r \in Reqs : pc[r] = "consume" => RowToConsume(r)
  /\ OneEnd

LEMMA RemembersKept ==
  ASSUME NEW m \in SessionRow, Remembers(m), minted \subseteq minted',
         \A g \in Grants : grant'[g] = grant[g] \/ grant'[g] = NoRow,
         NEW n, n.user = m.user, n.grants = m.grants
  PROVE  Remembers(n)'
  <1>1. \A c \in Clients : m.grants[c] # NoRow => m.grants[c] \in Grants
    BY DEF SessionRow
  <1>2. QED
    BY <1>1 DEF Remembers, GrantFits

LEMMA RememberFrame ==
  ASSUME RememberInv, TypeInv, minted \subseteq minted',
         \A g \in Grants : grant'[g] = grant[g] \/ grant'[g] = NoRow,
         \A i \in Uids : session'[i] # NoRow =>
           /\ session[i] # NoRow /\ session'[i].user = session[i].user
           /\ session'[i].grants = session[i].grants,
         \A r \in Reqs : pc'[r] \in Authorizing =>
           pc[r] \in Authorizing /\ copy'[r] = copy[r],
         \A r \in Reqs : pc'[r] = "mint" => pc[r] = "mint" /\ held'[r] = held[r]
  PROVE  RememberInv'
  <1>1. ASSUME NEW i \in Uids, session'[i] # NoRow PROVE Remembers(session[i])'
    <2>1. session[i] \in SessionRow /\ Remembers(session[i])
      BY <1>1 DEF TypeInv, TypeOK, RememberInv
    <2>2. QED
      BY <1>1, <2>1, RemembersKept
  <1>2. ASSUME NEW r \in Reqs, pc'[r] \in Authorizing PROVE Remembers(copy[r])'
    <2>1. copy[r] \in SessionRow /\ Remembers(copy[r]) /\ copy'[r] = copy[r]
      BY <1>2 DEF TypeInv, ReqOK, RememberInv
    <2>2. QED
      BY <2>1, RemembersKept
  <1>3. ASSUME NEW r \in Reqs, pc'[r] = "mint" PROVE Unremembered(r)'
    <2>1. pc[r] = "mint" /\ held'[r] = held[r] /\ copy'[r] = copy[r] /\ Unremembered(r)
      BY <1>3 DEF RememberInv, Authorizing
    <2>2. QED
      BY <2>1 DEF Unremembered
  <1>4. QED
    BY <1>1, <1>2, <1>3 DEF RememberInv

(* A request that starts with a session as somebody remembers it, or with   *)
(* one that remembers nothing.                                              *)
LEMMA RememberStart ==
  ASSUME RememberInv, TypeInv, UNCHANGED <<grant, session, held>>, minted \subseteq minted',
         NEW r \in Reqs, pc[r] = "idle", pc' = [pc EXCEPT ![r] = "gate"],
         NEW m \in SessionRow, copy' = [copy EXCEPT ![r] = m],
         \/ \A c \in Clients : m.grants[c] = NoRow
         \/ \E i \in Uids : session[i] = m /\ session[i] # NoRow
  PROVE  RememberInv'
  <1>0. /\ DOMAIN copy = Reqs /\ pc \in [Reqs -> Steps]
        /\ \A s \in Reqs : pc[s] = "mint" => held[s].grant \in Grants
        /\ NoRow \notin Grants
    BY IdsAssumption DEF TypeInv, TypeOK, ReqOK, Holding, TokenRow
  <1>1. Remembers(m)
    BY <1>0 DEF RememberInv, Remembers
  <1>2. \A s \in Reqs : s # r => pc'[s] = pc[s] /\ copy'[s] = copy[s]
    BY <1>0
  <1>3. pc'[r] = "gate" /\ copy'[r] = m
    BY <1>0
  <1>4. ASSUME NEW i \in Uids, session'[i] # NoRow PROVE Remembers(session[i])'
    <2>1. session[i] \in SessionRow /\ Remembers(session[i])
      BY <1>4 DEF TypeInv, TypeOK, RememberInv
    <2>2. QED
      BY <2>1, RemembersKept
  <1>5. ASSUME NEW s \in Reqs, pc'[s] \in Authorizing PROVE Remembers(copy[s])'
    <2>1. CASE s = r
      BY <1>1, <1>3, <2>1, RemembersKept
    <2>2. CASE s # r
      <3>1. copy[s] \in SessionRow /\ Remembers(copy[s]) /\ copy'[s] = copy[s]
        BY <1>2, <1>5, <2>2 DEF TypeInv, ReqOK, RememberInv
      <3>2. QED
        BY <3>1, RemembersKept
    <2>3. QED
      BY <2>1, <2>2
  <1>6. ASSUME NEW s \in Reqs, pc'[s] = "mint" PROVE Unremembered(s)'
    <2>1. s # r /\ pc[s] = "mint" /\ Unremembered(s) /\ copy'[s] = copy[s]
      BY <1>2, <1>3, <1>6 DEF RememberInv
    <2>2. \A c \in Clients : m.grants[c] # held[s].grant
      BY <1>0, <2>1 DEF Unremembered
    <2>3. QED
      BY <1>2, <1>3, <2>1, <2>2 DEF Unremembered
  <1>7. QED
    BY <1>4, <1>5, <1>6 DEF RememberInv

LEMMA RememberLoad ==
  ASSUME RememberInv, TypeInv, KillInv, NEW r \in Reqs,
         NEW c \in Clients, NEW g \in Grants, NEW t \in Tokens, LoadGrant(r, c, g, t)
  PROVE  RememberInv'
  <1>a. /\ copy' = [copy EXCEPT ![r] = [copy[r] EXCEPT !.grants[c] = g]]
        /\ held' = [held EXCEPT ![r] = NewCode(r, c, g, t)]
        /\ pc[r] = "gate" /\ UNCHANGED <<grant, session>> /\ minted \subseteq minted'
    BY DEF LoadGrant, rows
  <1>b. /\ pc \in [Reqs -> Steps] /\ DOMAIN held = Reqs /\ DOMAIN copy = Reqs
        /\ copy[r] \in SessionRow /\ Remembers(copy[r])
    BY <1>a DEF TypeInv, TypeOK, ReqOK, Authorizing, RememberInv
  <1>c. /\ \A s \in Reqs : pc[s] = "mint" => held[s].grant \in Grants /\ held[s].grant \in minted
        /\ NoRow \notin Grants
    BY IdsAssumption DEF TypeInv, ReqOK, Holding, TokenRow, KillInv
  <1>d. PICK new \in SessionRow : new = [copy[r] EXCEPT !.grants[c] = g]
    BY <1>b DEF SessionRow
  <1>0. /\ pc[r] = "gate" /\ UNCHANGED <<grant, session>> /\ minted \subseteq minted'
        /\ copy[r] \in SessionRow /\ Remembers(copy[r])
        /\ pc \in [Reqs -> Steps] /\ DOMAIN held = Reqs /\ DOMAIN copy = Reqs
        /\ \A s \in Reqs : pc[s] = "mint" => held[s].grant \in Grants /\ held[s].grant \in minted
        /\ NoRow \notin Grants
    BY <1>a, <1>b, <1>c
  <1>1. /\ new.user = copy[r].user
        /\ \A d \in Clients : new.grants[d] = IF d = c THEN g ELSE copy[r].grants[d]
        /\ NewCode(r, c, g, t).grant = g /\ NewCode(r, c, g, t).client = c
        /\ NewCode(r, c, g, t).user = copy[r].user
    BY <1>b, <1>d DEF SessionRow, NewCode
  <1>2. /\ copy'[r] = new /\ held'[r] = NewCode(r, c, g, t)
        /\ \A s \in Reqs : s # r => copy'[s] = copy[s] /\ held'[s] = held[s]
    BY <1>a, <1>b, <1>d
  <1>3. \/ /\ pc' = [pc EXCEPT ![r] = "code"] /\ g = copy[r].grants[c]
           /\ g \in minted
        \/ /\ pc' = [pc EXCEPT ![r] = "mint"] /\ g \notin minted /\ g \in minted'
           /\ grant[g] = NoRow
    BY <1>0 DEF LoadGrant, Goto, Fresh, Remembered, GrantLive, KillInv
  <1>4. ASSUME NEW i \in Uids, session'[i] # NoRow PROVE Remembers(session[i])'
    <2>1. session[i] \in SessionRow /\ Remembers(session[i])
      BY <1>0, <1>4 DEF TypeInv, TypeOK, RememberInv
    <2>2. QED
      BY <1>0, <2>1, RemembersKept
  <1>5. ASSUME NEW s \in Reqs, pc'[s] \in Authorizing PROVE Remembers(copy[s])'
    <2>1. CASE s = r
      <3>1. Remembers(new)'
        BY <1>0, <1>1, <1>3 DEF Remembers, GrantFits
      <3>2. QED
        BY <1>2, <2>1, <3>1
    <2>2. CASE s # r
      <3>1. pc'[s] = pc[s]
        BY <1>0, <1>3, <2>2
      <3>2. copy[s] \in SessionRow /\ Remembers(copy[s]) /\ copy'[s] = copy[s]
        BY <1>2, <1>5, <2>2, <3>1 DEF TypeInv, ReqOK, RememberInv
      <3>3. QED
        BY <1>0, <3>2, RemembersKept
    <2>3. QED
      BY <2>1, <2>2
  <1>6. ASSUME NEW s \in Reqs, pc'[s] = "mint" PROVE Unremembered(s)'
    <2>1. \A q \in Reqs : q # r => pc'[q] = pc[q]
      BY <1>0, <1>3
    <2>2. CASE s = r
      <3>1. g \notin minted /\ g \in Grants
        BY <1>0, <1>3, <1>6, <2>2
      <3>2. \A i \in Uids : session[i] # NoRow =>
              \A d \in Clients : session[i].grants[d] # g
        BY <1>0, <3>1 DEF RememberInv, Remembers
      <3>3. \A q \in Reqs : pc[q] \in Authorizing =>
              \A d \in Clients : copy[q].grants[d] # g
        BY <1>0, <3>1 DEF RememberInv, Remembers
      <3>4. \A d \in Clients : new.grants[d] = g => d = c
        BY <1>0, <1>1, <3>3 DEF Authorizing
      <3>5. QED
        BY <1>0, <1>1, <1>2, <2>1, <2>2, <3>2, <3>3, <3>4 DEF Unremembered
    <2>3. CASE s # r
      <3>1. pc[s] = "mint" /\ Unremembered(s) /\ held'[s] = held[s] /\ copy'[s] = copy[s]
        BY <1>2, <1>6, <2>1, <2>3 DEF RememberInv
      <3>2. \A d \in Clients : copy[r].grants[d] # held[s].grant
        BY <1>0, <2>3, <3>1 DEF Unremembered, Authorizing
      <3>3. \A d \in Clients : new.grants[d] # held[s].grant
        BY <1>0, <1>1, <1>3, <3>1, <3>2
      <3>4. QED
        BY <1>0, <1>2, <2>1, <2>3, <3>1, <3>3 DEF Unremembered, Authorizing
    <2>4. QED
      BY <2>2, <2>3
  <1>7. QED
    BY <1>4, <1>5, <1>6 DEF RememberInv

LEMMA RememberMint ==
  ASSUME RememberInv, TypeInv, KillInv, NEW r \in Reqs, MintGrant(r)
  PROVE  RememberInv'
  <1> DEFINE g == held[r].grant
             row == [user |-> held[r].user, client |-> held[r].client, exp |-> now + Cap]
  <1>0. /\ pc[r] = "mint" /\ UNCHANGED <<session, held, copy, minted>>
        /\ pc' = [pc EXCEPT ![r] = "code"]
        /\ grant' = [grant EXCEPT ![g] = row]
        /\ row.user = held[r].user /\ row.client = held[r].client
        /\ g \in Grants /\ NoRow \notin Grants
        /\ pc \in [Reqs -> Steps] /\ DOMAIN grant = Grants
    BY IdsAssumption DEF MintGrant, Goto, TypeInv, TypeOK, ReqOK, Holding, TokenRow
  <1> HIDE DEF g, row
  <1>1. Unremembered(r)
    BY <1>0 DEF RememberInv
  <1>2. \A s \in Reqs : /\ s # r => pc'[s] = pc[s]
                        /\ pc'[s] \in Authorizing => pc[s] \in Authorizing
    BY <1>0 DEF Authorizing
  <1>3. \A h \in Grants : h # g => grant'[h] = grant[h]
    BY <1>0
  <1>4. ASSUME NEW i \in Uids, session'[i] # NoRow PROVE Remembers(session[i])'
    <2>1. session[i] \in SessionRow /\ Remembers(session[i])
          /\ \A c \in Clients : session[i].grants[c] # g
      BY <1>0, <1>1, <1>4 DEF TypeInv, TypeOK, RememberInv, Unremembered, g
    <2>2. \A c \in Clients : session[i].grants[c] # NoRow => session[i].grants[c] \in Grants
      BY <2>1 DEF SessionRow
    <2>3. QED
      BY <1>0, <1>3, <2>1, <2>2 DEF Remembers, GrantFits
  <1>5. ASSUME NEW s \in Reqs, pc'[s] \in Authorizing PROVE Remembers(copy[s])'
    <2>1. copy[s] \in SessionRow /\ Remembers(copy[s])
      BY <1>2, <1>5 DEF TypeInv, ReqOK, RememberInv
    <2>2. \A c \in Clients : copy[s].grants[c] # NoRow => copy[s].grants[c] \in Grants
      BY <2>1 DEF SessionRow
    <2>3. CASE s = r
      <3>1. copy[r].user = row.user
            /\ \A c \in Clients : copy[r].grants[c] = g => c = row.client
        BY <1>0, <1>1 DEF Unremembered, g
      <3>2. grant'[g] = row
        BY <1>0
      <3>3. QED
        BY <1>0, <1>3, <2>1, <2>2, <2>3, <3>1, <3>2 DEF Remembers, GrantFits
    <2>4. CASE s # r
      <3>1. \A c \in Clients : copy[s].grants[c] # g
        BY <1>1, <1>2, <1>5, <2>4 DEF Unremembered, g
      <3>2. QED
        BY <1>0, <1>3, <2>1, <2>2, <3>1 DEF Remembers, GrantFits
    <2>5. QED
      BY <2>3, <2>4
  <1>6. ASSUME NEW s \in Reqs, pc'[s] = "mint" PROVE Unremembered(s)'
    <2>1. s # r /\ pc[s] = "mint" /\ Unremembered(s)
      BY <1>0, <1>2, <1>6 DEF RememberInv
    <2>2. QED
      BY <1>0, <1>2, <2>1 DEF Unremembered
  <1>7. QED
    BY <1>4, <1>5, <1>6 DEF RememberInv

LEMMA RememberSave ==
  ASSUME RememberInv, TypeInv, NEW r \in Reqs, SaveSession(r)
  PROVE  RememberInv'
  <1> DEFINE new == [copy[r] EXCEPT !.exp = SessionExp(copy[r].loginTs)]
  <1>0. /\ pc[r] = "session" /\ UNCHANGED <<grant, held, copy, minted>>
        /\ pc' = [pc EXCEPT ![r] = "mirror"]
        /\ session' = [session EXCEPT ![aim[r].uid] = new]
        /\ copy[r] \in SessionRow /\ Remembers(copy[r])
        /\ pc \in [Reqs -> Steps] /\ DOMAIN session = Uids
    BY DEF SaveSession, Goto, TypeInv, TypeOK, ReqOK, Authorizing, RememberInv
  <1>1. new.user = copy[r].user /\ new.grants = copy[r].grants
    BY <1>0 DEF SessionRow
  <1> HIDE DEF new
  <1>2. \A s \in Reqs : /\ s # r => pc'[s] = pc[s]
                        /\ pc'[s] \in Authorizing => pc[s] \in Authorizing
                        /\ pc'[s] = "mint" => s # r /\ pc[s] = "mint"
    BY <1>0 DEF Authorizing
  <1>3. ASSUME NEW i \in Uids, session'[i] # NoRow PROVE Remembers(session[i])'
    <2>1. CASE session'[i] = new
      BY <1>0, <1>1, <2>1, RemembersKept
    <2>2. CASE session'[i] = session[i]
      <3>1. session[i] \in SessionRow /\ Remembers(session[i])
        BY <1>3, <2>2 DEF TypeInv, TypeOK, RememberInv
      <3>2. QED
        BY <1>0, <2>2, <3>1, RemembersKept
    <2>3. QED
      BY <1>0, <2>1, <2>2
  <1>4. ASSUME NEW s \in Reqs, pc'[s] \in Authorizing PROVE Remembers(copy[s])'
    <2>1. copy[s] \in SessionRow /\ Remembers(copy[s])
      BY <1>2, <1>4 DEF TypeInv, ReqOK, RememberInv
    <2>2. QED
      BY <1>0, <2>1, RemembersKept
  <1>5. ASSUME NEW s \in Reqs, pc'[s] = "mint" PROVE Unremembered(s)'
    <2>1. s # r /\ pc[s] = "mint" /\ Unremembered(s)
      BY <1>2, <1>5 DEF RememberInv
    <2>2. \A c \in Clients : new.grants[c] # held[s].grant
      BY <1>0, <1>1, <2>1 DEF Unremembered, Authorizing
    <2>3. \A i \in Uids : session'[i] = new \/ session'[i] = session[i]
      BY <1>0
    <2>4. QED
      BY <1>0, <1>2, <2>1, <2>2, <2>3 DEF Unremembered
  <1>6. QED
    BY <1>3, <1>4, <1>5 DEF RememberInv

LEMMA CarriedAreRows == TypeInv => Carried \subseteq TokenRow
  BY DEF TypeInv, TypeOK, ReqOK, Holding, Carried, Bears, Bearing

(* Rows are deleted, requests end, or one goes on to issue: it alone has the *)
(* line, or nobody watches it.                                              *)
Alone(r) ==
  /\ \A t \in Tokens : token[t] # NoRow => token[t].root # held[r].root
  /\ \A q \in Reqs \ {r} : pc[q] = "issue" => held[q].root # held[r].root

LEMMA LineageFrame ==
  ASSUME LineageInv, TypeInv, minted \subseteq minted', overtaken \subseteq overtaken',
         \A g \in Grants : grant'[g] = grant[g] \/ grant'[g] = NoRow,
         \A t \in Tokens : token'[t] = token[t] \/ token'[t] = NoRow,
         \A r \in Reqs : pc'[r] \in Bearing =>
           /\ held'[r] = held[r]
           /\ \/ pc'[r] = pc[r]
              \/ /\ pc[r] = "consume" /\ pc'[r] = "issue"
                 /\ Alone(r)' \/ held[r].root \in overtaken'
  PROVE  LineageInv'
  <1>1. Carried' \subseteq Carried
    BY DEF Carried, Bears, Bearing
  <1>2. Carried \subseteq TokenRow
    BY CarriedAreRows
  <1>3. Identified' /\ AllMinted' /\ OneGrant'
    BY <1>1 DEF LineageInv, Identified, AllMinted, OneGrant
  <1>4. GrantsFit'
    BY <1>1, <1>2 DEF LineageInv, GrantsFit, GrantFits, TokenRow
  <1>5. \A r \in Reqs : pc'[r] \in {"mint", "code"} => pc'[r] = pc[r] /\ held'[r] = held[r]
    BY DEF Bearing
  <1>6. \A r \in Reqs : Bears(r)' => Bears(r) /\ held'[r] = held[r]
    BY DEF Bears, Bearing
  <1>7. ASSUME NEW r \in Reqs, pc'[r] \in {"mint", "code"} PROVE Beginning(r)'
    <2>1. Beginning(r) /\ held'[r] = held[r] /\ held[r].id \in Tokens
      BY <1>5, <1>7 DEF LineageInv, TypeInv, ReqOK, Holding, TokenRow
    <2>2. QED
      BY <1>6, <2>1 DEF Beginning
  <1>8. ASSUME NEW r \in Reqs, pc'[r] = "mint" PROVE GrantUnborne(r)'
    <2>1. GrantUnborne(r) /\ held'[r] = held[r]
      BY <1>5, <1>8 DEF LineageInv
    <2>2. QED
      BY <1>6, <2>1 DEF GrantUnborne
  <1>9. ASSUME NEW r \in Reqs, pc'[r] = "consume" PROVE RowToConsume(r)'
    <2>1. RowToConsume(r) /\ held'[r] = held[r] /\ held[r].id \in Tokens
      BY <1>9 DEF LineageInv, Bearing, TypeInv, ReqOK, Holding, TokenRow
    <2>2. QED
      BY <2>1 DEF RowToConsume
  <1>10. OneEnd'
    <2>1. \A t \in Tokens : Unused(t)' => Unused(t) /\ token'[t] = token[t]
      BY DEF Unused
    <2>2. ASSUME NEW r \in Reqs, pc'[r] = "issue", Watched(held[r])'
          PROVE  /\ held'[r] = held[r]
                 /\ pc[r] = "issue" \/ Alone(r)'
      BY <2>2 DEF Bearing, Watched
    <2>3. \A s, t \in Tokens : (Unused(s) /\ Unused(t) /\ s # t /\ Watched(token[s])
                                 => token[s].root # token[t].root)'
      BY <2>1 DEF LineageInv, OneEnd, Watched
    <2>4. ASSUME NEW t \in Tokens, NEW r \in Reqs, Unused(t)', pc'[r] = "issue",
                 Watched(held[r])'
          PROVE  token'[t].root # held'[r].root
      <3>1. CASE pc[r] = "issue"
        BY <2>1, <2>2, <2>4, <3>1 DEF LineageInv, OneEnd, Watched
      <3>2. CASE Alone(r)'
        BY <2>4, <3>2 DEF Alone, Unused
      <3>3. QED
        BY <2>2, <2>4, <3>1, <3>2
    <2>5. ASSUME NEW q \in Reqs, NEW r \in Reqs, pc'[q] = "issue", pc'[r] = "issue", q # r,
                 Watched(held[q])'
          PROVE  held'[q].root # held'[r].root
      <3> SUFFICES ASSUME held'[q].root = held'[r].root PROVE FALSE
        OBVIOUS
      <3>1. Watched(held[r])'
        BY <2>5 DEF Watched
      <3>2. ~Alone(q)' /\ ~Alone(r)'
        BY <2>5 DEF Alone
      <3>3. /\ pc[q] = "issue" /\ held'[q] = held[q]
            /\ pc[r] = "issue" /\ held'[r] = held[r]
        BY <2>2, <2>5, <3>1, <3>2
      <3>4. QED
        BY <2>5, <3>3 DEF LineageInv, OneEnd, Watched
    <2>6. QED
      BY <2>3, <2>4, <2>5 DEF OneEnd
  <1>11. QED
    BY <1>3, <1>4, <1>7, <1>8, <1>9, <1>10 DEF LineageInv

(* The row a request is about to consume is of its own line.                *)
LEMMA ConsumedIsCarried ==
  ASSUME LineageInv, TypeInv, NEW r \in Reqs, pc[r] = "consume"
  PROVE  /\ held[r].id \in Tokens /\ held[r] \in TokenRow
         /\ token[held[r].id] # NoRow =>
              /\ token[held[r].id] \in Carried /\ token[held[r].id] \in TokenRow
              /\ token[held[r].id].root = held[r].root
              /\ token[held[r].id].grant = held[r].grant
  <1>1. held[r] \in Carried /\ held[r] \in TokenRow /\ held[r].id \in Tokens
    BY CarriedAreRows DEF Carried, Bears, Bearing, TokenRow
  <1>2. token[held[r].id] # NoRow =>
          token[held[r].id] \in Carried /\ token[held[r].id].root = held[r].root
    BY <1>1 DEF Carried, LineageInv, RowToConsume
  <1>3. QED
    BY <1>1, <1>2, CarriedAreRows DEF LineageInv, OneGrant

(* A step that deletes rows and lets no request take up a token.            *)
LEMMA LineageDelete ==
  ASSUME LineageInv, TypeInv, minted' = minted, overtaken' = overtaken,
         \A g \in Grants : grant'[g] = grant[g] \/ grant'[g] = NoRow,
         \A t \in Tokens : token'[t] = token[t] \/ token'[t] = NoRow,
         \A r \in Reqs : pc'[r] \in Bearing => pc'[r] = pc[r] /\ held'[r] = held[r]
  PROVE  LineageInv'
  BY LineageFrame

LEMMA LineageLoad ==
  ASSUME LineageInv, TypeInv, KillInv, RememberInv, NEW r \in Reqs,
         NEW c \in Clients, NEW g \in Grants, NEW t \in Tokens, LoadGrant(r, c, g, t)
  PROVE  LineageInv'
  <1>a. /\ held' = [held EXCEPT ![r] = NewCode(r, c, g, t)]
        /\ pc[r] = "gate" /\ UNCHANGED <<grant, token, overtaken>>
        /\ t \notin minted
        /\ \/ /\ pc' = [pc EXCEPT ![r] = "code"] /\ minted' = minted \cup {t}
              /\ g = copy[r].grants[c] /\ grant[g] # NoRow
           \/ /\ pc' = [pc EXCEPT ![r] = "mint"] /\ minted' = minted \cup {g, t}
              /\ g \notin minted
    BY DEF LoadGrant, rows, Fresh, Goto, Remembered, GrantLive
  <1>b. /\ pc \in [Reqs -> Steps] /\ DOMAIN held = Reqs
        /\ copy[r] \in SessionRow /\ Remembers(copy[r]) /\ NoRow \notin Grants
    BY <1>a, IdsAssumption DEF TypeInv, TypeOK, ReqOK, Authorizing, RememberInv
  <1>c. copy[r].user \in Users /\ aim[r].uid \in Uids /\ now \in Nat
    BY <1>a, <1>b DEF TypeInv, TypeOK, ReqOK, Authorizing, OnSession, SessionRow
  <1>d. PICK k \in TokenRow : k = NewCode(r, c, g, t)
    BY <1>c DEF NewCode, TokenRow
  <1>1. /\ k.id = t /\ k.root = t /\ k.grant = g /\ k.user = copy[r].user /\ k.client = c
        /\ held'[r] = k /\ pc'[r] \in {"mint", "code"}
        /\ \A s \in Reqs : s # r => pc'[s] = pc[s] /\ held'[s] = held[s]
    BY <1>a, <1>b, <1>d DEF NewCode
  <1>2. /\ t \notin minted /\ minted \subseteq minted' /\ t \in minted' /\ g \in minted'
        /\ UNCHANGED <<grant, token, overtaken>>
        /\ g \notin minted \/ grant[g] # NoRow
        /\ pc'[r] = "mint" => g \notin minted
    BY <1>a, <1>b DEF KillInv
  <1>3. Carried' \subseteq Carried \cup {k}
    BY <1>1, <1>2 DEF Carried, Bears, Bearing
  <1>4. \A l \in Carried : {l.id, l.root, l.grant} \subseteq minted
    BY DEF LineageInv, AllMinted
  <1>5. \A s \in Reqs : Bears(s) => held[s] \in Carried
    BY DEF Carried
  <1>6. \A s \in Tokens : token[s] # NoRow => token[s] \in Carried
    BY DEF Carried
  <1>7. Identified' /\ AllMinted' /\ OneGrant'
    BY <1>1, <1>2, <1>3, <1>4 DEF LineageInv, Identified, AllMinted, OneGrant
  <1>8. GrantFits(g, copy[r].user, c)
    BY <1>a, <1>b DEF Remembers, GrantFits, KillInv
  <1>9. GrantsFit'
    BY <1>1, <1>2, <1>3, <1>8 DEF LineageInv, GrantsFit, GrantFits
  <1>10. \A s \in Reqs : s # r => (Bears(s)' <=> Bears(s))
    BY <1>1 DEF Bears
  <1>11. ASSUME NEW s \in Reqs, pc'[s] \in {"mint", "code"} PROVE Beginning(s)'
    <2>1. CASE s = r
      <3>1. token[t] = NoRow
        BY <1>2, <1>4, <1>6 DEF LineageInv, Identified
      <3>2. QED
        BY <1>1, <1>2, <1>4, <1>5, <1>6, <1>10, <2>1, <3>1 DEF Beginning
    <2>2. CASE s # r
      <3>1. Beginning(s) /\ held[s] \in Carried /\ held'[s] = held[s]
        BY <1>1, <1>5, <1>11, <2>2 DEF LineageInv, Bears, Bearing
      <3>2. held[s].id # t /\ held[s].root # t
        BY <1>2, <1>4, <3>1
      <3>3. QED
        BY <1>1, <1>2, <1>10, <3>1, <3>2 DEF Beginning
    <2>3. QED
      BY <2>1, <2>2
  <1>12. ASSUME NEW s \in Reqs, pc'[s] = "mint" PROVE GrantUnborne(s)'
    <2>1. CASE s = r
      BY <1>1, <1>2, <1>4, <1>5, <1>6, <1>10, <1>12, <2>1 DEF GrantUnborne
    <2>2. CASE s # r
      <3>1. /\ GrantUnborne(s) /\ held'[s] = held[s] /\ held[s] \in Carried
            /\ grant[held[s].grant] = NoRow
        BY <1>1, <1>5, <1>12, <2>2 DEF LineageInv, KillInv, Bears, Bearing
      <3>2. held[s].grant # g
        BY <1>2, <1>4, <3>1
      <3>3. QED
        BY <1>1, <1>2, <1>10, <3>1, <3>2 DEF GrantUnborne
    <2>3. QED
      BY <2>1, <2>2
  <1>13. ASSUME NEW s \in Reqs, pc'[s] = "consume" PROVE RowToConsume(s)'
    <2>1. s # r /\ RowToConsume(s) /\ held'[s] = held[s]
      BY <1>1, <1>13 DEF LineageInv
    <2>2. QED
      BY <1>2, <2>1 DEF RowToConsume
  <1>14. OneEnd'
    <2>1. \A s \in Reqs : pc'[s] = "issue" => pc[s] = "issue" /\ held'[s] = held[s]
      BY <1>1
    <2>2. QED
      BY <1>2, <2>1 DEF LineageInv, OneEnd, Unused, Watched
  <1>15. QED
    BY <1>7, <1>9, <1>11, <1>12, <1>13, <1>14 DEF LineageInv

LEMMA LineageMint ==
  ASSUME LineageInv, TypeInv, KillInv, NEW r \in Reqs, MintGrant(r)
  PROVE  LineageInv'
  <1> DEFINE g == held[r].grant
             row == [user |-> held[r].user, client |-> held[r].client, exp |-> now + Cap]
  <1>0. /\ pc[r] = "mint" /\ UNCHANGED <<token, held, minted, overtaken>>
        /\ pc' = [pc EXCEPT ![r] = "code"]
        /\ grant' = [grant EXCEPT ![g] = row]
        /\ row.user = held[r].user /\ row.client = held[r].client
        /\ g \in Grants
        /\ pc \in [Reqs -> Steps] /\ DOMAIN grant = Grants
    BY DEF MintGrant, Goto, TypeInv, TypeOK, ReqOK, Holding, TokenRow
  <1> HIDE DEF row
  <1>1. /\ pc'[r] = "code" /\ \A s \in Reqs : s # r => pc'[s] = pc[s]
        /\ grant'[g] = row /\ \A h \in Grants : h # g => grant'[h] = grant[h]
    BY <1>0
  <1>2. GrantUnborne(r) /\ Beginning(r)
    BY <1>0 DEF LineageInv
  <1> HIDE DEF g
  <1>3. Carried' = Carried /\ Carried \subseteq TokenRow
    BY <1>0, <1>1, CarriedAreRows DEF Carried, Bears, Bearing
  <1>4. \A k \in Carried : k = held[r] \/ k.grant # g
    BY <1>2 DEF Carried, GrantUnborne, g
  <1>5. Identified' /\ AllMinted' /\ OneGrant'
    BY <1>0, <1>3 DEF LineageInv, Identified, AllMinted, OneGrant
  <1>6. GrantsFit'
    <2>1. ASSUME NEW k \in Carried PROVE GrantFits(k.grant, k.user, k.client)'
      <3>1. CASE k = held[r]
        BY <1>0, <1>1, <3>1 DEF GrantFits, g
      <3>2. CASE k # held[r]
        <4>1. k.grant \in Grants /\ k.grant # g
          BY <1>3, <1>4, <3>2 DEF TokenRow
        <4>2. QED
          BY <1>1, <4>1 DEF LineageInv, GrantsFit, GrantFits
      <3>3. QED
        BY <3>1, <3>2
    <2>2. QED
      BY <1>3, <2>1 DEF GrantsFit
  <1>7. \A s \in Reqs : Bears(s)' <=> Bears(s)
    BY <1>0, <1>1 DEF Bears, Bearing
  <1>8. ASSUME NEW s \in Reqs, pc'[s] \in {"mint", "code"} PROVE Beginning(s)'
    <2>1. Beginning(s)
      BY <1>0, <1>1, <1>8 DEF LineageInv
    <2>2. QED
      BY <1>0, <1>7, <2>1 DEF Beginning
  <1>9. ASSUME NEW s \in Reqs, pc'[s] = "mint" PROVE GrantUnborne(s)'
    <2>1. GrantUnborne(s)
      BY <1>0, <1>1, <1>9 DEF LineageInv
    <2>2. QED
      BY <1>0, <1>7, <2>1 DEF GrantUnborne
  <1>10. ASSUME NEW s \in Reqs, pc'[s] = "consume" PROVE RowToConsume(s)'
    <2>1. s # r /\ RowToConsume(s)
      BY <1>1, <1>10 DEF LineageInv
    <2>2. QED
      BY <1>0, <2>1 DEF RowToConsume
  <1>11. OneEnd'
    <2>1. \A s \in Reqs : pc'[s] = "issue" => pc[s] = "issue"
      BY <1>1
    <2>2. QED
      BY <1>0, <2>1 DEF LineageInv, OneEnd, Unused, Watched
  <1>12. QED
    BY <1>5, <1>6, <1>8, <1>9, <1>10, <1>11 DEF LineageInv

(* A row is written under id t: it carries on the line of a token there was. *)
LEMMA CarriesOn ==
  ASSUME LineageInv, NEW k, NEW t \in Tokens, NEW l \in Carried,
         k.id = t, k.root = l.root, k.grant = l.grant, k.user = l.user, k.client = l.client,
         t \in minted', minted \subseteq minted', grant' = grant,
         DOMAIN token = Tokens, token' = [token EXCEPT ![t] = k],
         Carried' \subseteq Carried \cup {k}
  PROVE  Identified' /\ AllMinted' /\ OneGrant' /\ GrantsFit'
  <1>1. Identified'
    BY DEF LineageInv, Identified
  <1>2. AllMinted'
    BY DEF LineageInv, AllMinted
  <1>3. OneGrant'
    BY DEF LineageInv, OneGrant
  <1>4. GrantsFit'
    BY DEF LineageInv, GrantsFit, GrantFits
  <1>5. QED
    BY <1>1, <1>2, <1>3, <1>4

LEMMA LineageSave ==
  ASSUME LineageInv, TypeInv, NEW r \in Reqs, SaveCode(r)
  PROVE  LineageInv'
  <1>a. /\ pc[r] = "code" /\ UNCHANGED <<grant, held, minted, overtaken>>
        /\ pc' = [pc EXCEPT ![r] = "session"]
        /\ token' = [token EXCEPT ![held[r].id] = [held[r] EXCEPT !.exp = now + CodeTtl]]
        /\ held[r] \in TokenRow /\ held[r] \in Carried
        /\ pc \in [Reqs -> Steps] /\ DOMAIN token = Tokens
    BY DEF SaveCode, Goto, TypeInv, TypeOK, ReqOK, Holding, Carried, Bears, Bearing
  <1> DEFINE t == held[r].id
  <1>b. PICK k : k = [held[r] EXCEPT !.exp = now + CodeTtl]
    OBVIOUS
  <1>1. /\ k.id = t /\ k.root = held[r].root /\ k.grant = held[r].grant
        /\ k.user = held[r].user /\ k.client = held[r].client
        /\ t \in Tokens /\ t \in minted
    BY <1>a, <1>b DEF TokenRow, LineageInv, AllMinted
  <1> HIDE DEF t
  <1>2. /\ token' = [token EXCEPT ![t] = k] /\ token'[t] = k
        /\ \A s \in Tokens : s # t => token'[s] = token[s]
    BY <1>a, <1>b, <1>1 DEF t
  <1>3. \A s \in Reqs : pc'[s] \in Bearing => s # r /\ pc'[s] = pc[s]
    BY <1>a DEF Bearing
  <1>4. Carried' \subseteq Carried \cup {k}
    BY <1>a, <1>2, <1>3 DEF Carried, Bears
  <1>5. Identified' /\ AllMinted' /\ OneGrant' /\ GrantsFit'
    BY <1>a, <1>1, <1>2, <1>4, CarriesOn
  <1>6. Beginning(r)
    BY <1>a DEF LineageInv
  <1>7. \A s \in Reqs : pc'[s] \in Bearing => held[s].root # k.root /\ held[s].id # t
    BY <1>1, <1>3, <1>6 DEF Beginning, Bears, t
  <1>8. ASSUME NEW s \in Reqs, pc'[s] \in {"mint", "code"} PROVE Beginning(s)'
    <2>1. pc'[s] \in Bearing /\ Beginning(s) /\ held[s].id \in Tokens
      BY <1>3, <1>8 DEF Bearing, LineageInv, TypeInv, ReqOK, Holding, TokenRow
    <2>2. \A q \in Reqs : Bears(q)' => Bears(q)
      BY <1>3 DEF Bears
    <2>3. /\ held[s].id # t /\ held[s].root # k.root
          /\ \A q \in Tokens : token'[q] # NoRow => q = t \/ token[q] # NoRow
      BY <1>2, <1>7, <2>1
    <2>4. QED
      BY <1>a, <1>2, <2>1, <2>2, <2>3 DEF Beginning
  <1>9. ASSUME NEW s \in Reqs, pc'[s] = "mint" PROVE GrantUnborne(s)'
    <2>1. s # r /\ pc'[s] \in Bearing /\ GrantUnborne(s)
      BY <1>3, <1>9 DEF Bearing, LineageInv
    <2>2. k.grant # held[s].grant
      BY <1>a, <1>1, <2>1 DEF GrantUnborne, Bears, Bearing
    <2>3. QED
      BY <1>a, <1>2, <1>3, <2>1, <2>2 DEF GrantUnborne, Bears
  <1>10. ASSUME NEW s \in Reqs, pc'[s] = "consume" PROVE RowToConsume(s)'
    <2>1. RowToConsume(s) /\ held[s].id # t /\ held[s].id \in Tokens
      BY <1>3, <1>7, <1>10 DEF Bearing, LineageInv, TypeInv, ReqOK, Holding, TokenRow
    <2>2. QED
      BY <1>a, <1>2, <2>1 DEF RowToConsume
  <1>11. OneEnd'
    <2>1. \A s \in Reqs : pc'[s] = "issue" => pc[s] = "issue" /\ held[s].root # k.root
      BY <1>3, <1>7 DEF Bearing
    <2>2. \A s \in Tokens : s # t => (Unused(s)' <=> Unused(s))
      BY <1>2 DEF Unused
    <2>3. \A s \in Tokens : token[s] # NoRow => token[s].root # k.root
      BY <1>1, <1>6 DEF Beginning
    <2>4. QED
      BY <1>a, <1>1, <1>2, <2>1, <2>2, <2>3 DEF LineageInv, OneEnd, Unused, Watched
  <1>12. QED
    BY <1>5, <1>8, <1>9, <1>10, <1>11 DEF LineageInv

LEMMA LineageRedeem ==
  ASSUME LineageInv, TypeInv, NEW r \in Reqs, NEW t \in Tokens, Redeem(r, t)
  PROVE  LineageInv'
  <1>0. /\ pc[r] = "idle" /\ UNCHANGED <<grant, token, minted, overtaken>>
        /\ pc' = [pc EXCEPT ![r] = "consume"] /\ held' = [held EXCEPT ![r] = token[t]]
        /\ token[t] # NoRow /\ token[t] \in Carried /\ token[t].id = t
        /\ pc \in [Reqs -> Steps] /\ DOMAIN held = Reqs
    BY DEF Redeem, Goto, rows, Usable, Honoured, TokenLive, TypeInv, TypeOK, Carried,
           LineageInv, Identified
  <1>1. /\ pc'[r] = "consume" /\ held'[r] = token[t]
        /\ \A s \in Reqs : s # r => pc'[s] = pc[s] /\ held'[s] = held[s]
    BY <1>0
  <1>2. Carried' \subseteq Carried
    BY <1>0, <1>1 DEF Carried, Bears
  <1>3. Identified' /\ AllMinted' /\ OneGrant' /\ GrantsFit'
    BY <1>0, <1>2 DEF LineageInv, Identified, AllMinted, OneGrant, GrantsFit, GrantFits
  <1>4. \A s \in Reqs : s # r => (Bears(s)' <=> Bears(s))
    BY <1>1 DEF Bears
  <1>5. ASSUME NEW s \in Reqs, pc'[s] \in {"mint", "code"} PROVE Beginning(s)'
    <2>1. s # r /\ Beginning(s) /\ held'[s] = held[s]
      BY <1>1, <1>5 DEF LineageInv
    <2>2. token[t].root # held[s].root /\ token[t].id # held[s].id
      BY <1>0, <2>1 DEF Beginning
    <2>3. QED
      BY <1>0, <1>1, <1>4, <2>1, <2>2 DEF Beginning
  <1>6. ASSUME NEW s \in Reqs, pc'[s] = "mint" PROVE GrantUnborne(s)'
    <2>1. s # r /\ GrantUnborne(s) /\ held'[s] = held[s]
      BY <1>1, <1>6 DEF LineageInv
    <2>2. QED
      BY <1>0, <1>1, <1>4, <2>1 DEF GrantUnborne
  <1>7. ASSUME NEW s \in Reqs, pc'[s] = "consume" PROVE RowToConsume(s)'
    <2>1. CASE s = r
      BY <1>0, <1>1, <2>1 DEF RowToConsume
    <2>2. CASE s # r
      BY <1>0, <1>1, <1>7, <2>2 DEF LineageInv, RowToConsume
    <2>3. QED
      BY <2>1, <2>2
  <1>8. OneEnd'
    <2>1. \A s \in Reqs : pc'[s] = "issue" => pc[s] = "issue" /\ held'[s] = held[s]
      BY <1>1
    <2>2. QED
      BY <1>0, <2>1 DEF LineageInv, OneEnd, Unused, Watched
  <1>9. QED
    BY <1>3, <1>5, <1>6, <1>7, <1>8 DEF LineageInv

LEMMA LineageConsume ==
  ASSUME LineageInv, TypeInv, NEW r \in Reqs, Consume(r)
  PROVE  LineageInv'
  <1> DEFINE t == held[r].id
  <1>0. /\ pc[r] = "consume" /\ UNCHANGED <<grant, held, minted>>
        /\ pc' = [pc EXCEPT ![r] = "issue"] /\ ConsumeRow(t)
        /\ overtaken' = IF Unnoticed(r) THEN overtaken \cup {held[r].root} ELSE overtaken
        /\ pc \in [Reqs -> Steps] /\ DOMAIN token = Tokens
        /\ held[r] \in Carried
    BY DEF Consume, Goto, TypeInv, TypeOK, Carried, Bears, Bearing
  <1>1. /\ t \in Tokens /\ held[r] \in TokenRow
        /\ token[t] # NoRow =>
             /\ token[t] \in Carried /\ token[t] \in TokenRow
             /\ token[t].root = held[r].root /\ token[t].grant = held[r].grant
    BY <1>0, ConsumedIsCarried
  <1>2. RowToConsume(r)
    BY <1>0 DEF LineageInv
  <1>3. /\ pc'[r] = "issue" /\ \A s \in Reqs : s # r => pc'[s] = pc[s]
        /\ overtaken \subseteq overtaken'
        /\ Unnoticed(r) => held[r].root \in overtaken'
    BY <1>0
  <1>4. CASE token[t] = NoRow
    <2>1. UNCHANGED token /\ Unnoticed(r)
      BY <1>0, <1>4 DEF ConsumeRow, Unnoticed
    <2>2. QED
      BY <1>0, <1>3, <2>1, LineageFrame
  <1>5. CASE token[t] # NoRow /\ token[t].consumed
    <2>1. DeleteByGrant(held[r].grant)
      BY <1>0, <1>1, <1>5 DEF ConsumeRow
    <2>2. \A s \in Tokens : \/ token'[s] = token[s] /\ (token[s] # NoRow => token[s].grant # held[r].grant)
                            \/ token'[s] = NoRow
      BY <2>1 DEF DeleteByGrant, DeleteTokens
    <2>3. \A s \in Tokens : token'[s] # NoRow => token'[s].root # held[r].root
      BY <1>0, <2>2 DEF LineageInv, OneGrant, Carried
    <2>4. ~Unnoticed(r) => Alone(r)'
      BY <1>0, <1>3, <2>3 DEF Unnoticed, Alone
    <2>5. QED
      BY <1>0, <1>3, <2>2, <2>4, LineageFrame
  <1>6. CASE token[t] # NoRow /\ ~token[t].consumed
    <2>1. token' = [token EXCEPT ![t] = [token[t] EXCEPT !.consumed = TRUE]]
      BY <1>0, <1>6 DEF ConsumeRow
    <2>2. PICK k : k = [token[t] EXCEPT !.consumed = TRUE]
      OBVIOUS
    <2> HIDE DEF t
    <2>3. /\ k.id = t /\ k.root = token[t].root /\ k.grant = token[t].grant
          /\ k.user = token[t].user /\ k.client = token[t].client /\ k.consumed
          /\ t \in minted
      BY <1>1, <1>6, <2>2 DEF TokenRow, LineageInv, Identified, AllMinted
    <2>4. /\ token' = [token EXCEPT ![t] = k] /\ token'[t] = k
          /\ \A s \in Tokens : s # t => token'[s] = token[s]
      BY <1>0, <1>1, <2>1, <2>2
    <2>5. \A s \in Reqs : Bears(s)' <=> Bears(s)
      BY <1>0, <1>3 DEF Bears, Bearing
    <2>6. Carried' \subseteq Carried \cup {k}
      BY <1>0, <2>4, <2>5 DEF Carried
    <2>7. Identified' /\ AllMinted' /\ OneGrant' /\ GrantsFit'
      <3>1. token[t] \in Carried /\ t \in Tokens /\ t \in minted'
        BY <1>0, <1>1, <1>6, <2>3
      <3>2. grant' = grant /\ minted \subseteq minted'
        BY <1>0
      <3>3. QED
        BY <1>0, <2>3, <2>4, <2>6, <3>1, <3>2, CarriesOn
    <2>8. ASSUME NEW s \in Reqs, pc'[s] \in {"mint", "code"} PROVE Beginning(s)'
      <3>1. Beginning(s) /\ held[s].id \in Tokens
        BY <1>3, <2>8 DEF LineageInv, TypeInv, ReqOK, Holding, TokenRow
      <3>2. t # held[s].id
        BY <1>6, <3>1 DEF Beginning
      <3>3. QED
        BY <1>0, <1>1, <1>6, <2>3, <2>4, <2>5, <3>1, <3>2 DEF Beginning
    <2>9. ASSUME NEW s \in Reqs, pc'[s] = "mint" PROVE GrantUnborne(s)'
      <3>1. GrantUnborne(s)
        BY <1>3, <2>9 DEF LineageInv
      <3>2. QED
        BY <1>0, <1>1, <1>6, <2>3, <2>4, <2>5, <3>1 DEF GrantUnborne
    <2>10. ASSUME NEW s \in Reqs, pc'[s] = "consume" PROVE RowToConsume(s)'
      <3>1. RowToConsume(s) /\ held[s].id \in Tokens
        BY <1>3, <2>10 DEF LineageInv, TypeInv, ReqOK, Holding, TokenRow
      <3>2. k # NoRow
        <4>1. k \in TokenRow
          BY <1>1, <1>6, <2>2 DEF TokenRow
        <4>2. QED
          BY <4>1, RowsAssumption
      <3>3. CASE held[s].id = t
        <4>1. token[t].root = held[s].root
          BY <1>6, <3>1, <3>3 DEF RowToConsume
        <4>2. QED
          BY <1>0, <2>3, <2>4, <3>2, <3>3, <4>1 DEF RowToConsume
      <3>4. CASE held[s].id # t
        BY <1>0, <2>4, <3>1, <3>4 DEF RowToConsume
      <3>5. QED
        BY <3>3, <3>4
    <2>11. OneEnd'
      <3>1. \A s \in Tokens : Unused(s)' => s # t /\ Unused(s) /\ token'[s] = token[s]
        BY <2>3, <2>4 DEF Unused
      <3>2. Unused(t)
        BY <1>6 DEF Unused
      <3>3. \A s \in Reqs : pc'[s] = "issue" => s = r \/ pc[s] = "issue"
        BY <1>3
      <3>5. \A s \in Tokens : Unused(s)' /\ Watched(held[r])' => token[s].root # held[r].root
        BY <1>0, <1>1, <1>3, <1>6, <3>1, <3>2 DEF LineageInv, OneEnd, Watched
      <3>6. \A s \in Reqs : pc[s] = "issue" /\ Watched(held[s])' => held[s].root # held[r].root
        BY <1>0, <1>1, <1>3, <1>6, <3>2 DEF LineageInv, OneEnd, Watched
      <3>7. \A a, b \in Tokens : (Unused(a) /\ Unused(b) /\ a # b /\ Watched(token[a])
                                    => token[a].root # token[b].root)'
        BY <1>3, <3>1 DEF LineageInv, OneEnd, Watched
      <3>8. \A a \in Tokens, s \in Reqs :
               (Unused(a) /\ pc[s] = "issue" /\ Watched(held[s])
                  => token[a].root # held[s].root)'
        BY <1>0, <1>3, <3>1, <3>3, <3>5 DEF LineageInv, OneEnd, Watched
      <3>9. \A p, q \in Reqs :
               (pc[p] = "issue" /\ pc[q] = "issue" /\ p # q /\ Watched(held[p])
                  => held[p].root # held[q].root)'
        BY <1>0, <1>3, <3>3, <3>6 DEF LineageInv, OneEnd, Watched
      <3>10. QED
        BY <3>7, <3>8, <3>9 DEF OneEnd
    <2>12. QED
      BY <2>7, <2>8, <2>9, <2>10, <2>11 DEF LineageInv
  <1>7. QED
    BY <1>4, <1>5, <1>6

LEMMA LineageIssue ==
  ASSUME LineageInv, TypeInv, NEW r \in Reqs, NEW t \in Tokens, IssueRefresh(r, t)
  PROVE  LineageInv'
  <1>a. /\ pc[r] = "issue" /\ UNCHANGED <<grant, held, overtaken>>
        /\ pc' = [pc EXCEPT ![r] = "slide"] /\ minted' = minted \cup {t} /\ t \notin minted
        /\ token' = [token EXCEPT ![t] =
                       [held[r] EXCEPT !.id = t, !.exp = now + Cap, !.consumed = FALSE]]
        /\ held[r] \in TokenRow /\ held[r] \in Carried
        /\ pc \in [Reqs -> Steps] /\ DOMAIN token = Tokens
    BY DEF IssueRefresh, Goto, Fresh, TypeInv, TypeOK, ReqOK, Holding, Carried, Bears, Bearing
  <1>b. PICK k : k = [held[r] EXCEPT !.id = t, !.exp = now + Cap, !.consumed = FALSE]
    OBVIOUS
  <1>1. /\ k.id = t /\ k.root = held[r].root /\ k.grant = held[r].grant
        /\ k.user = held[r].user /\ k.client = held[r].client
    BY <1>a, <1>b DEF TokenRow
  <1>2. /\ token' = [token EXCEPT ![t] = k] /\ token'[t] = k
        /\ \A s \in Tokens : s # t => token'[s] = token[s]
    BY <1>a, <1>b
  <1>3. \A s \in Reqs : pc'[s] \in Bearing => s # r /\ pc'[s] = pc[s]
    BY <1>a DEF Bearing
  <1>4. Carried' \subseteq Carried \cup {k}
    BY <1>a, <1>2, <1>3 DEF Carried, Bears
  <1>5. Identified' /\ AllMinted' /\ OneGrant' /\ GrantsFit'
    BY <1>a, <1>1, <1>2, <1>4, CarriesOn
  <1>6. \A s \in Reqs : Bears(s) => held[s] \in Carried /\ held[s].id # t
    BY <1>a DEF LineageInv, AllMinted, Carried
  <1>7. ASSUME NEW s \in Reqs, pc'[s] \in {"mint", "code"} PROVE Beginning(s)'
    <2>1. s # r /\ Bears(s) /\ Beginning(s) /\ held[s].id \in Tokens
      BY <1>3, <1>7 DEF Bears, Bearing, LineageInv, TypeInv, ReqOK, Holding, TokenRow
    <2>2. k.root # held[s].root
      BY <1>a, <1>1, <2>1 DEF Beginning, Bears, Bearing
    <2>3. QED
      BY <1>a, <1>2, <1>3, <1>6, <2>1, <2>2 DEF Beginning, Bears
  <1>8. ASSUME NEW s \in Reqs, pc'[s] = "mint" PROVE GrantUnborne(s)'
    <2>1. s # r /\ GrantUnborne(s)
      BY <1>3, <1>8 DEF Bearing, LineageInv
    <2>2. k.grant # held[s].grant
      BY <1>a, <1>1, <2>1 DEF GrantUnborne, Bears, Bearing
    <2>3. QED
      BY <1>a, <1>2, <1>3, <2>1, <2>2 DEF GrantUnborne, Bears
  <1>9. ASSUME NEW s \in Reqs, pc'[s] = "consume" PROVE RowToConsume(s)'
    <2>1. Bears(s) /\ RowToConsume(s) /\ held[s].id \in Tokens
      BY <1>3, <1>9 DEF Bears, Bearing, LineageInv, TypeInv, ReqOK, Holding, TokenRow
    <2>2. QED
      BY <1>a, <1>2, <1>6, <2>1 DEF RowToConsume
  <1>10. OneEnd'
    <2>1. \A s \in Reqs : pc'[s] = "issue" => s # r /\ pc[s] = "issue" /\ held[s] \in Carried
      BY <1>3, <1>6 DEF Bears, Bearing
    <2>2. \A s \in Tokens : s # t /\ Unused(s)' =>
            Unused(s) /\ token'[s] = token[s] /\ token[s] \in Carried
      BY <1>2 DEF Unused, Carried
    <2>3. \A s \in Tokens : (s # t /\ Unused(s)' /\ Watched(k)) => token[s].root # k.root
      BY <1>a, <1>1, <2>2 DEF LineageInv, OneEnd, Watched
    <2>4. \A s \in Reqs : (pc'[s] = "issue" /\ Watched(held[s])) => held[s].root # k.root
      BY <1>a, <1>1, <2>1 DEF LineageInv, OneEnd, Watched
    <2>5. ASSUME NEW a \in Tokens, NEW b \in Tokens, Unused(a)', Unused(b)', a # b,
                 Watched(token[a])'
          PROVE  token'[a].root # token'[b].root
      <3>1. CASE a = t
        BY <1>a, <1>2, <2>2, <2>3, <2>5, <3>1 DEF Watched
      <3>2. CASE b = t
        BY <1>a, <1>2, <2>2, <2>3, <2>5, <3>2 DEF Watched
      <3>3. CASE a # t /\ b # t
        BY <1>a, <1>2, <2>2, <2>5, <3>3 DEF LineageInv, OneEnd, Watched
      <3>4. QED
        BY <3>1, <3>2, <3>3
    <2>6. \A a \in Tokens, s \in Reqs :
            (Unused(a) /\ pc[s] = "issue" /\ Watched(held[s]) => token[a].root # held[s].root)'
      BY <1>a, <1>2, <2>1, <2>2, <2>4 DEF LineageInv, OneEnd, Watched
    <2>7. \A p, q \in Reqs :
            (pc[p] = "issue" /\ pc[q] = "issue" /\ p # q /\ Watched(held[p])
               => held[p].root # held[q].root)'
      BY <1>a, <2>1 DEF LineageInv, OneEnd, Watched
    <2>8. QED
      BY <2>5, <2>6, <2>7 DEF OneEnd
  <1>11. QED
    BY <1>5, <1>7, <1>8, <1>9, <1>10 DEF LineageInv

LEMMA LineageInit == Init => RememberInv /\ LineageInv
  BY DEF Init, RememberInv, LineageInv, Authorizing, Identified, AllMinted, OneGrant, GrantsFit,
         Carried, Bears, Bearing, OneEnd, Unused

LEMMA RememberStep == TypeInv /\ KillInv /\ RememberInv /\ [Next]_vars => RememberInv'
  <1> SUFFICES ASSUME TypeInv, KillInv, RememberInv, [Next]_vars PROVE RememberInv'
    OBVIOUS
  <1> USE DEF rows
  <1>0. /\ TypeOK /\ pc \in [Reqs -> Steps] /\ DOMAIN copy = Reqs /\ DOMAIN held = Reqs
        /\ DOMAIN session = Uids
    BY DEF TypeInv, TypeOK
  <1>1. ASSUME NEW r \in Reqs, Authorize(r) PROVE RememberInv'
    <2>1. ASSUME NEW u \in Users, NEW i \in Uids, Login(r, u, i) PROVE RememberInv'
      <3>1. PICK m \in SessionRow : m = [user |-> u, loginTs |-> now, exp |-> now,
                                         grants |-> [c \in Clients |-> NoRow]]
        BY <1>0 DEF SessionRow, TypeOK
      <3>2. \A c \in Clients : m.grants[c] = NoRow
        BY <3>1
      <3>3. QED
        BY <2>1, <3>1, <3>2, RememberStart DEF Login, Goto
    <2>2. ASSUME NEW i \in Uids, AuthorizeRead(r, i) PROVE RememberInv'
      <3>1. session[i] \in SessionRow /\ session[i] # NoRow
        BY <1>0, <2>2 DEF AuthorizeRead, SessionLive, TypeOK
      <3>2. QED
        BY <2>2, <3>1, RememberStart DEF AuthorizeRead, Goto
    <2>3. ASSUME NEW c \in Clients, NEW g \in Grants, NEW t \in Tokens, LoadGrant(r, c, g, t)
          PROVE RememberInv'
      BY <2>3, RememberLoad
    <2>4. CASE MintGrant(r)
      BY <2>4, RememberMint
    <2>5. CASE SaveCode(r)
      BY <1>0, <2>5, RememberFrame DEF SaveCode, Goto, Authorizing
    <2>6. CASE SaveSession(r)
      BY <2>6, RememberSave
    <2>7. CASE MirrorSession(r)
      BY <1>0, <2>7, RememberFrame DEF MirrorSession, Finish, Goto, Authorizing
    <2>8. QED
      BY <1>1, <2>1, <2>2, <2>3, <2>4, <2>5, <2>6, <2>7 DEF Authorize
  <1>2. ASSUME NEW r \in Reqs, Exchange(r) PROVE RememberInv'
    <2>1. ASSUME NEW t \in Tokens, Redeem(r, t) PROVE RememberInv'
      BY <1>0, <2>1, RememberFrame DEF Redeem, Goto, Authorizing
    <2>2. ASSUME NEW t \in Tokens, RedeemReplay(r, t) PROVE RememberInv'
      BY <1>0, <2>2, RememberFrame DEF RedeemReplay, Goto, Authorizing
    <2>3. ASSUME NEW t \in Tokens, IssueRefresh(r, t) PROVE RememberInv'
      BY <1>0, <2>3, RememberFrame DEF IssueRefresh, Goto, Authorizing
    <2>4. CASE Consume(r)
      BY <1>0, <2>4, RememberFrame DEF Consume, Goto, Authorizing
    <2>5. CASE SlideSession(r)
      <3>1. \A i \in Uids : session'[i] # NoRow =>
              /\ session[i] # NoRow /\ session'[i].user = session[i].user
              /\ session'[i].grants = session[i].grants
        <4> DEFINE j == held[r].uid
        <4>1. \/ session' = session
              \/ /\ SessionLive(j) /\ session[j] \in SessionRow
                 /\ session' = [session EXCEPT ![j] =
                      [session[j] EXCEPT !.exp = Least(now + Idle, session[j].loginTs + Cap)]]
          BY <1>0, <2>5 DEF SlideSession, Slid, SessionLive, TypeOK, TypeInv, ReqOK, Holding,
                            TokenRow
        <4>2. CASE session' = session
          BY <4>2
        <4>3. ASSUME NEW e, SessionLive(j), session[j] \in SessionRow,
                     session' = [session EXCEPT ![j] = [session[j] EXCEPT !.exp = e]]
              PROVE  \A i \in Uids : session'[i] # NoRow =>
                       /\ session[i] # NoRow /\ session'[i].user = session[i].user
                       /\ session'[i].grants = session[i].grants
          BY <1>0, <4>3 DEF SessionLive, SessionRow
        <4>4. QED
          BY <4>1, <4>2, <4>3
      <3>2. QED
        BY <1>0, <2>5, <3>1, RememberFrame DEF SlideSession, Finish, Goto, Authorizing
    <2>6. CASE DropGrant(r)
      BY <1>0, <2>6, RememberFrame DEF DropGrant, Finish, Goto, Authorizing, TypeOK
    <2>7. QED
      BY <1>2, <2>1, <2>2, <2>3, <2>4, <2>5, <2>6 DEF Exchange
  <1>3. ASSUME NEW r \in Reqs, Revoke(r) PROVE RememberInv'
    <2>1. ASSUME NEW u \in Users, NEW i \in Uids, RevokeSession(r, u, i) PROVE RememberInv'
      BY <1>0, <2>1, RememberFrame DEF RevokeSession, DeleteSessions, Goto, Authorizing
    <2>2. ASSUME NEW u \in Users, NEW i \in Uids, ResolveCurrent(r, u, i) PROVE RememberInv'
      BY <1>0, <2>2, RememberFrame DEF ResolveCurrent, Goto, Authorizing
    <2>3. ASSUME NEW i \in Uids, LogoutMark(r, i) PROVE RememberInv'
      BY <1>0, <2>3, RememberFrame DEF LogoutMark, Goto, Authorizing
    <2>4. ASSUME NEW u \in Users, LockUser(r, u) PROVE RememberInv'
      BY <1>0, <2>4, RememberFrame DEF LockUser, Goto, Authorizing
    <2>5. ASSUME NEW u \in Users, LogoutAll(r, u) PROVE RememberInv'
      BY <1>0, <2>5, RememberFrame DEF LogoutAll, Goto, Authorizing
    <2>6. CASE UnlistSession(r)
      BY <1>0, <2>6, RememberFrame DEF UnlistSession, Finish, Goto, Authorizing
    <2>7. CASE RevokeOtherSessions(r)
      BY <1>0, <2>7, RememberFrame DEF RevokeOtherSessions, DeleteSessions, Goto, Authorizing
    <2>8. CASE UnlistOtherSessions(r)
      BY <1>0, <2>8, RememberFrame DEF UnlistOtherSessions, Finish, Goto, Authorizing
    <2>9. CASE RevokeAllForUser(r)
      BY <1>0, <2>9, RememberFrame DEF RevokeAllForUser, DeleteGrants, Finish, Goto, Authorizing
    <2>10. CASE Destroy(r)
      BY <1>0, <2>10, RememberFrame DEF Destroy, Finish, Goto, Authorizing
    <2>11. QED
      BY <1>3, <2>1, <2>2, <2>3, <2>4, <2>5, <2>6, <2>7, <2>8, <2>9, <2>10 DEF Revoke
  <1>4. ASSUME NEW r \in Reqs, Abort(r) PROVE RememberInv'
    BY <1>0, <1>4, RememberFrame DEF Abort, Finish, Goto, Authorizing
  <1>5. ASSUME NEW u \in Users, UnlockUser(u) PROVE RememberInv'
    BY <1>0, <1>5, RememberFrame DEF UnlockUser, Authorizing
  <1>6. ASSUME NEW u \in Users, NEW S \in SUBSET Clients, RevokeForUserInProjects(u, S)
        PROVE RememberInv'
    BY <1>0, <1>6, RememberFrame DEF RevokeForUserInProjects, DeleteGrants, Authorizing
  <1>7. CASE Cleanup
    BY <1>0, <1>7, RememberFrame DEF Cleanup, Authorizing
  <1>8. CASE Tick
    BY <1>0, <1>8, RememberFrame DEF Tick, Authorizing
  <1>9. CASE UNCHANGED vars
    BY <1>0, <1>9, RememberFrame DEF vars, Authorizing
  <1>10. QED
    BY <1>1, <1>2, <1>3, <1>4, <1>5, <1>6, <1>7, <1>8, <1>9 DEF Next

LEMMA LineageStep ==
  ASSUME TypeInv, KillInv, RememberInv, LineageInv, [Next]_vars
  PROVE  LineageInv'
  <1> USE DEF rows
  <1>0. TypeOK /\ pc \in [Reqs -> Steps] /\ DOMAIN held = Reqs
    BY DEF TypeInv, TypeOK
  (* Nothing in the tables of grants and tokens is touched, no request takes *)
  (* up a token.                                                            *)
  <1>a. ASSUME UNCHANGED <<grant, token, overtaken>>, minted \subseteq minted',
               \A r \in Reqs : pc'[r] \in Bearing => pc'[r] = pc[r] /\ held'[r] = held[r]
        PROVE  LineageInv'
    BY <1>a, LineageFrame
  <1>1. ASSUME NEW r \in Reqs, Authorize(r) PROVE LineageInv'
    <2>1. ASSUME NEW u \in Users, NEW i \in Uids, Login(r, u, i) PROVE LineageInv'
      BY <1>0, <1>a, <2>1 DEF Login, Goto, Bearing
    <2>2. ASSUME NEW i \in Uids, AuthorizeRead(r, i) PROVE LineageInv'
      BY <1>0, <1>a, <2>2 DEF AuthorizeRead, Goto, Bearing
    <2>3. ASSUME NEW c \in Clients, NEW g \in Grants, NEW t \in Tokens, LoadGrant(r, c, g, t)
          PROVE LineageInv'
      BY <2>3, LineageLoad
    <2>4. CASE MintGrant(r)
      BY <2>4, LineageMint
    <2>5. CASE SaveCode(r)
      BY <2>5, LineageSave
    <2>6. CASE SaveSession(r)
      BY <1>0, <1>a, <2>6 DEF SaveSession, Goto, Bearing
    <2>7. CASE MirrorSession(r)
      BY <1>0, <1>a, <2>7 DEF MirrorSession, Finish, Goto, Bearing
    <2>8. QED
      BY <1>1, <2>1, <2>2, <2>3, <2>4, <2>5, <2>6, <2>7 DEF Authorize
  <1>2. ASSUME NEW r \in Reqs, Exchange(r) PROVE LineageInv'
    <2>1. ASSUME NEW t \in Tokens, Redeem(r, t) PROVE LineageInv'
      BY <2>1, LineageRedeem
    <2>2. ASSUME NEW t \in Tokens, RedeemReplay(r, t) PROVE LineageInv'
      BY <1>0, <2>2, LineageDelete DEF RedeemReplay, DeleteByGrant, DeleteTokens, Goto, Bearing
    <2>3. ASSUME NEW t \in Tokens, IssueRefresh(r, t) PROVE LineageInv'
      BY <2>3, LineageIssue
    <2>4. CASE Consume(r)
      BY <2>4, LineageConsume
    <2>5. CASE SlideSession(r)
      BY <1>0, <1>a, <2>5 DEF SlideSession, Finish, Goto, Bearing
    <2>6. CASE DropGrant(r)
      BY <1>0, <2>6, LineageDelete DEF DropGrant, Finish, Goto, Bearing, TypeOK
    <2>7. QED
      BY <1>2, <2>1, <2>2, <2>3, <2>4, <2>5, <2>6 DEF Exchange
  <1>3. ASSUME NEW r \in Reqs, Revoke(r) PROVE LineageInv'
    <2>1. ASSUME NEW u \in Users, NEW i \in Uids, RevokeSession(r, u, i) PROVE LineageInv'
      BY <1>0, <2>1, LineageDelete DEF RevokeSession, DeleteSessions, DeleteTokens, Goto, Bearing
    <2>2. ASSUME NEW u \in Users, NEW i \in Uids, ResolveCurrent(r, u, i) PROVE LineageInv'
      BY <1>0, <1>a, <2>2 DEF ResolveCurrent, Goto, Bearing
    <2>3. ASSUME NEW i \in Uids, LogoutMark(r, i) PROVE LineageInv'
      BY <1>0, <1>a, <2>3 DEF LogoutMark, Goto, Bearing
    <2>4. ASSUME NEW u \in Users, LockUser(r, u) PROVE LineageInv'
      BY <1>0, <1>a, <2>4 DEF LockUser, Goto, Bearing
    <2>5. ASSUME NEW u \in Users, LogoutAll(r, u) PROVE LineageInv'
      BY <1>0, <1>a, <2>5 DEF LogoutAll, Goto, Bearing
    <2>6. CASE UnlistSession(r)
      BY <1>0, <1>a, <2>6 DEF UnlistSession, Finish, Goto, Bearing
    <2>7. CASE RevokeOtherSessions(r)
      BY <1>0, <2>7, LineageDelete DEF RevokeOtherSessions, DeleteSessions, DeleteTokens, Goto,
                                         Bearing
    <2>8. CASE UnlistOtherSessions(r)
      BY <1>0, <1>a, <2>8 DEF UnlistOtherSessions, Finish, Goto, Bearing
    <2>9. CASE RevokeAllForUser(r)
      <3>1. \A s \in Reqs : pc'[s] \in Bearing => pc'[s] = pc[s] /\ held'[s] = held[s]
        BY <1>0, <2>9 DEF RevokeAllForUser, Finish, Goto, Bearing
      <3>2. QED
        BY <2>9, <3>1, LineageDelete DEF RevokeAllForUser, DeleteGrants
    <2>10. CASE Destroy(r)
      BY <1>0, <1>a, <2>10 DEF Destroy, Finish, Goto, Bearing
    <2>11. QED
      BY <1>3, <2>1, <2>2, <2>3, <2>4, <2>5, <2>6, <2>7, <2>8, <2>9, <2>10 DEF Revoke
  <1>4. ASSUME NEW r \in Reqs, Abort(r) PROVE LineageInv'
    BY <1>0, <1>a, <1>4 DEF Abort, Finish, Goto, Bearing
  <1>5. ASSUME NEW u \in Users, UnlockUser(u) PROVE LineageInv'
    BY <1>a, <1>5 DEF UnlockUser
  <1>6. ASSUME NEW u \in Users, NEW S \in SUBSET Clients, RevokeForUserInProjects(u, S)
        PROVE LineageInv'
    BY <1>6, LineageDelete DEF RevokeForUserInProjects, DeleteGrants
  <1>7. CASE Cleanup
    BY <1>7, LineageDelete DEF Cleanup, DeleteTokens
  <1>8. CASE Tick
    BY <1>a, <1>8 DEF Tick
  <1>9. CASE UNCHANGED vars
    BY <1>a, <1>9 DEF vars
  <1>10. QED
    BY <1>1, <1>2, <1>3, <1>4, <1>5, <1>6, <1>7, <1>8, <1>9 DEF Next

LEMMA LineageImplies == LineageInv => OneUsablePerLineage
  BY DEF LineageInv, OneEnd, Unused, Watched, OneUsablePerLineage, Usable, Honoured, TokenLive,
         GrantLive

\* However many requests redeem a code or a refresh token of its line at once, and
\* whatever is revoked or purged meanwhile, no two tokens of one line work, unless a
\* request exchanged a token of it whose row was gone, or while another had consumed
\* its own and was still to issue: the two cases consume() cannot notice.
THEOREM OneSuccessor == Spec => []OneUsablePerLineage
  <1> DEFINE Inv == TypeInv /\ KillInv /\ RememberInv /\ LineageInv
  <1>1. Init => Inv
    BY TypeInvInit, KillInvInit, LineageInit
  <1>2. Inv /\ [Next]_vars => Inv'
    BY TypeInvStep, KillInvStep, RememberStep, LineageStep
  <1>3. Inv => OneUsablePerLineage
    BY LineageImplies
  <1>4. QED
    BY <1>1, <1>2, <1>3, PTL DEF Spec

-----------------------------------------------------------------------------
(* No refresh revives a session: of all steps only the two that write a     *)
(* session can, and one of them looks whether it is alive.                  *)

LEMMA RevivalStep ==
  ASSUME TypeInv, [Next]_vars, NEW i \in Uids,
         session[i] # NoRow, ~SessionLive(i), SessionLive(i)'
  PROVE  \E r \in Reqs : pc[r] = "session" /\ aim[r].uid = i
  <1>1. session \in [Uids -> SessionRow \cup {NoRow}] /\ now \in Nat
    BY DEF TypeInv, TypeOK
  <1>2. CASE SessionsShrink /\ now' \in Nat /\ now <= now'
    BY <1>1, <1>2 DEF SessionsShrink, SessionLive, SessionRow
  <1>3. ASSUME NEW r \in Reqs, SaveSession(r) PROVE pc[r] = "session" /\ aim[r].uid = i
    BY <1>1, <1>3 DEF SaveSession, SessionLive
  <1>4. ASSUME NEW r \in Reqs, SlideSession(r) PROVE FALSE
    BY <1>1, <1>4 DEF SlideSession, Slid, SessionLive
  <1>5. QED
    BY <1>2, <1>3, <1>4, SessionSteps

\* A refresh never brings an expired session back: only a request that holds a
\* session it read alive may write it again.
THEOREM NoRevival == Spec => RefreshNeverRevives
  <1>1. TypeInv /\ [Next]_vars =>
          [\A i \in Uids : (session[i] # NoRow /\ ~SessionLive(i) /\ SessionLive(i)')
             => \E r \in Reqs : pc[r] = "session" /\ aim[r].uid = i]_vars
    BY RevivalStep
  <1>2. QED
    BY <1>1, TypeInvariant, PTL DEF Spec, RefreshNeverRevives

-----------------------------------------------------------------------------
(* Why a working token stops working.  Saving a session must not shorten it *)
(* or change whose it is: every row and every copy of a session is of the   *)
(* login that opened it.                                                    *)

SameLogin(m, n) == m.user = n.user /\ m.loginTs = n.loginTs
OriginInv ==
  /\ \A i \in Uids : session[i] # NoRow => i \in minted /\ session[i].exp <= now + Idle
  /\ \A r \in Reqs : pc[r] \in Authorizing =>
       /\ aim[r].uid \in minted
       /\ session[aim[r].uid] # NoRow => SameLogin(session[aim[r].uid], copy[r])
  /\ \A r, s \in Reqs :
       (pc[r] \in Authorizing /\ pc[s] \in Authorizing /\ aim[r].uid = aim[s].uid)
         => SameLogin(copy[r], copy[s])

LEMMA OriginFrame ==
  ASSUME OriginInv, TypeInv, now' \in Nat, now <= now', minted \subseteq minted',
         \A i \in Uids : session'[i] # NoRow =>
           session[i] # NoRow /\ SameLogin(session'[i], session[i])
             /\ session'[i].exp <= now' + Idle,
         \A r \in Reqs : pc'[r] \in Authorizing =>
           pc[r] \in Authorizing /\ SameLogin(copy'[r], copy[r]) /\ aim'[r] = aim[r]
  PROVE  OriginInv'
  <1>1. \A r \in Reqs : pc[r] \in Authorizing => aim[r].uid \in Uids
    BY DEF TypeInv, ReqOK, OnSession
  <1>2. QED
    BY <1>1 DEF OriginInv, SameLogin

LEMMA OriginStart ==
  ASSUME OriginInv, TypeInv, UNCHANGED <<now, session>>, minted \subseteq minted',
         NEW r \in Reqs, NEW u \in Users, NEW i \in Uids, NEW m \in SessionRow,
         pc[r] = "idle", pc' = [pc EXCEPT ![r] = "gate"],
         aim' = [aim EXCEPT ![r] = [user |-> u, uid |-> i]],
         copy' = [copy EXCEPT ![r] = m], i \in minted',
         i \notin minted \/ (session[i] = m /\ m # NoRow)
  PROVE  OriginInv'
  <1>1. /\ pc'[r] = "gate" /\ aim'[r].uid = i /\ copy'[r] = m
        /\ \A s \in Reqs : s # r => pc'[s] = pc[s] /\ aim'[s] = aim[s] /\ copy'[s] = copy[s]
    BY DEF TypeInv, TypeOK
  <1>2. session[i] # NoRow => SameLogin(session[i], m)
    BY DEF OriginInv, SameLogin
  <1>3. ASSUME NEW s \in Reqs, s # r, pc[s] \in Authorizing, aim[s].uid = i
        PROVE  SameLogin(copy[s], m) /\ SameLogin(m, copy[s])
    BY <1>3 DEF OriginInv, SameLogin
  <1>4. \A j \in Uids : session'[j] # NoRow => j \in minted' /\ session'[j].exp <= now' + Idle
    BY DEF OriginInv
  <1>5. ASSUME NEW s \in Reqs, pc'[s] \in Authorizing
        PROVE  /\ aim'[s].uid \in minted'
               /\ session'[aim'[s].uid] # NoRow => SameLogin(session'[aim'[s].uid], copy'[s])
    BY <1>1, <1>2, <1>5 DEF OriginInv
  <1>6. ASSUME NEW p \in Reqs, NEW q \in Reqs, pc'[p] \in Authorizing, pc'[q] \in Authorizing,
               aim'[p].uid = aim'[q].uid
        PROVE  SameLogin(copy'[p], copy'[q])
    <2>1. CASE p = r /\ q = r
      BY <2>1 DEF SameLogin
    <2>2. CASE p = r /\ q # r
      BY <1>1, <1>3, <1>6, <2>2
    <2>3. CASE p # r /\ q = r
      BY <1>1, <1>3, <1>6, <2>3
    <2>4. CASE p # r /\ q # r
      BY <1>1, <1>6, <2>4 DEF OriginInv
    <2>5. QED
      BY <2>1, <2>2, <2>3, <2>4
  <1>7. QED
    BY <1>4, <1>5, <1>6 DEF OriginInv, SameLogin

LEMMA OriginSave ==
  ASSUME OriginInv, TypeInv, NEW r \in Reqs, SaveSession(r)
  PROVE  OriginInv'
  <1> DEFINE i == aim[r].uid
             e == SessionExp(copy[r].loginTs)
  <1>1. /\ pc[r] = "session" /\ UNCHANGED <<now, aim, copy, minted>>
        /\ pc' = [pc EXCEPT ![r] = "mirror"]
        /\ session' = [session EXCEPT ![i] = [copy[r] EXCEPT !.exp = e]]
        /\ copy[r] \in SessionRow /\ i \in Uids /\ pc \in [Reqs -> Steps]
        /\ DOMAIN session = Uids /\ now \in Nat
    BY DEF SaveSession, Goto, TypeInv, TypeOK, ReqOK, Authorizing, OnSession
  <1>2. e <= now + Idle
    BY <1>1, TimesAssumption DEF SessionRow, SessionExp, Most, Least
  <1>3. PICK m : m = [copy[r] EXCEPT !.exp = e]
    OBVIOUS
  <1>4. SameLogin(m, copy[r]) /\ m.exp = e
    BY <1>1, <1>3 DEF SessionRow, SameLogin
  <1> HIDE DEF e
  <1>5. \A s \in Reqs : /\ pc'[s] \in Authorizing => pc[s] \in Authorizing
                        /\ pc[r] \in Authorizing
    BY <1>1 DEF Authorizing
  <1>6. /\ session'[i] = m /\ \A j \in Uids : j # i => session'[j] = session[j]
    BY <1>1, <1>3
  <1>7. /\ i \in minted
        /\ \A s \in Reqs : pc[s] \in Authorizing /\ aim[s].uid = i => SameLogin(m, copy[s])
    BY <1>4, <1>5 DEF OriginInv, SameLogin
  <1> HIDE DEF i
  <1>8. \A j \in Uids : session'[j] # NoRow => j \in minted' /\ session'[j].exp <= now' + Idle
    BY <1>1, <1>2, <1>4, <1>6, <1>7 DEF OriginInv
  <1>9. ASSUME NEW s \in Reqs, pc'[s] \in Authorizing
        PROVE  /\ aim[s].uid \in minted
               /\ session'[aim[s].uid] # NoRow => SameLogin(session'[aim[s].uid], copy[s])
    <2>1. pc[s] \in Authorizing /\ aim[s].uid \in Uids
      BY <1>5, <1>9 DEF TypeInv, ReqOK, OnSession
    <2>2. QED
      BY <1>6, <1>7, <2>1 DEF OriginInv
  <1>10. QED
    BY <1>1, <1>5, <1>8, <1>9 DEF OriginInv

LEMMA OriginStep == TypeInv /\ OriginInv /\ [Next]_vars => OriginInv'
  <1> SUFFICES ASSUME TypeInv, OriginInv, [Next]_vars PROVE OriginInv'
    OBVIOUS
  <1> USE DEF rows
  <1>0. /\ now \in Nat /\ now <= now /\ pc \in [Reqs -> Steps] /\ DOMAIN copy = Reqs
        /\ DOMAIN aim = Reqs /\ session \in [Uids -> SessionRow \cup {NoRow}] /\ Idle \in Nat
    BY TimesAssumption DEF TypeInv, TypeOK
  <1>1. \A i \in Uids : session[i] # NoRow => session[i].exp \in Nat
    BY <1>0 DEF SessionRow
  (* Rows go, copies stay what they are.                                    *)
  <1>2. ASSUME SessionsShrink, now' \in Nat, now <= now', minted \subseteq minted',
               \A r \in Reqs : pc'[r] \in Authorizing =>
                 pc[r] \in Authorizing /\ SameLogin(copy'[r], copy[r]) /\ aim'[r] = aim[r]
        PROVE  OriginInv'
    <2>1. \A i \in Uids : session'[i] # NoRow =>
            session[i] # NoRow /\ SameLogin(session'[i], session[i])
              /\ session'[i].exp <= now' + Idle
      BY <1>0, <1>1, <1>2 DEF SessionsShrink, SameLogin, OriginInv
    <2>2. QED
      BY <1>2, <2>1, OriginFrame
  <1>3. ASSUME NEW r \in Reqs, SaveSession(r) PROVE OriginInv'
    BY <1>3, OriginSave
  <1>4. ASSUME NEW r \in Reqs, SlideSession(r) PROVE OriginInv'
    <2> DEFINE i == held[r].uid
               e == Least(now + Idle, session[i].loginTs + Cap)
    <2>1. /\ pc[r] = "slide" /\ UNCHANGED <<now, minted>> /\ i \in Uids
          /\ \/ session' = session
             \/ /\ session[i] \in SessionRow /\ session[i] # NoRow
                /\ session' = [session EXCEPT ![i] = [session[i] EXCEPT !.exp = e]]
      BY <1>0, <1>4 DEF SlideSession, Slid, SessionLive, TypeInv, ReqOK, Holding, TokenRow
    <2>2. session[i] \in SessionRow => e <= now + Idle
      BY <1>0, TimesAssumption DEF SessionRow, Least
    <2> HIDE DEF i, e
    <2>3. \A s \in Reqs : pc'[s] \in Authorizing =>
            pc[s] \in Authorizing /\ SameLogin(copy'[s], copy[s]) /\ aim'[s] = aim[s]
      BY <1>0, <1>4 DEF SlideSession, Finish, Goto, Authorizing, SameLogin
    <2>4. ASSUME NEW j \in Uids, session'[j] # NoRow
          PROVE  session[j] # NoRow /\ SameLogin(session'[j], session[j])
                   /\ session'[j].exp <= now' + Idle
      <3>1. CASE session'[j] = session[j]
        BY <2>1, <2>4, <3>1 DEF OriginInv, SameLogin
      <3>2. CASE /\ j = i /\ session[i] \in SessionRow /\ session[i] # NoRow
                 /\ session'[j] = [session[i] EXCEPT !.exp = e]
        BY <2>1, <2>2, <3>2 DEF SessionRow, SameLogin
      <3>3. QED
        BY <1>0, <2>1, <3>1, <3>2
    <2>5. QED
      BY <1>0, <2>1, <2>3, <2>4, OriginFrame
  <1>5. ASSUME NEW r \in Reqs, NEW u \in Users, NEW i \in Uids, Login(r, u, i) PROVE OriginInv'
    <2>1. PICK m \in SessionRow : m = [user |-> u, loginTs |-> now, exp |-> now,
                                       grants |-> [c \in Clients |-> NoRow]]
      BY <1>0 DEF SessionRow
    <2>2. QED
      BY <1>5, <2>1, OriginStart DEF Login, Goto, Fresh
  <1>6. ASSUME NEW r \in Reqs, NEW i \in Uids, AuthorizeRead(r, i) PROVE OriginInv'
    <2>1. session[i] \in SessionRow /\ session[i] # NoRow /\ session[i].user \in Users
          /\ i \in minted
      BY <1>0, <1>6 DEF AuthorizeRead, SessionLive, SessionRow, OriginInv
    <2>2. QED
      BY <1>6, <2>1, OriginStart DEF AuthorizeRead, Goto
  <1>7. ASSUME NEW r \in Reqs, NEW c \in Clients, NEW g \in Grants, NEW t \in Tokens,
               LoadGrant(r, c, g, t)
        PROVE  OriginInv'
    <2>1. /\ copy' = [copy EXCEPT ![r] = [copy[r] EXCEPT !.grants[c] = g]]
          /\ pc[r] = "gate" /\ UNCHANGED <<now, session, aim>> /\ minted \subseteq minted'
          /\ \A s \in Reqs : s # r => pc'[s] = pc[s]
      BY <1>0, <1>7 DEF LoadGrant, Goto
    <2>2. copy[r] \in SessionRow
      BY <2>1 DEF TypeInv, ReqOK, Authorizing
    <2>3. PICK m : m = [copy[r] EXCEPT !.grants[c] = g]
      OBVIOUS
    <2>4. SameLogin(m, copy[r])
      BY <2>2, <2>3 DEF SessionRow, SameLogin
    <2>5. \A s \in Reqs : SameLogin(copy'[s], copy[s])
      BY <1>0, <2>1, <2>3, <2>4 DEF SameLogin
    <2>6. \A s \in Reqs : pc'[s] \in Authorizing => pc[s] \in Authorizing
      BY <2>1 DEF Authorizing
    <2>7. SessionsShrink
      BY <2>1 DEF SessionsShrink
    <2>8. QED
      BY <1>0, <1>2, <2>1, <2>5, <2>6, <2>7
  (* Every other step.                                                      *)
  <1>8. ASSUME \A r \in Reqs : pc'[r] \in Authorizing =>
                 pc[r] \in Authorizing /\ copy'[r] = copy[r] /\ aim'[r] = aim[r],
               minted \subseteq minted'
        PROVE  OriginInv'
    <2>1. CASE SessionsShrink /\ now' \in Nat /\ now <= now'
      BY <1>2, <1>8, <2>1 DEF SameLogin
    <2>2. QED
      BY <1>3, <1>4, <2>1, SessionSteps
  <1>9. ASSUME NEW r \in Reqs, Authorize(r) PROVE OriginInv'
    <2>1. CASE MintGrant(r) \/ SaveCode(r) \/ MirrorSession(r)
      BY <1>0, <1>8, <2>1 DEF MintGrant, SaveCode, MirrorSession, Finish, Goto, Authorizing
    <2>2. QED
      BY <1>3, <1>5, <1>6, <1>7, <1>9, <2>1 DEF Authorize
  <1>10. ASSUME NEW r \in Reqs, Exchange(r) PROVE OriginInv'
    BY <1>0, <1>4, <1>8, <1>10 DEF Exchange, Redeem, RedeemReplay, IssueRefresh, Consume,
                                   DropGrant, Finish, Goto, Authorizing
  <1>11. ASSUME NEW r \in Reqs, Revoke(r) PROVE OriginInv'
    <2>1. CASE \/ \E u \in Users, i \in Uids : RevokeSession(r, u, i) \/ ResolveCurrent(r, u, i)
               \/ \E i \in Uids : LogoutMark(r, i)
               \/ \E u \in Users : LockUser(r, u) \/ LogoutAll(r, u)
               \/ RevokeOtherSessions(r)
      BY <1>0, <1>8, <2>1 DEF RevokeSession, ResolveCurrent, LogoutMark, LockUser, LogoutAll,
                              RevokeOtherSessions, Goto, Authorizing
    <2>2. CASE UnlistSession(r) \/ UnlistOtherSessions(r) \/ RevokeAllForUser(r) \/ Destroy(r)
      BY <1>0, <1>8, <2>2 DEF UnlistSession, UnlistOtherSessions, RevokeAllForUser, Destroy,
                              Finish, Goto, Authorizing
    <2>3. QED
      BY <1>11, <2>1, <2>2 DEF Revoke
  <1>12. ASSUME NEW r \in Reqs, Abort(r) PROVE OriginInv'
    BY <1>0, <1>8, <1>12 DEF Abort, Finish, Goto, Authorizing
  <1>13. CASE \/ \E u \in Users : UnlockUser(u)
              \/ \E u \in Users : \E S \in SUBSET Clients : RevokeForUserInProjects(u, S)
              \/ Cleanup \/ Tick \/ UNCHANGED vars
    BY <1>8, <1>13 DEF UnlockUser, RevokeForUserInProjects, Cleanup, Tick, vars
  <1>14. QED
    BY <1>9, <1>10, <1>11, <1>12, <1>13 DEF Next

LossCause(t) ==
  LET k == token[t] IN
    \/ now' # now
    \/ \E r \in Reqs : pc[r] = "consume" /\ held[r].id = t
    \/ ReplayUnder(k.grant)
    \/ k.grant \in killed' \/ k.uid \in ended' \/ ~active'[k.user]
    \/ StaleWrite(k)

(* All a working token rests on.                                            *)
LEMMA UsableMeans ==
  ASSUME TypeInv, NEW t \in Tokens, Usable(t)
  PROVE  /\ token[t] \in TokenRow /\ token[t] # NoRow /\ token[t].exp > now
         /\ ~token[t].consumed
         /\ session[token[t].uid] \in SessionRow /\ session[token[t].uid] # NoRow
         /\ session[token[t].uid].exp > now
         /\ session[token[t].uid].user = token[t].user
         /\ session[token[t].uid].grants[token[t].client] = token[t].grant
         /\ grant[token[t].grant] # NoRow /\ grant[token[t].grant].exp > now
         /\ active[token[t].user]
  BY DEF Usable, Honoured, TokenLive, BoundToSession, SessionLive, GrantLive, TypeInv, TypeOK,
         TokenRow

LEMMA StaysUsable ==
  ASSUME TypeInv, NEW t \in Tokens, Usable(t), now' = now, token'[t] = token[t],
         grant'[token[t].grant] = grant[token[t].grant], active'[token[t].user],
         session'[token[t].uid] # NoRow, session'[token[t].uid].exp > now,
         session'[token[t].uid].user = session[token[t].uid].user,
         session'[token[t].uid].grants[token[t].client] = token[t].grant
  PROVE  Usable(t)'
  BY UsableMeans DEF Usable, Honoured, TokenLive, BoundToSession, SessionLive, GrantLive

LEMMA LossByGrant ==
  ASSUME TypeInv, NEW t \in Tokens, Usable(t), ~Usable(t)', now' = now,
         UNCHANGED <<session, active, grant>>, NEW s \in Tokens, token[s] # NoRow, token[s].consumed,
         DeleteByGrant(token[s].grant)
  PROVE  ReplayUnder(token[t].grant)
  <1> DEFINE g == token[s].grant
  <1>1. CASE token[t].grant = g
    BY <1>1 DEF ReplayUnder, DeleteByGrant, DeleteTokens
  <1>2. CASE token[t].grant # g
    <2>1. token'[t] = token[t]
      BY <1>2 DEF DeleteByGrant, DeleteTokens
    <2>2. QED
      BY <2>1, UsableMeans, StaysUsable
  <1>3. QED
    BY <1>1, <1>2

LEMMA LossBySessions ==
  ASSUME TypeInv, NEW t \in Tokens, Usable(t), ~Usable(t)', now' = now,
         UNCHANGED <<grant, active>>, NEW u, NEW S, DeleteSessions(u, S)
  PROVE  token[t].uid \in ended'
  <1> DEFINE i == token[t].uid
  <1>1. i \in Uids /\ session[i] # NoRow /\ session[i].user = token[t].user
    BY UsableMeans DEF TokenRow
  <1>2. CASE i \in S /\ token[t].user = u
    BY <1>1, <1>2 DEF DeleteSessions, SessionsOf
  <1>3. CASE i \notin S \/ token[t].user # u
    <2>1. token'[t] = token[t]
      BY <1>3 DEF DeleteSessions, DeleteTokens
    <2>2. session'[i] = session[i]
      BY <1>1, <1>3 DEF DeleteSessions, SessionsOf
    <2>3. QED
      BY <2>1, <2>2, UsableMeans, StaysUsable
  <1>4. QED
    BY <1>2, <1>3

LEMMA LossByCut ==
  ASSUME TypeInv, LineageInv, NEW t \in Tokens, Usable(t), ~Usable(t)', now' = now,
         active' = active,
         NEW u, NEW S, DeleteGrants(u, S),
         session'[token[t].uid] = session[token[t].uid]
  PROVE  token[t].grant \in killed'
  <1> DEFINE g == token[t].grant
  <1>1. g \in Grants /\ grant[g] # NoRow
    BY UsableMeans DEF TokenRow
  <1>2. grant[g].user = token[t].user /\ grant[g].client = token[t].client
    BY <1>1, UsableMeans DEF LineageInv, GrantsFit, GrantFits, Carried
  <1>3. CASE token[t].user = u /\ token[t].client \in S
    BY <1>1, <1>2, <1>3 DEF DeleteGrants
  <1>4. CASE ~(token[t].user = u /\ token[t].client \in S)
    <2>1. token'[t] = token[t] /\ grant'[g] = grant[g]
      BY <1>1, <1>2, <1>4 DEF DeleteGrants
    <2>2. QED
      BY <2>1, UsableMeans, StaysUsable
  <1>5. QED
    BY <1>3, <1>4

LEMMA LossBySave ==
  ASSUME TypeInv, CapInv, OriginInv, NEW t \in Tokens, Usable(t), ~Usable(t)',
         NEW r \in Reqs, SaveSession(r)
  PROVE  StaleWrite(token[t])
  <1> USE DEF rows
  <1> DEFINE i == token[t].uid
             e == SessionExp(copy[r].loginTs)
  <1>1. /\ pc[r] = "session" /\ UNCHANGED <<now, token, grant, active>>
        /\ session' = [session EXCEPT ![aim[r].uid] = [copy[r] EXCEPT !.exp = e]]
        /\ copy[r] \in SessionRow /\ i \in Uids /\ DOMAIN session = Uids /\ now \in Nat
        /\ session[i] \in SessionRow /\ session[i] # NoRow /\ session[i].exp > now
        /\ i \in Uids
    BY UsableMeans DEF SaveSession, TypeInv, TypeOK, ReqOK, Authorizing, TokenRow
  <1>2. aim[r].uid = i
    BY <1>1, UsableMeans, StaysUsable
  <1>3. SameLogin(session[i], copy[r])
    BY <1>1, <1>2 DEF OriginInv, Authorizing
  <1>4. e > now
    <2>1. session[i].exp <= now + Idle /\ session[i].exp <= session[i].loginTs + Cap
      BY <1>1 DEF OriginInv, CapInv, Bounded, SessionRow
    <2>2. copy[r].loginTs = session[i].loginTs /\ copy[r].loginTs \in Nat /\ session[i].exp \in Nat
      BY <1>1, <1>3 DEF SameLogin, SessionRow
    <2>3. QED
      BY <1>1, <2>1, <2>2, TimesAssumption DEF SessionExp, Most, Least
  <1>5. PICK m : m = [copy[r] EXCEPT !.exp = e]
    OBVIOUS
  <1>6. m.user = copy[r].user /\ m.grants = copy[r].grants /\ m.exp = e
    BY <1>1, <1>5 DEF SessionRow
  <1>7. session'[i] = m
    BY <1>1, <1>2, <1>5
  <1>8. m # NoRow
    <2>1. m \in SessionRow
      BY <1>1, <1>4, <1>5, TimesAssumption DEF SessionRow, SessionExp, Most, Least
    <2>2. QED
      BY <2>1, RowsAssumption
  <1> HIDE DEF e
  <1>9. copy[r].grants[token[t].client] # token[t].grant
    <2> SUFFICES ASSUME copy[r].grants[token[t].client] = token[t].grant PROVE FALSE
      OBVIOUS
    <2>1. m.user = session[i].user /\ m.exp > now /\ m.grants[token[t].client] = token[t].grant
      BY <1>3, <1>4, <1>6 DEF SameLogin
    <2>2. QED
      BY <1>1, <1>7, <1>8, <2>1, UsableMeans, StaysUsable
  <1>10. QED
    BY <1>1, <1>2, <1>9 DEF StaleWrite

LEMMA LossBySlide ==
  ASSUME TypeInv, CapInv, OriginInv, NEW t \in Tokens, Usable(t), NEW r \in Reqs, SlideSession(r)
  PROVE  Usable(t)'
  <1> USE DEF rows
  <1> DEFINE i == token[t].uid
             j == held[r].uid
             e == Least(now + Idle, session[j].loginTs + Cap)
  <1>1. /\ UNCHANGED <<now, token, grant, active>> /\ j \in Uids /\ i \in Uids /\ now \in Nat
        /\ session[i] \in SessionRow /\ session[i] # NoRow /\ DOMAIN session = Uids
        /\ session[i].exp > now
    BY UsableMeans DEF SlideSession, TypeInv, TypeOK, ReqOK, Holding, TokenRow
  <1>2. \/ session' = session
        \/ session' = [session EXCEPT ![j] = [session[j] EXCEPT !.exp = e]]
    BY DEF SlideSession, Slid
  <1>3. CASE session'[i] = session[i]
    BY <1>1, <1>3, UsableMeans, StaysUsable
  <1>4. CASE j = i /\ session'[i] = [session[i] EXCEPT !.exp = e]
    <2>1. e > now /\ e \in Nat
      <3>1. session[i].exp <= now + Idle /\ session[i].exp <= session[i].loginTs + Cap
        BY <1>1 DEF OriginInv, CapInv, Bounded, SessionRow
      <3>2. session[i].loginTs \in Nat /\ session[i].exp \in Nat
        BY <1>1 DEF SessionRow
      <3>3. QED
        BY <1>1, <1>4, <3>1, <3>2, TimesAssumption DEF Least
    <2> HIDE DEF e
    <2>2. PICK m \in SessionRow : m = [session[i] EXCEPT !.exp = e]
      BY <1>1, <2>1 DEF SessionRow
    <2>3. m.user = session[i].user /\ m.grants = session[i].grants /\ m.exp = e /\ m # NoRow
      BY <1>1, <2>2, RowsAssumption DEF SessionRow
    <2>4. session'[i] = m
      BY <1>4, <2>2
    <2>5. /\ session'[i] # NoRow /\ session'[i].exp > now
          /\ session'[i].user = session[i].user
          /\ session'[i].grants[token[t].client] = token[t].grant
      BY <2>1, <2>3, <2>4, UsableMeans
    <2>6. QED
      BY <1>1, <2>5, UsableMeans, StaysUsable
  <1>5. QED
    BY <1>1, <1>2, <1>3, <1>4

LEMMA LossStep ==
  ASSUME TypeInv, KillInv, LineageInv, CapInv, OriginInv, [Next]_vars,
         NEW t \in Tokens, Usable(t), ~Usable(t)'
  PROVE  LossCause(t)
  <1> USE DEF rows
  <1> DEFINE k == token[t]
  <1>0. /\ k \in TokenRow /\ k # NoRow /\ k.grant \in Grants /\ k.user \in Users /\ k.uid \in Uids
        /\ grant[k.grant] # NoRow /\ active[k.user] /\ session[k.uid] # NoRow
        /\ session[k.uid].user = k.user
        /\ DOMAIN token = Tokens /\ DOMAIN grant = Grants /\ DOMAIN active = Users
        /\ DOMAIN session = Uids
    BY UsableMeans DEF TypeInv, TypeOK, TokenRow
  <1>a. ASSUME now' = now, token'[t] = k, grant'[k.grant] = grant[k.grant],
               session'[k.uid] = session[k.uid], active'[k.user]
        PROVE  FALSE
    BY <1>a, UsableMeans, StaysUsable
  <1>1. ASSUME NEW r \in Reqs, Authorize(r) PROVE LossCause(t)
    <2>1. CASE UNCHANGED <<now, rows, active>>
      BY <1>0, <1>a, <2>1
    <2>2. CASE MintGrant(r)
      <3>1. grant[held[r].grant] = NoRow
        BY <2>2 DEF MintGrant, KillInv
      <3>2. QED
        BY <1>0, <1>a, <2>2, <3>1 DEF MintGrant
    <2>3. CASE SaveCode(r)
      <3>1. token[held[r].id] = NoRow
        BY <2>3 DEF SaveCode, LineageInv, Beginning
      <3>2. QED
        BY <1>0, <1>a, <2>3, <3>1 DEF SaveCode
    <2>4. CASE SaveSession(r)
      BY <2>4, LossBySave DEF LossCause
    <2>5. QED
      BY <1>1, <2>1, <2>2, <2>3, <2>4 DEF Authorize, Login, AuthorizeRead, LoadGrant, MirrorSession
  <1>2. ASSUME NEW r \in Reqs, Exchange(r) PROVE LossCause(t)
    <2>1. ASSUME NEW s \in Tokens, Redeem(r, s) PROVE LossCause(t)
      BY <1>0, <1>a, <2>1 DEF Redeem
    <2>2. ASSUME NEW s \in Tokens, RedeemReplay(r, s) PROVE LossCause(t)
      BY <2>2, LossByGrant DEF RedeemReplay, Honoured, TokenLive, LossCause
    <2>3. ASSUME NEW s \in Tokens, IssueRefresh(r, s) PROVE LossCause(t)
      <3>1. token[s] = NoRow
        BY <2>3 DEF IssueRefresh, Fresh, LineageInv, Identified, AllMinted, Carried
      <3>2. QED
        BY <1>0, <1>a, <2>3, <3>1 DEF IssueRefresh
    <2>4. CASE Consume(r)
      <3> DEFINE s == held[r].id
      <3>1. /\ pc[r] = "consume" /\ UNCHANGED <<now, active, session, grant>> /\ ConsumeRow(s)
            /\ s \in Tokens
        BY <2>4, ConsumedIsCarried DEF Consume
      <3>2. CASE s = t
        BY <3>1, <3>2 DEF LossCause
      <3>3. CASE s # t /\ token[s] # NoRow /\ token[s].consumed
        BY <3>1, <3>3, LossByGrant DEF ConsumeRow, LossCause
      <3>4. CASE s # t /\ (token[s] = NoRow \/ ~token[s].consumed)
        BY <1>0, <1>a, <3>1, <3>4 DEF ConsumeRow
      <3>5. QED
        BY <3>2, <3>3, <3>4
    <2>5. CASE SlideSession(r)
      BY <2>5, LossBySlide
    <2>6. CASE DropGrant(r)
      <3>1. CASE held[r].grant = k.grant
        BY <2>6, <3>1 DEF DropGrant, ReplayUnder, LossCause
      <3>2. CASE held[r].grant # k.grant
        BY <1>0, <1>a, <2>6, <3>2 DEF DropGrant
      <3>3. QED
        BY <3>1, <3>2
    <2>7. QED
      BY <1>2, <2>1, <2>2, <2>3, <2>4, <2>5, <2>6 DEF Exchange
  <1>3. ASSUME NEW r \in Reqs, Revoke(r) PROVE LossCause(t)
    <2>1. ASSUME NEW u \in Users, NEW i \in Uids, RevokeSession(r, u, i) PROVE LossCause(t)
      BY <2>1, LossBySessions DEF RevokeSession, LossCause
    <2>2. CASE RevokeOtherSessions(r)
      BY <2>2, LossBySessions DEF RevokeOtherSessions, LossCause
    <2>3. CASE RevokeAllForUser(r)
      <3>1. CASE aim[r].user = k.user
        BY <1>0, <2>3, <3>1 DEF RevokeAllForUser, SessionsOf, LossCause
      <3>2. CASE aim[r].user # k.user
        <4>1. session'[k.uid] = session[k.uid]
          BY <1>0, <2>3, <3>2 DEF RevokeAllForUser, SessionsOf
        <4>2. QED
          BY <2>3, <4>1, LossByCut DEF RevokeAllForUser, LossCause
      <3>3. QED
        BY <3>1, <3>2
    <2>4. CASE Destroy(r)
      BY <1>0, <1>a, <2>4 DEF Destroy, LossCause
    <2>5. ASSUME NEW u \in Users, LockUser(r, u) PROVE LossCause(t)
      BY <1>0, <1>a, <2>5 DEF LockUser, LossCause
    <2>6. CASE UNCHANGED <<now, rows, active>>
      BY <1>0, <1>a, <2>6
    <2>7. QED
      BY <1>3, <2>1, <2>2, <2>3, <2>4, <2>5, <2>6 DEF Revoke, ResolveCurrent, LogoutMark,
         LogoutAll, UnlistSession, UnlistOtherSessions
  <1>4. ASSUME NEW u \in Users, UnlockUser(u) PROVE LossCause(t)
    BY <1>0, <1>a, <1>4 DEF UnlockUser
  <1>5. ASSUME NEW u \in Users, NEW S \in SUBSET Clients, RevokeForUserInProjects(u, S)
        PROVE  LossCause(t)
    BY <1>5, LossByCut DEF RevokeForUserInProjects, LossCause
  <1>6. CASE Cleanup
    <2>1. /\ ~(k.exp < now) /\ ~(session[k.uid].exp < now) /\ ~(grant[k.grant].exp < now)
      <3>1. /\ k.exp > now /\ session[k.uid].exp > now /\ grant[k.grant].exp > now
            /\ k.exp \in Nat /\ session[k.uid].exp \in Nat /\ grant[k.grant].exp \in Nat
            /\ now \in Nat
        BY <1>0, UsableMeans DEF TypeInv, TypeOK, TokenRow, SessionRow, GrantRow
      <3>2. QED
        BY <3>1
    <2>2. QED
      BY <1>0, <1>6, <1>a, <2>1 DEF Cleanup, DeleteTokens
  <1>7. CASE Tick
    <2>1. now' # now
      BY <1>7 DEF Tick, TypeInv, TypeOK
    <2>2. QED
      BY <2>1 DEF LossCause
  <1>8. ASSUME NEW r \in Reqs, Abort(r) PROVE LossCause(t)
    BY <1>0, <1>8, <1>a DEF Abort
  <1>9. CASE UNCHANGED vars
    BY <1>0, <1>9, <1>a DEF vars
  <1>10. QED
    BY <1>1, <1>2, <1>3, <1>4, <1>5, <1>6, <1>7, <1>8, <1>9 DEF Next

\* A token that works stops working only for a cause that concerns it: the clock,
\* its own use, a replay under its grant, a revocation of its grant, its session or
\* its user, or a session written back by a request that had read it before.
THEOREM LossesHaveCauses == Spec => LossHasCause
  <1> DEFINE Inv == TypeInv /\ KillInv /\ RememberInv /\ LineageInv /\ CapInv /\ OriginInv
  <1>1. Init => Inv
    BY TypeInvInit, KillInvInit, LineageInit DEF Init, CapInv, OriginInv, Authorizing
  <1>2. Inv /\ [Next]_vars => Inv'
    BY TypeInvStep, KillInvStep, RememberStep, LineageStep, CapInvStep, OriginStep
  <1>3. Inv /\ [Next]_vars => [\A t \in Tokens : (Usable(t) /\ ~Usable(t)') => LossCause(t)]_vars
    BY LossStep
  <1>4. QED
    BY <1>1, <1>2, <1>3, PTL DEF Spec, LossHasCause, LossCause
=============================================================================
