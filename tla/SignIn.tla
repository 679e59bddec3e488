-------------------------------- MODULE SignIn --------------------------------
(***************************************************************************)
(* One account signs in and changes its password:                           *)
(* modules/auth-oidc/interaction.controller.ts with login.service.ts and    *)
(* stage.service.ts, modules/users/password-reset.service.ts (mailed links), *)
(* temp-password.service.ts and the change of password in me.service.ts.    *)
(*                                                                         *)
(* A password is the number of its version: 0 first, one more with each     *)
(* change.  Requests go statement by statement; a request is shorter than   *)
(* the unit of time.  A stage ticket is a signed cookie, so whoever got one *)
(* may use it again; the uid in it is compared with that of the URL, which  *)
(* the same client writes, and the interaction that ends is that of the     *)
(* cookie: the uid decides nothing and is left out.                         *)
(*                                                                         *)
(* Left out: wrong passwords and codes and the waits they cause (Backoff),  *)
(* the codes of the factor (SecondFactor), locking (AdminRoster), tokens    *)
(* (OidcStore), audit rows and events, which come last and decide nothing.  *)
(***************************************************************************)
EXTENDS Naturals, FiniteSets

CONSTANTS
  Reqs,            \* requests in flight at once
  TicketTTL,       \* 5 minutes
  InteractionTTL,  \* 30 minutes
  Kept,            \* bound: tickets the browsers hold, results, sessions
  MaxPw            \* bound: changes of the password

VARIABLES
  account,   \* the row of users: pw, must (change it), factor
  tickets,   \* stage tickets handed out
  results,   \* interactions with a login result the browser has not resumed yet
  sessions,  \* the version each rests on; late: it was no longer the account's at its birth
  req,       \* requests: next statement and what they hold
  revoked    \* history: versions whose change has been followed by a revocation

vars == <<account, tickets, results, sessions, req, revoked>>

\* What a sign-in has shown: which version and how long ago; what it owed then,
\* what it did.  Time goes by in ages, which no longer grow once nothing is left
\* that could depend on them.
Debts == {"change", "factor"}
Ages == 0..2 * TicketTTL + InteractionTTL + 1
Proof == [pw: 0..MaxPw, age: Ages, owes: SUBSET Debts, did: SUBSET Debts]
NoProof == [pw |-> 0, age |-> 0, owes |-> {}, did |-> {}]
StageSteps == {"change_password", "mfa", "mfa_enroll"}
Idle == [at |-> "idle", proof |-> NoProof]

TypeOK ==
  /\ account \in [pw: 0..MaxPw, must: BOOLEAN,
                  factor: {"breakglass", "off", "required", "on"}]
  /\ tickets \subseteq [step: StageSteps, age: Ages, proof: Proof]
  /\ results \subseteq [age: Ages, proof: Proof]
  /\ sessions \subseteq [pw: 0..MaxPw, late: BOOLEAN]
  /\ req \in [Reqs -> [at: {"idle", "decide", "finish", "set", "enrol", "revoke",
                             "keepOne", "tryRevoke"},
                       proof: Proof]]
  /\ revoked \subseteq 0..MaxPw

Init ==
  /\ account \in [pw: {0}, must: BOOLEAN,
                  factor: {"breakglass", "off", "required", "on"}]
  /\ tickets = {} /\ results = {} /\ sessions = {}
  /\ req = [r \in Reqs |-> Idle] /\ revoked = {}
-----------------------------------------------------------------------------
Goto(r, step)   == req' = [req EXCEPT ![r].at = step]
Done(r)         == req' = [req EXCEPT ![r] = Idle]
Begin(r, step, p) ==
  /\ req[r] = Idle
  /\ req' = [req EXCEPT ![r] = [Idle EXCEPT !.at = step, !.proof = p]]

\* A bounded set: x comes in, and others may have to go.
Keep(S, x) == {K \cup {x} : K \in {L \in SUBSET S : Cardinality(L) < Kept}}

Breakglass == account.factor = "breakglass"
Owed ==
  (IF account.must THEN {"change"} ELSE {})
    \cup (IF account.factor \in {"on", "required"} THEN {"factor"} ELSE {})

\* validate: the row as it is now and the version the user typed.
Validate(r) ==
  /\ Begin(r, "decide", [NoProof EXCEPT !.pw = account.pw, !.owes = Owed])
  /\ UNCHANGED <<account, tickets, results, sessions, revoked>>

Straight(p) == "done"   \* (mutation) what comes after the change is forgotten
Misnamed(p) == IF account.factor = "on" THEN "totp" ELSE "done"   \* (mutation) nobody serves it
\* postPasswordStep, with the factor as it is now.
PostPasswordStep(p) ==
  CASE account.factor = "on"       -> "mfa"
    [] account.factor = "required" -> "mfa_enroll"
    [] OTHER                       -> "done"
\* resolveNext: must_change_password as validate read it.
ResolveNext(p) ==
  IF "change" \in p.owes \ p.did THEN "change_password" ELSE PostPasswordStep(p)

\* advance: a ticket for the next step, or the end.
Decide(r) ==
  LET p == req[r].proof  next == ResolveNext(p) IN
  /\ req[r].at = "decide"
  /\ IF next = "done" THEN Goto(r, "finish") /\ UNCHANGED tickets
     ELSE /\ tickets' \in Keep(tickets, [step |-> next, age |-> 0, proof |-> p])
          /\ Done(r)
  /\ UNCHANGED <<account, results, sessions, revoked>>

\* interactionResult.  The browser's interaction may be a fresh one.
Finish(r) ==
  /\ req[r].at = "finish"
  /\ results' \in Keep(results, [age |-> 0, proof |-> req[r].proof])
  /\ Done(r)
  /\ UNCHANGED <<account, tickets, sessions, revoked>>

\* The provider resumes the authorization and makes the session.
Resume(w) ==
  /\ w.age <= InteractionTTL
  /\ results' = results \ {w}
  /\ sessions' \in Keep(sessions, [pw |-> w.proof.pw, late |-> w.proof.pw # account.pw])
  /\ UNCHANGED <<account, tickets, req, revoked>>
-----------------------------------------------------------------------------
AnyStep(t, step) == t.age <= TicketTTL     \* (mutation) a ticket for any step
AnyAge(t, step)  == t.step = step    \* (mutation) a ticket of any age
\* requireStage and StageService.verify.
Admits(t, step) == t.step = step /\ t.age <= TicketTTL

\* The handler of a step starts; mfa and mfa_enroll with a right code.
TakeStep(r, t) ==
  /\ \E step \in StageSteps :
       /\ Admits(t, step)
       /\ CASE step = "change_password" -> Begin(r, "set", t.proof)
            [] step = "mfa"        -> Begin(r, "finish", [t.proof EXCEPT !.did = @ \cup {"factor"}])
            [] step = "mfa_enroll" -> Begin(r, "enrol", [t.proof EXCEPT !.did = @ \cup {"factor"}])
  /\ UNCHANGED <<account, tickets, results, sessions, revoked>>

\* confirmEnroll
Enrol(r) ==
  /\ req[r].at = "enrol"
  /\ account' = [account EXCEPT !.factor = "on"]
  /\ Goto(r, "finish")
  /\ UNCHANGED <<tickets, results, sessions, revoked>>

\* The same columns in setPassword, setManual, issue of a temporary one, redeem.
NewPassword(must) ==
  /\ account.pw < MaxPw
  /\ account' = [account EXCEPT !.pw = @ + 1, !.must = must]

\* setPassword of the forced change: then everything is revoked.
SetPassword(r) ==
  /\ req[r].at = "set"
  /\ NewPassword(FALSE)
  /\ req' = [req EXCEPT ![r].at = "revoke", ![r].proof.pw = account.pw + 1,
                        ![r].proof.did = @ \cup {"change"}]
  /\ UNCHANGED <<tickets, results, sessions, revoked>>

\* me.changePassword: the present password, then the session of the cookie is kept.
SelfChange(r) ==
  /\ NewPassword(FALSE)
  /\ Begin(r, "keepOne", [NoProof EXCEPT !.pw = account.pw + 1, !.did = {"change"}])
  /\ UNCHANGED <<tickets, results, sessions, revoked>>

\* setManual, with or without the duty to change it; issue, always with it.
ManualPassword == ~Breakglass /\ \E must \in BOOLEAN : NewPassword(must)
TemporaryPassword == ~Breakglass /\ NewPassword(TRUE)

\* resetPassword of an administrator: by hand, or a temporary one by mail.
AdminReset(r) ==
  /\ ManualPassword \/ TemporaryPassword
  /\ Begin(r, "revoke", NoProof)
  /\ UNCHANGED <<tickets, results, sessions, revoked>>

Spared(s) == TRUE      \* (mutation) nothing is deleted
Survives(s) == FALSE
\* revokeAllForUser: the rows that carry the account's id.  A ticket is in a
\* cookie and a login result inside the interaction: neither is among them.
RevokeAll(r) ==
  /\ req[r].at \in {"revoke", "tryRevoke"}
  /\ sessions' = {s \in sessions : Survives(s)}
  /\ revoked' = revoked \cup {account.pw}
  /\ IF "change" \in req[r].proof.did THEN Goto(r, "decide") ELSE Done(r)
  /\ UNCHANGED <<account, tickets, results>>

\* revokeOtherSessions.  The session that is kept has shown the present password.
RevokeOthers(r) ==
  /\ req[r].at = "keepOne"
  /\ \E K \in {{}} \cup {{s} : s \in sessions} :
       sessions' = {[s EXCEPT !.pw = IF @ < req[r].proof.pw THEN req[r].proof.pw ELSE @] : s \in K}
  /\ revoked' = revoked \cup {req[r].proof.pw}
  /\ Done(r)
  /\ UNCHANGED <<account, tickets, results>>
-----------------------------------------------------------------------------
\* redeem of a mailed link (ResetLink), once it is committed; the revocation
\* after it may fail unnoticed.
Redeem(r) ==
  /\ ~Breakglass
  /\ NewPassword(FALSE)
  /\ Begin(r, "tryRevoke", NoProof)
  /\ UNCHANGED <<tickets, results, sessions, revoked>>
-----------------------------------------------------------------------------
\* A statement fails, the gate refuses (isClientLoginAllowed: GroupAccess), or the
\* server stops: what was committed stays.
Abort(r) ==
  /\ req[r] # Idle
  /\ Done(r)
  /\ UNCHANGED <<account, tickets, results, sessions, revoked>>

Older(x, top) == IF x > top THEN x ELSE x + 1
Tick ==
  /\ \A r \in Reqs : req[r] = Idle
  /\ tickets' = {[t EXCEPT !.age = Older(@, TicketTTL), !.proof.age = Older(@, 2 * TicketTTL + InteractionTTL)] : t \in tickets}
  /\ results' = {[w EXCEPT !.age = Older(@, InteractionTTL), !.proof.age = Older(@, 2 * TicketTTL + InteractionTTL)] : w \in results}
  /\ UNCHANGED <<account, sessions, req, revoked>>

\* password_max_age_days have passed (isExpired).
Age ==
  /\ ~account.must
  /\ account' = [account EXCEPT !.must = TRUE]
  /\ UNCHANGED <<tickets, results, sessions, req, revoked>>

Interaction(r) ==
  \/ Validate(r) \/ Decide(r) \/ Finish(r) \/ Enrol(r)
  \/ \E t \in tickets : TakeStep(r, t)
Passwords(r) == SetPassword(r) \/ SelfChange(r) \/ AdminReset(r) \/ Redeem(r)
                  \/ RevokeAll(r) \/ RevokeOthers(r)
Next ==
  \/ \E r \in Reqs : Interaction(r) \/ Passwords(r) \/ Abort(r)
  \/ \E w \in results : Resume(w)
  \/ Tick \/ Age

Spec == Init /\ [][Next]_vars
-----------------------------------------------------------------------------
\* Whatever tickets a client keeps and uses again, a sign-in ends only after
\* every step that was due when its password was checked: the forced change, the
\* second factor.  (resolveNext, postPasswordStep, the step a ticket is bound to.)
NothingOwed == \A w \in results : w.proof.owes \subseteq w.proof.did

\* Tickets can be chained and used again, but not for ever: the password a login
\* result rests on was shown at most two tickets before, and a session is made
\* of it while the interaction lives.  (The life of a ticket, the order of the steps.)
CheckedRecently ==
  \A w \in results : w.age <= InteractionTTL => w.proof.age <= 2 * TicketTTL + w.age

\* What a login result rests on: both of them.
SignInEarned == NothingOwed /\ CheckedRecently

\* After a password was changed and the sessions were revoked, the only sessions
\* of an older password are those of sign-ins that were on their way: revoking
\* reaches neither tickets nor login results.
OldSessionWasLate ==
  \A s \in sessions, v \in revoked : s.pw < v => s.late

\* A forced change is made by somebody who showed a password within the life of
\* one ticket, for a break-glass account too, which nothing else reaches but its
\* own hands.  (requireStage; assertNotBreakglass; issue and setManual.)
ProvedChange ==
  account'.pw # account.pw =>
    \E r \in Reqs : \/ req[r].at = "set" /\ req[r].proof.age <= TicketTTL
                   \/ req'[r].at = "keepOne"
                   \/ account.factor # "breakglass"
ChangeHasProof == [][ProvedChange]_vars
=============================================================================
