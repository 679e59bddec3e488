----------------------------- MODULE SecondFactor -----------------------------
(***************************************************************************)
(* The second factor of one account: modules/auth-oidc/mfa.service.ts, with *)
(* its callers in modules/me/me.service.ts (setup, enable, disable) and     *)
(* modules/auth-oidc/interaction.controller.ts (the steps mfa, mfa_enroll). *)
(*                                                                         *)
(* Every SQL statement is a transaction of its own, one action each.  The   *)
(* secret is read, the code is compared in the process, and a later         *)
(* statement writes to whatever row the account has by then.                *)
(*                                                                         *)
(* Left out: wrong codes (they change nothing here; the waits they cause    *)
(* belong to the rate limit), the password steps before, audit rows, and   *)
(* scripts/enroll-mfa.js, which an operator runs and which asks nothing.    *)
(***************************************************************************)
EXTENDS Naturals, FiniteSets

CONSTANTS
  Reqs,      \* requests in flight at once
  Secrets,   \* TOTP secrets to be generated
  Codes,     \* recovery codes to be generated
  PerSet,    \* recovery codes of an enrolment (10)
  Steps,     \* TOTP steps of 30 seconds (time / 30)
  None

ASSUME FactorAssumption ==
  /\ Secrets \cup Codes \subseteq Nat /\ Secrets \cap Codes = {}
  /\ PerSet \in Nat \ {0} /\ Steps \subseteq Nat \ {0} /\ IsFiniteSet(Reqs)
  /\ None \notin [secret: Secrets, enabled: BOOLEAN, last: Nat]
  /\ None \notin [of: Secrets \cup Codes, step: Nat]

VARIABLES
  factor,     \* the row of mfa_totp
  recovery,   \* rows of mfa_recovery that are not used
  pc, op, held, inserted,   \* requests: next statement, operation, the code
                            \* presented, how many recovery codes it inserted
  minted,     \* history: secrets and recovery codes generated
  spent,      \* history: codes that were accepted
  twice,      \* history: codes that a sign-in or a disabling accepted again
  forgotten,  \* history: secrets whose last step was deleted, reset or put back
  overtaken   \* history: requests that were about to generate a secret while
              \* another one turned the factor on

rows    == <<factor, recovery>>
history == <<minted, spent, twice, forgotten>>
vars    == <<rows, pc, op, held, inserted, history, overtaken>>

Factor == [secret: Secrets, enabled: BOOLEAN, last: Nat]   \* last: 0 for NULL
\* What the user types: the code of a secret at a step, or a recovery code.
Code   == [of: Secrets \cup Codes, step: Nat]

TypeOK ==
  /\ factor \in Factor \cup {None}
  /\ recovery \subseteq Codes
  /\ pc \in [Reqs -> {"idle", "begin", "confirm", "wipe", "insert",
                      "stamp", "use", "dropFactor", "dropCodes"}]
  /\ op \in [Reqs -> {"enrol", "login", "disable"} \cup {None}]
  /\ held \in [Reqs -> Code \cup {None}]
  /\ \A r \in Reqs : pc[r] \in {"confirm", "stamp", "use", "dropFactor"} => held[r] \in Code
  /\ inserted \in [Reqs -> Nat]
  /\ minted \subseteq Secrets \cup Codes
  /\ spent \subseteq Code /\ twice \subseteq Code
  /\ forgotten \subseteq Secrets /\ overtaken \subseteq Reqs

Init ==
  /\ factor = None /\ recovery = {}
  /\ pc = [r \in Reqs |-> "idle"] /\ op = [r \in Reqs |-> None]
  /\ held = [r \in Reqs |-> None] /\ inserted = [r \in Reqs |-> 0]
  /\ minted = {} /\ spent = {} /\ twice = {} /\ forgotten = {} /\ overtaken = {}
-----------------------------------------------------------------------------
Enabled == factor # None /\ factor.enabled
\* Ids are handed out in order: which one is fresh never matters.
Fresh(S, x) == x \in S \ minted /\ \A y \in S \ minted : x <= y

Goto(r, step) == pc' = [pc EXCEPT ![r] = step]
Finish(r) ==
  /\ Goto(r, "idle")
  /\ op' = [op EXCEPT ![r] = None]
  /\ held' = [held EXCEPT ![r] = None]
  /\ inserted' = [inserted EXCEPT ![r] = 0]
  /\ overtaken' = overtaken \ {r}
Enter(r, o, step, code) ==
  /\ pc[r] = "idle"
  /\ op' = [op EXCEPT ![r] = o] /\ held' = [held EXCEPT ![r] = code]
  /\ Goto(r, step)
  /\ UNCHANGED <<inserted, overtaken>>

WrongCode(step) == [of |-> factor.secret, step |-> None]   \* (mutation) null goes on
\* The step a code matches.  That it is one of the three around the present one
\* (window = 1) is left open: any step may come at any time, late ones too.
TotpCode(step) == [of |-> factor.secret, step |-> step]

Spend(c) ==
  /\ spent' = spent \cup {c}
  /\ twice' = IF c \in spent THEN twice \cup {c} ELSE twice
-----------------------------------------------------------------------------
(* Enrolment: a secret, a code that confirms it, recovery codes. *)

AlwaysAllowed == TRUE   \* (mutation)
\* mfaSetup refuses while the factor is on; the sign-in offers mfa_enroll only
\* while it is off (postPasswordStep).
EnrolAllowed == ~Enabled

AskEnrol(r) ==
  /\ EnrolAllowed
  /\ Enter(r, "enrol", "begin", None)
  /\ UNCHANGED <<rows, history>>

\* beginEnroll.  The ticket of the step mfa_enroll may be used again.
BeginEnrol(r) ==
  /\ pc[r] = "begin"
  /\ \E s \in Secrets :
       /\ Fresh(Secrets, s)
       /\ minted' = minted \cup {s}
       /\ factor' = [secret |-> s, enabled |-> FALSE, last |-> 0]
  /\ forgotten' = IF factor = None THEN forgotten ELSE forgotten \cup {factor.secret}
  /\ Finish(r) \/ UNCHANGED <<pc, op, held, inserted, overtaken>>
  /\ UNCHANGED <<recovery, spent, twice>>

\* confirmEnroll, first statement and the comparison.
ReadForConfirm(r, step) ==
  /\ factor # None
  /\ Enter(r, "enrol", "confirm", TotpCode(step))
  /\ UNCHANGED <<rows, history>>

\* ... second statement: whatever the row holds by now.
ConfirmEnrol(r) ==
  /\ pc[r] = "confirm"
  /\ LET k == held[r].step IN
       /\ factor' = IF factor = None THEN None
                    ELSE [factor EXCEPT !.enabled = TRUE, !.last = k]
       /\ forgotten' = IF factor # None /\ k < factor.last
                       THEN forgotten \cup {factor.secret} ELSE forgotten
  /\ spent' = spent \cup {held[r]}
  /\ overtaken' = IF factor = None THEN overtaken
                  ELSE overtaken \cup {q \in Reqs : pc[q] = "begin"}
  /\ Goto(r, "wipe")
  /\ UNCHANGED <<recovery, op, held, inserted, minted, twice>>

NoWipe == recovery   \* (mutation)
Wiped == {}
WipeCodes(r) ==
  /\ pc[r] = "wipe"
  /\ recovery' = Wiped
  /\ Goto(r, "insert")
  /\ UNCHANGED <<factor, op, held, inserted, history, overtaken>>

InsertCode(r) ==
  /\ pc[r] = "insert"
  /\ \E c \in Codes :
       /\ Fresh(Codes, c)
       /\ minted' = minted \cup {c}
       /\ recovery' = recovery \cup {c}
  /\ IF inserted[r] + 1 = PerSet THEN Finish(r)
     ELSE /\ inserted' = [inserted EXCEPT ![r] = @ + 1]
          /\ UNCHANGED <<pc, op, held, overtaken>>
  /\ UNCHANGED <<factor, spent, twice, forgotten>>
-----------------------------------------------------------------------------
(* A code is asked for: by the step mfa of a sign-in, or by mfaDisable. *)

Accept(r) == IF op[r] = "disable" THEN Goto(r, "dropFactor") /\ UNCHANGED <<op, held, inserted, overtaken>>
             ELSE Finish(r)

ReadForVerify(r, o, step) ==
  /\ factor # None
  /\ Enter(r, o, "stamp", TotpCode(step))
  /\ UNCHANGED <<rows, history>>

OlderOrSame(k) == factor # None /\ factor.last <= k   \* (mutation)
Newer(k) == factor # None /\ factor.last < k

\* verifyTotp, second statement: the UPDATE finds a row only for a newer step.
Stamp(r) ==
  /\ pc[r] = "stamp"
  /\ \/ /\ Newer(held[r].step)
        /\ factor' = [factor EXCEPT !.last = held[r].step]
        /\ Spend(held[r])
        /\ Accept(r)
     \/ /\ ~Newer(held[r].step)
        /\ Finish(r)
        /\ UNCHANGED <<factor, spent, twice>>
  /\ UNCHANGED <<recovery, minted, forgotten>>

\* consumeRecoveryCode: the unused rows, and the one the code matches.
ReadForRecovery(r, o, c) ==
  /\ c \in recovery
  /\ Enter(r, o, "use", [of |-> c, step |-> 0])
  /\ UNCHANGED <<rows, history>>

UsableAsRead(c) == TRUE   \* (mutation)
Unused(c) == c \in recovery
UseCode(r) ==
  /\ pc[r] = "use"
  /\ \/ /\ Unused(held[r].of)
        /\ recovery' = recovery \ {held[r].of}
        /\ Spend(held[r])
        /\ Accept(r)
     \/ /\ ~Unused(held[r].of)
        /\ Finish(r)
        /\ UNCHANGED <<recovery, spent, twice>>
  /\ UNCHANGED <<factor, minted, forgotten>>

DropFactor(r) ==
  /\ pc[r] = "dropFactor"
  /\ factor' = None
  /\ forgotten' = IF factor = None THEN forgotten ELSE forgotten \cup {factor.secret}
  /\ Goto(r, "dropCodes")
  /\ UNCHANGED <<recovery, op, held, inserted, minted, spent, twice, overtaken>>

DropCodes(r) ==
  /\ pc[r] = "dropCodes"
  /\ recovery' = {}
  /\ Finish(r)
  /\ UNCHANGED <<factor, history>>
-----------------------------------------------------------------------------
\* A statement fails, the ticket runs out, or the server stops.
Abort(r) ==
  /\ pc[r] # "idle"
  /\ Finish(r)
  /\ UNCHANGED <<rows, history>>

Enrol(r) ==
  \/ AskEnrol(r) \/ BeginEnrol(r) \/ ConfirmEnrol(r) \/ WipeCodes(r) \/ InsertCode(r)
  \/ \E step \in Steps : ReadForConfirm(r, step)

Check(r) ==
  \/ \E o \in {"login", "disable"} :
       \/ \E step \in Steps : ReadForVerify(r, o, step)
       \/ \E c \in Codes : ReadForRecovery(r, o, c)
  \/ Stamp(r) \/ UseCode(r) \/ DropFactor(r) \/ DropCodes(r)

Next == \E r \in Reqs : Enrol(r) \/ Check(r) \/ Abort(r)

Spec == Init /\ [][Next]_vars
-----------------------------------------------------------------------------
\* A code lets somebody through once.  A TOTP code is accepted again only if
\* the account's record of its last step was lost to a new enrolment, to a
\* disabling, or to a confirmation that was overtaken; a recovery code never.
\* (verifyTotp and consumeRecoveryCode against everything else.)
CodeOnce == \A c \in twice : c.of \in forgotten

\* A factor that is on goes off only for somebody who presented a code of the
\* account, or by an enrolment that was already on its way when the factor was
\* turned on and so never saw it on.  (mfaSetup, the ticket mfa_enroll, mfaDisable.)
FactorOffHasCause ==
  [][(Enabled /\ ~Enabled') =>
       \E r \in Reqs : \/ pc[r] = "dropFactor" /\ held[r] \in spent
                       \/ pc[r] = "begin" /\ r \in overtaken]_vars

\* Enrolments in flight together leave codes of each of them, never of an
\* earlier one: the account has at most one set for each request.
RecoveryBounded == Cardinality(recovery) <= PerSet * Cardinality(Reqs)

\* mfa.service.ts:79: the factor is on only once a code of its secret was right.
EnabledWasConfirmed == Enabled => \E c \in spent : c.of = factor.secret
=============================================================================
