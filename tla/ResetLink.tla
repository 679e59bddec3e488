------------------------------- MODULE ResetLink -------------------------------
(***************************************************************************)
(* The mailed links that set a password: modules/users/                      *)
(* password-reset.service.ts, asked for and redeemed through modules/        *)
(* auth-oidc/forgot-password.controller.ts.  One account, which may get      *)
(* locked or deleted.  What a redemption does to sessions is in SignIn; the  *)
(* waits are in Backoff.                                                     *)
(***************************************************************************)
EXTENDS Naturals, FiniteSets

CONSTANTS Clients, Links   \* requests in flight, links to be mailed

VARIABLES
  links,    \* rows of password_reset_tokens: none yet, live, used (or expired)
  gone,     \* the account is deleted or locked
  doing,    \* requests: next statement, the link they redeem, the links they
            \* saw when they disabled the old ones (history)
  uses,     \* history: how often each link has set a password
  newer     \* history: for each link, those inserted by requests that began after it was there

vars == <<links, gone, doing, uses, newer>>

Resting == [at |-> "idle", link |-> {}, seen |-> {}]

TypeOK ==
  /\ links \in [Links -> {"none", "live", "used"}]
  /\ gone \in BOOLEAN
  /\ doing \in [Clients -> [at: {"idle", "disable", "insert", "redeem"},
                            link: SUBSET Links, seen: SUBSET Links]]
  /\ uses \in [Links -> 0..Cardinality(Clients)]
  /\ newer \in [Links -> SUBSET Links]

Init ==
  /\ links = [l \in Links |-> "none"] /\ gone = FALSE
  /\ doing = [c \in Clients |-> Resting]
  /\ uses = [l \in Links |-> 0] /\ newer = [l \in Links |-> {}]
-----------------------------------------------------------------------------
Redeeming(l) == \E c \in Clients : doing[c].at = "redeem" /\ l \in doing[c].link
NotLocked(l) == FALSE   \* (mutation) no FOR UPDATE
RowLocked(l) == Redeeming(l)

\* forgot and the first statement of issue: an account that is there.
Ask(c) ==
  /\ ~gone /\ doing[c] = Resting
  /\ doing' = [doing EXCEPT ![c].at = "disable"]
  /\ UNCHANGED <<links, gone, uses, newer>>

KeptLive == links   \* (mutation)
Disabled == [l \in Links |-> IF links[l] = "live" THEN "used" ELSE links[l]]

\* issue: the UPDATE waits for the rows that are being redeemed.
DisableOld(c) ==
  /\ doing[c].at = "disable"
  /\ \A l \in Links : links[l] = "live" => ~RowLocked(l)
  /\ links' = Disabled
  /\ doing' = [doing EXCEPT ![c].at = "insert", ![c].seen = {l \in Links : links[l] # "none"}]
  /\ UNCHANGED <<gone, uses, newer>>

\* ... the INSERT; the mail that carries the link is queued.
InsertLink(c) ==
  /\ doing[c].at = "insert"
  /\ \E l \in Links :
       /\ links[l] = "none"
       /\ links' = [links EXCEPT ![l] = "live"]
       /\ newer' = [k \in Links |-> IF k \in doing[c].seen THEN newer[k] \cup {l} ELSE newer[k]]
  /\ doing' = [doing EXCEPT ![c] = Resting]
  /\ UNCHANGED <<gone, uses>>

\* redeem: BEGIN, SELECT ... FOR UPDATE of a link that is neither used nor expired.
TakeLink(c, l) ==
  /\ doing[c] = Resting
  /\ links[l] = "live" /\ ~RowLocked(l)
  /\ doing' = [doing EXCEPT ![c].at = "redeem", ![c].link = {l}]
  /\ UNCHANGED <<links, gone, uses, newer>>

MarkUsed(l) == [links EXCEPT ![l] = "used"]
\* ... the password (unless the account was deleted by then), used_at, COMMIT.
Redeem(c) ==
  /\ doing[c].at = "redeem"
  /\ \E l \in doing[c].link :
       /\ links' = MarkUsed(l)
       /\ uses' = [uses EXCEPT ![l] = IF @ < Cardinality(Clients) THEN @ + 1 ELSE @]
  /\ doing' = [doing EXCEPT ![c] = Resting]
  /\ UNCHANGED <<gone, newer>>

\* A statement fails, or the server stops: an open transaction is undone.
Abort(c) ==
  /\ doing[c] # Resting
  /\ doing' = [doing EXCEPT ![c] = Resting]
  /\ UNCHANGED <<links, gone, uses, newer>>

Expire(l) ==
  /\ links[l] = "live" /\ ~RowLocked(l)
  /\ links' = [links EXCEPT ![l] = "used"]
  /\ UNCHANGED <<gone, doing, uses, newer>>

\* Deleted or locked, and back again.
Toggle == gone' = ~gone /\ UNCHANGED <<links, doing, uses, newer>>

Next ==
  \/ \E c \in Clients : \/ Ask(c) \/ DisableOld(c) \/ InsertLink(c) \/ Redeem(c) \/ Abort(c)
                        \/ \E l \in Links : TakeLink(c, l)
  \/ \E l \in Links : Expire(l)
  \/ Toggle

Spec == Init /\ [][Next]_vars
-----------------------------------------------------------------------------
\* A link sets a password once, in however many requests it is sent together.
LinkOnce == \A l \in Links : uses[l] <= 1

\* Whoever asked for a link has no older one lying about: a link that was there
\* when a later request began to disable is dead once that request has inserted its own.
OldLinksDisabled == \A l \in Links : newer[l] # {} => links[l] = "used"

\* A link in a mailbox sets the password once, and none that a later request found there
\* works after that request has inserted its own.  Two requests at the same moment may
\* both find no other link, and leave two that work.
LinksSound == LinkOnce /\ OldLinksDisabled
=============================================================================
