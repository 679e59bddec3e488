-------------------------------- MODULE Warnings --------------------------------
(***************************************************************************)
(* Accounts that end: modules/users/expiry.service.ts, the cron that every   *)
(* instance runs at the full hour, against UsersService.setExpiry,           *)
(* unlocking and sign-ins.                                                  *)
(*                                                                         *)
(* A run locks whoever is past the date and ends their sessions one by one.  *)
(* It then marks whoever is near it, in one UPDATE whose sub-select sees the *)
(* rows as they were when it began: a row it had to wait for, because        *)
(* another run or a request held it, is marked as it is by then.  The mails  *)
(* are queued one by one from what the UPDATE returned.                     *)
(*                                                                         *)
(* Left out: who may not be given a date (AdminRoster), users who are locked *)
(* by hand, what the mail says but for the date, its delivery (JobQueue).    *)
(***************************************************************************)
EXTENDS Naturals, FiniteSets

CONSTANTS
  Holders,      \* users
  Crons,        \* instances
  MaxChanges,   \* bound: dates set or taken away, users unlocked
  MaxMishaps    \* bound: statements that fail, instances that stop

VARIABLES
  date,      \* user -> where expires_at lies, or "none"
  sent,      \* users with expiry_warning_sent_at
  status,    \* user -> "active", or "expired": locked by a run
  signedOn,  \* users with a session
  cron,      \* instance -> [step, row]; row: what is in hand for a user: nothing, the
             \* present date, one that was replaced, or a date that was taken away
  mails,     \* user -> mails queued that name the present date
  changes, mishaps,
  due,       \* history: users a run found near their present date
  doubled,   \* history: users whom two runs took for their present date
  cutOff     \* history: <<user, what>> a run had in hand and gave up

vars    == <<date, sent, status, signedOn, cron, mails, changes, mishaps, due, doubled, cutOff>>
history == <<due, doubled, cutOff>>

TypeOK ==
  /\ date \in [Holders -> {"none", "far", "near", "past"}]
  /\ sent \subseteq Holders /\ signedOn \subseteq Holders
  /\ status \in [Holders -> {"active", "expired"}]
  /\ cron \in [Crons -> [step: {"revoke", "update", "enqueue"},
                         row: [Holders -> {"no", "present", "old", "none"}]]]
  /\ mails \in [Holders -> Nat]
  /\ changes \in 0 .. MaxChanges /\ mishaps \in 0 .. MaxMishaps
  /\ due \subseteq Holders /\ doubled \subseteq Holders
  /\ cutOff \subseteq Holders \X {"sessions", "mail"}

Take(users) == [u \in Holders |-> IF u \in users THEN "present" ELSE "no"]
\* Between runs.
Resting == [step |-> "enqueue", row |-> Take({})]
Init ==   \* dates were set before, near or not yet
  /\ date = [u \in Holders |-> "near"] /\ sent = {} /\ signedOn = Holders
  /\ status = [u \in Holders |-> "active"]
  /\ cron = [c \in Crons |-> Resting]
  /\ mails = [u \in Holders |-> 0] /\ changes = 0 /\ mishaps = 0
  /\ due = {} /\ doubled = {} /\ cutOff = {}
-----------------------------------------------------------------------------
At(c, step) == cron[c].step = step
InHand(c)   == {u \in Holders : cron[c].row[u] = "present"}
Selected(u) == {c \in Crons : At(c, "update") /\ u \in InHand(c)}

\* setExpiry: the mark goes with the old date.  A mail in hand will name that one;
\* an UPDATE under way will take the new one for it.
KeepMark(u) == sent          \* (mutation)
Unmarked(u) == sent \ {u}
SetExpiry(u, d) ==
  /\ changes < MaxChanges /\ changes' = changes + 1
  /\ date' = [date EXCEPT ![u] = d]
  /\ sent' = Unmarked(u)
  /\ mails' = [mails EXCEPT ![u] = 0]
  /\ cron' = [c \in Crons |->
                IF At(c, "enqueue") /\ u \in InHand(c)
                THEN [cron[c] EXCEPT !.row[u] = "old"] ELSE cron[c]]
  /\ due' = due \ {u} /\ cutOff' = cutOff \ {<<u, "mail">>}
  /\ doubled' = IF Cardinality(Selected(u)) > 1 THEN doubled \cup {u} ELSE doubled \ {u}
  /\ UNCHANGED <<status, signedOn, mishaps>>

Approach(u) ==
  /\ \/ date[u] = "far" /\ date' = [date EXCEPT ![u] = "near"]
     \/ date[u] = "near" /\ date' = [date EXCEPT ![u] = "past"]
  /\ UNCHANGED <<sent, status, signedOn, cron, mails, changes, mishaps, history>>

\* An administrator unlocks; a sign-in.
Unlock(u) ==
  /\ changes < MaxChanges /\ changes' = changes + 1
  /\ status[u] = "expired" /\ status' = [status EXCEPT ![u] = "active"]
  /\ UNCHANGED <<date, sent, signedOn, cron, mails, mishaps, history>>
SignIn(u) ==
  /\ status[u] = "active" /\ signedOn' = signedOn \cup {u}
  /\ UNCHANGED <<date, sent, status, cron, mails, changes, mishaps, history>>
-----------------------------------------------------------------------------
(* A run. *)

Goto(c, step, row) == cron' = [cron EXCEPT ![c] = [step |-> step, row |-> row]]

\* autoLock: the condition is one on the row that is written, so that of two runs
\* one gets it.
Overdue == {u \in Holders : date[u] = "past" /\ status[u] = "active"}
AutoLock(c) ==
  /\ cron[c] = Resting /\ Goto(c, "revoke", Take(Overdue))
  /\ status' = [u \in Holders |-> IF u \in Overdue THEN "expired" ELSE status[u]]
  /\ cutOff' = {x \in cutOff : x[1] \notin Overdue \/ x[2] = "mail"}
  /\ UNCHANGED <<date, sent, signedOn, mails, changes, mishaps, due, doubled>>
Revoke(c, u) ==
  /\ At(c, "revoke") /\ u \in InHand(c)
  /\ signedOn' = signedOn \ {u}
  /\ Goto(c, "revoke", Take(InHand(c) \ {u}))
  /\ UNCHANGED <<date, sent, status, mails, changes, mishaps, history>>

\* sendWarnings: the sub-select reads ...
Near   == {u \in Holders : date[u] = "near" /\ status[u] = "active"}
Others(c) == {u \in Holders : Selected(u) \ {c} # {}}
Select(c) ==
  /\ At(c, "revoke") /\ InHand(c) = {}
  /\ Goto(c, "update", Take(Near \ sent))
  /\ due' = due \cup Near
  /\ doubled' = doubled \cup ((Near \ sent) \cap Others(c))
  /\ cutOff' = cutOff \ ((Near \ sent) \X {"mail"})
  /\ UNCHANGED <<date, sent, status, signedOn, mails, changes, mishaps>>

\* ... and what it read is marked, whatever the rows say by now, and returned with
\* the date they have by now.
Update(c) ==
  /\ At(c, "update")
  /\ sent' = sent \cup InHand(c)
  /\ Goto(c, "enqueue", [u \in Holders |-> IF u \in InHand(c) /\ date[u] = "none"
                                           THEN "none" ELSE cron[c].row[u]])
  /\ UNCHANGED <<date, status, signedOn, mails, changes, mishaps, history>>

Enqueue(c, u) ==
  /\ At(c, "enqueue") /\ cron[c].row[u] \in {"present", "old"}
  /\ mails' = IF cron[c].row[u] = "old" THEN mails ELSE [mails EXCEPT ![u] = @ + 1]
  /\ Goto(c, "enqueue", [cron[c].row EXCEPT ![u] = "no"])
  /\ UNCHANGED <<date, sent, status, signedOn, changes, mishaps, history>>

\* The run ends where it is.
GiveUp(c) ==
  /\ cron' = [cron EXCEPT ![c] = Resting]
  /\ cutOff' = cutOff \cup
       (InHand(c) \X (IF At(c, "revoke") THEN {"sessions"} ELSE {"mail"}))
  /\ UNCHANGED <<date, sent, status, signedOn, mails, changes, due, doubled>>
\* toLocaleDateString of a date that is null.
Throws(c)  == /\ At(c, "enqueue") /\ \E u \in Holders : cron[c].row[u] = "none"
              /\ GiveUp(c) /\ mishaps' = mishaps
\* A statement fails, or the instance stops.
Mishap(c)  == cron[c] # Resting /\ mishaps < MaxMishaps /\ GiveUp(c) /\ mishaps' = mishaps + 1

Next ==
  \/ \E u \in Holders : \/ \E d \in {"none", "far", "near", "past"} : SetExpiry(u, d)
                        \/ Approach(u) \/ Unlock(u) \/ SignIn(u)
  \/ \E c \in Crons : \/ AutoLock(c) \/ Select(c) \/ Update(c)
                      \/ Throws(c) \/ Mishap(c)
                      \/ \E u \in Holders : Revoke(c, u) \/ Enqueue(c, u)
-----------------------------------------------------------------------------
\* "email cảnh báo MỘT LẦN" (expiry.service.ts:14): one mail for a date, unless
\* two runs took the user between a sub-select and its UPDATE.
WarnedOnce == \A u \in Holders : mails[u] <= 1 \/ u \in doubled

\* Whoever the cron locked after a run had come past near the date was sent a mail
\* that names it, or is about to be, unless a run gave up with it in hand, which no
\* later run makes good.
LockedWasWarned ==
  \A u \in due : status[u] = "expired" =>
    \/ mails[u] > 0 \/ <<u, "mail">> \in cutOff
    \/ \E c \in Crons : cron[c].step \in {"update", "enqueue"} /\ u \in InHand(c)

\* Whoever the cron locked has no session that an unlocking would bring back, once
\* the run has come past, unless it gave up on the way.
LockedIsSignedOff ==
  \A u \in signedOn : status[u] = "expired" =>
    \/ <<u, "sessions">> \in cutOff
    \/ \E c \in Crons : At(c, "revoke") /\ u \in InHand(c)

WarningsSound == WarnedOnce /\ LockedWasWarned /\ LockedIsSignedOff
=============================================================================
