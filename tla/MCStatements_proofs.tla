--------------------------- MODULE MCStatements_proofs ---------------------------
(***************************************************************************)
(* Theorems about the statements that overtake one another: the warnings of *)
(* the expiry cron, for any accounts and any number of instances that run it *)
(* at once, and the directory read page by page, for any people, any page    *)
(* size and any rate.  The sessions are those of OidcStore, whose theorems   *)
(* are OidcStore_proofs'.  The three share no variable.                     *)
(***************************************************************************)
EXTENDS MCStatements, OidcStore_proofs, Ranks_proofs

-----------------------------------------------------------------------------
(* Accounts that end. *)

CronRow == [Holders -> {"no", "present", "old", "none"}]
Cron    == [step: {"revoke", "update", "enqueue"}, row: CronRow]

\* Instances that have a user in hand for the warning of his present date.
HeldBy(u) == {c \in Crons : cron[c].step \in {"update", "enqueue"} /\ cron[c].row[u] = "present"}

\* He was sent one, is about to be, or a run gave up with him in hand.
Warned(u) == mails[u] > 0 \/ <<u, "mail">> \in cutOff \/ HeldBy(u) # {}

\* Unless two took him, one at most has him in hand, who has then had no mail; and who
\* has been marked is whoever is past the UPDATE.
OnceSound(u) ==
  u \notin doubled =>
    /\ \A c, d \in HeldBy(u) : c = d
    /\ HeldBy(u) # {} => mails[u] = 0
    /\ mails[u] <= 1
    /\ mails[u] > 0 => u \in sent
    /\ \A c \in HeldBy(u) : cron[c].step = "enqueue" => u \in sent
MarkSound(u) ==
  /\ u \in sent => date[u] = "none" \/ Warned(u)
  /\ u \in due => date[u] # "none" /\ Warned(u)
SignedOffSound(u) ==
  u \in signedOn /\ status[u] = "expired" =>
    \/ <<u, "sessions">> \in cutOff
    \/ \E c \in Crons : cron[c].step = "revoke" /\ cron[c].row[u] = "present"

WarningsInv ==
  /\ WA!TypeOK
  /\ \A u \in Holders : OnceSound(u) /\ MarkSound(u) /\ SignedOffSound(u)

LEMMA WarningTypes ==
  ASSUME WA!TypeOK
  PROVE  /\ date \in [Holders -> {"none", "far", "near", "past"}]
         /\ sent \subseteq Holders /\ signedOn \subseteq Holders
         /\ status \in [Holders -> {"active", "expired"}]
         /\ cron \in [Crons -> Cron]
         /\ \A c \in Crons : cron[c] \in Cron /\ cron[c].row \in CronRow
                             /\ cron[c].step \in {"revoke", "update", "enqueue"}
         /\ mails \in [Holders -> Nat]
         /\ changes \in 0 .. MaxChanges /\ mishaps \in 0 .. MaxMishaps
         /\ due \subseteq Holders /\ doubled \subseteq Holders
         /\ cutOff \subseteq Holders \X {"sessions", "mail"}
  BY DEF WA!TypeOK, Cron, CronRow

LEMMA SameCount == \A S : WA!Cardinality(S) = Cardinality(S)
  BY DEF WA!Cardinality, Cardinality

LEMMA TakeTyped ==
  ASSUME NEW S
  PROVE  WA!Take(S) \in CronRow /\ \A u \in Holders : WA!Take(S)[u] = IF u \in S THEN "present" ELSE "no"
  BY DEF WA!Take, CronRow

LEMMA RestingTyped ==
  WA!Resting \in Cron /\ WA!Resting.step = "enqueue" /\ \A u \in Holders : WA!Resting.row[u] = "no"
  BY TakeTyped DEF WA!Resting, Cron

LEMMA WarningsInvInit == WA!Init => WarningsInv
  <1> SUFFICES ASSUME WA!Init PROVE WarningsInv
    OBVIOUS
  <1>1. /\ date = [u \in Holders |-> "near"] /\ sent = {} /\ signedOn = Holders
        /\ status = [u \in Holders |-> "active"]
        /\ cron = [c \in Crons |-> WA!Resting]
        /\ mails = [u \in Holders |-> 0] /\ changes = 0 /\ mishaps = 0
        /\ due = {} /\ doubled = {} /\ cutOff = {}
    BY DEF WA!Init
  <1>2. WA!TypeOK
    <2>1. changes \in 0 .. MaxChanges /\ mishaps \in 0 .. MaxMishaps
      BY <1>1, StatementsAssumption
    <2>2. cron \in [Crons -> Cron]
      BY <1>1, RestingTyped
    <2>3. QED
      BY <1>1, <2>1, <2>2 DEF WA!TypeOK, Cron, CronRow
  <1>3. \A u \in Holders : HeldBy(u) = {}
    BY <1>1, RestingTyped DEF HeldBy
  <1>4. QED
    BY <1>1, <1>2, <1>3 DEF WarningsInv, OnceSound, MarkSound, SignedOffSound

\* A step of one run, of which what it has in hand changes to row.
LEMMA StepTyped ==
  ASSUME WA!TypeOK, NEW c \in Crons, NEW s \in {"revoke", "update", "enqueue"}, NEW row \in CronRow,
         cron' = [cron EXCEPT ![c] = [step |-> s, row |-> row]]
  PROVE  /\ cron' \in [Crons -> Cron]
         /\ cron'[c].step = s /\ cron'[c].row = row
         /\ \A d \in Crons \ {c} : cron'[d] = cron[d]
  <1>1. [step |-> s, row |-> row] \in Cron
    BY DEF Cron
  <1>2. QED
    BY <1>1, WarningTypes

\* What remains of the invariants of a user when a step changes nothing that concerns him.
LEMMA UserKept ==
  ASSUME NEW u \in Holders, HeldBy(u)' = HeldBy(u), mails'[u] = mails[u],
         u \in sent' <=> u \in sent, u \in due' => u \in due, u \in doubled => u \in doubled',
         <<u, "mail">> \in cutOff => <<u, "mail">> \in cutOff',
         date[u] = "none" <=> date'[u] = "none",
         \A c \in HeldBy(u) : cron'[c].step = "enqueue" => cron[c].step = "enqueue"
  PROVE  (OnceSound(u) => OnceSound(u)') /\ (MarkSound(u) => MarkSound(u)')
  BY DEF OnceSound, MarkSound, Warned

LEMMA SetExpiryKeeps ==
  ASSUME WarningsInv, NEW u \in Holders, NEW d \in {"none", "far", "near", "past"}, WA!SetExpiry(u, d)
  PROVE  WarningsInv'
  <1> DEFINE old(c) == [cron[c] EXCEPT !.row[u] = "old"]
             hit(c) == cron[c].step = "enqueue" /\ cron[c].row[u] = "present"
  <1>1. WA!TypeOK
    BY DEF WarningsInv
  <1>2. ASSUME NEW c \in Crons
        PROVE  /\ old(c) \in Cron /\ old(c).step = cron[c].step /\ old(c).row[u] = "old"
               /\ \A v \in Holders \ {u} : old(c).row[v] = cron[c].row[v]
    BY <1>1, WarningTypes DEF Cron, CronRow
  <1> HIDE DEF old
  <1>3. /\ changes < MaxChanges /\ changes' = changes + 1
        /\ date' = [date EXCEPT ![u] = d] /\ sent' = sent \ {u}
        /\ mails' = [mails EXCEPT ![u] = 0]
        /\ cron' = [c \in Crons |-> IF hit(c) THEN old(c) ELSE cron[c]]
        /\ due' = due \ {u} /\ cutOff' = cutOff \ {<<u, "mail">>}
        /\ doubled' = IF WA!Cardinality(WA!Selected(u)) > 1 THEN doubled \cup {u} ELSE doubled \ {u}
        /\ UNCHANGED <<status, signedOn, mishaps>>
    BY DEF WA!SetExpiry, WA!Unmarked, WA!At, WA!InHand, old
  <1>4. \A c \in Crons : /\ cron'[c].step = cron[c].step
                         /\ \A v \in Holders \ {u} : cron'[c].row[v] = cron[c].row[v]
                         /\ cron'[c].row[u] = IF hit(c) THEN "old" ELSE cron[c].row[u]
    BY <1>2, <1>3
  <1>5. WA!TypeOK'
    <2>1. changes' \in 0 .. MaxChanges
      BY <1>1, <1>3, WarningTypes, StatementsAssumption
    <2>2. cron' \in [Crons -> Cron]
      BY <1>1, <1>2, <1>3, WarningTypes
    <2>3. date' \in [Holders -> {"none", "far", "near", "past"}] /\ mails' \in [Holders -> Nat]
      BY <1>1, <1>3, WarningTypes
    <2>4. doubled' \subseteq Holders
      BY <1>1, <1>3, WarningTypes
    <2>5. QED
      BY <1>1, <1>3, <2>1, <2>2, <2>3, <2>4 DEF WA!TypeOK, Cron, CronRow
  <1>6. ASSUME NEW v \in Holders \ {u} PROVE OnceSound(v)' /\ MarkSound(v)'
    <2>1. HeldBy(v)' = HeldBy(v)
      BY <1>4 DEF HeldBy
    <2>2. mails'[v] = mails[v] /\ date'[v] = date[v]
      BY <1>1, <1>3, WarningTypes
    <2>3. OnceSound(v) /\ MarkSound(v)
      BY DEF WarningsInv
    <2>4. /\ v \in sent' <=> v \in sent
          /\ v \in due' <=> v \in due
          /\ v \in doubled' <=> v \in doubled
          /\ <<v, "mail">> \in cutOff' <=> <<v, "mail">> \in cutOff
      BY <1>3
    <2>5. \A c \in HeldBy(v) : cron'[c].step = cron[c].step
      BY <1>4 DEF HeldBy
    <2>6. QED
      BY <2>1, <2>2, <2>3, <2>4, <2>5, UserKept
  <1>7. OnceSound(u)' /\ MarkSound(u)'
    <2>1. HeldBy(u)' = WA!Selected(u)
      BY <1>4 DEF HeldBy, WA!Selected, WA!At, WA!InHand
    <2>2. mails'[u] = 0 /\ u \notin sent' /\ u \notin due'
      BY <1>1, <1>3, WarningTypes
    <2>3. u \notin doubled' => \A a, b \in WA!Selected(u) : a = b
      <3>1. IsFiniteSet(WA!Selected(u))
        BY StatementsAssumption, FS_Subset DEF WA!Selected
      <3>2. ASSUME NEW a \in WA!Selected(u), NEW b \in WA!Selected(u), a # b
            PROVE  Cardinality(WA!Selected(u)) > 1
        <4>1. IsFiniteSet({a}) /\ Cardinality({a}) = 1
          BY FS_Singleton
        <4>2. Cardinality({a} \cup {b}) = 2
          BY <3>2, <4>1, FS_AddElement
        <4>3. {a} \cup {b} \subseteq WA!Selected(u)
          OBVIOUS
        <4>4. Cardinality({a} \cup {b}) <= Cardinality(WA!Selected(u)) /\ Cardinality(WA!Selected(u)) \in Nat
          BY <3>1, <4>3, FS_Subset, FS_CardinalityType
        <4>5. QED
          BY <4>2, <4>4
      <3>3. QED
        BY <1>3, <3>2, SameCount
    <2>4. \A c \in HeldBy(u)' : cron'[c].step = "update"
      BY <1>4, <2>1 DEF WA!Selected, WA!At
    <2>5. QED
      BY <2>1, <2>2, <2>3, <2>4 DEF OnceSound, MarkSound
  <1>8. ASSUME NEW v \in Holders PROVE SignedOffSound(v)'
    <2>1. SignedOffSound(v)
      BY DEF WarningsInv
    <2>2. <<v, "sessions">> \in cutOff => <<v, "sessions">> \in cutOff'
      BY <1>3
    <2>3. \A c \in Crons : cron[c].step = "revoke" /\ cron[c].row[v] = "present"
                             => cron'[c].step = "revoke" /\ cron'[c].row[v] = "present"
      BY <1>4
    <2>4. QED
      BY <1>3, <2>1, <2>2, <2>3 DEF SignedOffSound
  <1>9. QED
    BY <1>5, <1>6, <1>7, <1>8 DEF WarningsInv

LEMMA PersonKeeps ==
  ASSUME WarningsInv, NEW u \in Holders, WA!Approach(u) \/ WA!Unlock(u) \/ WA!SignIn(u)
  PROVE  WarningsInv'
  <1>1. WA!TypeOK
    BY DEF WarningsInv
  <1>2. UNCHANGED <<sent, cron, mails, mishaps, due, doubled, cutOff>>
    BY DEF WA!Approach, WA!Unlock, WA!SignIn, WA!history
  <1>3. /\ date' \in [Holders -> {"none", "far", "near", "past"}]
        /\ \A v \in Holders : date'[v] = "none" <=> date[v] = "none"
    BY <1>1, WarningTypes DEF WA!Approach, WA!Unlock, WA!SignIn
  <1>4. /\ status' \in [Holders -> {"active", "expired"}]
        /\ \A v \in Holders : status'[v] = "expired" => status[v] = "expired"
    BY <1>1, WarningTypes DEF WA!Approach, WA!Unlock, WA!SignIn
  <1>5. /\ signedOn' \subseteq Holders
        /\ \A v \in signedOn' : v \in signedOn \/ status'[v] = "active"
    BY <1>1, WarningTypes DEF WA!Approach, WA!Unlock, WA!SignIn
  <1>6. changes' \in 0 .. MaxChanges
    <2>1. changes' = changes \/ (changes < MaxChanges /\ changes' = changes + 1)
      BY DEF WA!Approach, WA!Unlock, WA!SignIn
    <2>2. QED
      BY <1>1, <2>1, WarningTypes, StatementsAssumption
  <1>7. WA!TypeOK'
    BY <1>1, <1>2, <1>3, <1>4, <1>5, <1>6 DEF WA!TypeOK
  <1>8. ASSUME NEW v \in Holders PROVE OnceSound(v)' /\ MarkSound(v)' /\ SignedOffSound(v)'
    <2>1. OnceSound(v) /\ MarkSound(v) /\ SignedOffSound(v)
      BY DEF WarningsInv
    <2>2. QED
      BY <1>2, <1>3, <1>4, <1>5, <2>1 DEF OnceSound, MarkSound, SignedOffSound, HeldBy, Warned
  <1>9. QED
    BY <1>7, <1>8 DEF WarningsInv

\* A step of a run that has nobody in hand for a mail, before or after.
LEMMA LockingKept ==
  ASSUME WarningsInv, NEW c \in Crons, NEW row \in CronRow,
         cron' = [cron EXCEPT ![c] = [step |-> "revoke", row |-> row]],
         \A u \in Holders : cron[c].step = "revoke" \/ cron[c].row[u] # "present",
         UNCHANGED <<date, sent, mails, changes, mishaps, due, doubled>>,
         status' \in [Holders -> {"active", "expired"}], signedOn' \subseteq Holders,
         cutOff' \subseteq cutOff, \A u \in Holders : <<u, "mail">> \in cutOff => <<u, "mail">> \in cutOff',
         \A u \in Holders : SignedOffSound(u)'
  PROVE  WarningsInv'
  <1>1. WA!TypeOK
    BY DEF WarningsInv
  <1>2. /\ cron' \in [Crons -> Cron] /\ cron'[c].step = "revoke" /\ cron'[c].row = row
        /\ \A d \in Crons \ {c} : cron'[d] = cron[d]
    BY <1>1, StepTyped
  <1>3. WA!TypeOK'
    BY <1>1, <1>2 DEF WA!TypeOK, Cron, CronRow
  <1>4. ASSUME NEW u \in Holders PROVE OnceSound(u)' /\ MarkSound(u)'
    <2>1. OnceSound(u) /\ MarkSound(u)
      BY DEF WarningsInv
    <2>2. HeldBy(u)' = HeldBy(u) /\ c \notin HeldBy(u)
      BY <1>2 DEF HeldBy
    <2>3. \A d \in HeldBy(u) : cron'[d] = cron[d]
      BY <1>2, <2>2 DEF HeldBy
    <2>4. QED
      BY <2>1, <2>2, <2>3, UserKept
  <1>5. QED
    BY <1>3, <1>4 DEF WarningsInv

LEMMA AutoLockKeeps == ASSUME WarningsInv, NEW c \in Crons, WA!AutoLock(c) PROVE WarningsInv'
  <1> DEFINE row == WA!Take(WA!Overdue)
  <1>1. WA!TypeOK /\ cron[c] = WA!Resting
    BY DEF WarningsInv, WA!AutoLock
  <1>2. row \in CronRow /\ \A u \in Holders : row[u] = IF u \in WA!Overdue THEN "present" ELSE "no"
    BY TakeTyped
  <1>3. /\ cron' = [cron EXCEPT ![c] = [step |-> "revoke", row |-> row]]
        /\ status' = [u \in Holders |-> IF u \in WA!Overdue THEN "expired" ELSE status[u]]
        /\ cutOff' = {x \in cutOff : x[1] \notin WA!Overdue \/ x[2] = "mail"}
        /\ UNCHANGED <<date, sent, signedOn, mails, changes, mishaps, due, doubled>>
    BY DEF WA!AutoLock, WA!Goto
  <1> HIDE DEF row
  <1>4. /\ cron'[c].step = "revoke" /\ cron'[c].row = row
        /\ \A d \in Crons \ {c} : cron'[d] = cron[d]
    BY <1>1, <1>2, <1>3, StepTyped
  <1>5. ASSUME NEW u \in Holders PROVE SignedOffSound(u)'
    <2>1. CASE u \in WA!Overdue
      BY <1>2, <1>4, <2>1 DEF SignedOffSound
    <2>2. CASE u \notin WA!Overdue
      <3>1. SignedOffSound(u) /\ status'[u] = status[u]
        BY <1>3, <2>2 DEF WarningsInv
      <3>2. <<u, "sessions">> \in cutOff => <<u, "sessions">> \in cutOff'
        BY <1>3, <2>2
      <3>3. QED
        BY <1>1, <1>3, <1>4, <3>1, <3>2, RestingTyped DEF SignedOffSound
    <2>3. QED
      BY <2>1, <2>2
  <1>6. \A u \in Holders : cron[c].row[u] # "present"
    BY <1>1, RestingTyped
  <1>7. status' \in [Holders -> {"active", "expired"}] /\ signedOn' \subseteq Holders
    BY <1>1, <1>3, WarningTypes
  <1>8. QED
    BY <1>2, <1>3, <1>5, <1>6, <1>7, LockingKept

LEMMA RevokeKeeps ==
  ASSUME WarningsInv, NEW c \in Crons, NEW u \in Holders, WA!Revoke(c, u) PROVE WarningsInv'
  <1> DEFINE row == WA!Take(WA!InHand(c) \ {u})
  <1>1. WA!TypeOK /\ cron[c].step = "revoke"
    BY DEF WarningsInv, WA!Revoke, WA!At
  <1>2. row \in CronRow
        /\ \A v \in Holders : row[v] = IF v \in WA!InHand(c) \ {u} THEN "present" ELSE "no"
    BY TakeTyped
  <1>3. /\ cron' = [cron EXCEPT ![c] = [step |-> "revoke", row |-> row]]
        /\ signedOn' = signedOn \ {u}
        /\ UNCHANGED <<date, sent, status, mails, changes, mishaps, due, doubled, cutOff>>
    BY DEF WA!Revoke, WA!Goto, WA!history
  <1> HIDE DEF row
  <1>4. /\ cron'[c].step = "revoke" /\ cron'[c].row = row
        /\ \A d \in Crons \ {c} : cron'[d] = cron[d]
    BY <1>1, <1>2, <1>3, StepTyped
  <1>5. ASSUME NEW v \in Holders PROVE SignedOffSound(v)'
    <2>1. SignedOffSound(v)
      BY DEF WarningsInv
    <2>2. v # u /\ cron[c].row[v] = "present" => row[v] = "present"
      BY <1>2 DEF WA!InHand
    <2>3. QED
      BY <1>1, <1>3, <1>4, <2>1, <2>2 DEF SignedOffSound
  <1>6. status' \in [Holders -> {"active", "expired"}] /\ signedOn' \subseteq Holders
    BY <1>1, <1>3, WarningTypes
  <1>7. QED
    BY <1>1, <1>2, <1>3, <1>5, <1>6, LockingKept

LEMMA SelectKeeps == ASSUME WarningsInv, NEW c \in Crons, WA!Select(c) PROVE WarningsInv'
  <1> DEFINE found == WA!Near \ sent
             row == WA!Take(found)
  <1>1. WA!TypeOK /\ cron[c].step = "revoke" /\ \A u \in Holders : cron[c].row[u] # "present"
    BY DEF WarningsInv, WA!Select, WA!At, WA!InHand
  <1>2. row \in CronRow /\ \A u \in Holders : row[u] = IF u \in found THEN "present" ELSE "no"
    BY TakeTyped
  <1>3. /\ cron' = [cron EXCEPT ![c] = [step |-> "update", row |-> row]]
        /\ due' = due \cup WA!Near
        /\ doubled' = doubled \cup (found \cap WA!Others(c))
        /\ cutOff' = cutOff \ (found \X {"mail"})
        /\ UNCHANGED <<date, sent, status, signedOn, mails, changes, mishaps>>
    BY DEF WA!Select, WA!Goto
  <1>4. WA!Near \subseteq Holders /\ \A u \in WA!Near : date[u] # "none"
    BY DEF WA!Near
  <1>5. found \subseteq WA!Near /\ \A u \in found : u \notin sent
    OBVIOUS
  <1>s. \A u \in WA!Near \ found : u \in sent
    OBVIOUS
  <1> HIDE DEF row, found
  <1>6. /\ cron' \in [Crons -> Cron] /\ cron'[c].step = "update" /\ cron'[c].row = row
        /\ \A d \in Crons \ {c} : cron'[d] = cron[d]
    BY <1>1, <1>2, <1>3, StepTyped
  <1>7. WA!TypeOK'
    BY <1>1, <1>3, <1>4, <1>5, <1>6 DEF WA!TypeOK, Cron, CronRow
  <1>8. ASSUME NEW u \in Holders
        PROVE  /\ c \notin HeldBy(u)
               /\ HeldBy(u)' = IF u \in found THEN HeldBy(u) \cup {c} ELSE HeldBy(u)
               /\ \A d \in HeldBy(u) : cron'[d] = cron[d]
    BY <1>1, <1>2, <1>6 DEF HeldBy
  <1>9. ASSUME NEW u \in Holders \ found PROVE OnceSound(u)' /\ MarkSound(u)'
    <2>1. OnceSound(u) /\ MarkSound(u)
      BY DEF WarningsInv
    <2>2. <<u, "mail">> \in cutOff => <<u, "mail">> \in cutOff'
      BY <1>3
    <2>3. OnceSound(u)'
      BY <1>3, <1>8, <2>1 DEF OnceSound
    <2>4. u \in sent => date[u] = "none" \/ Warned(u)'
      BY <1>3, <1>8, <2>1, <2>2 DEF MarkSound, Warned
    <2>5. u \in due' => date[u] # "none" /\ Warned(u)'
      <3>1. u \in due => date[u] # "none" /\ Warned(u)'
        BY <1>3, <1>8, <2>1, <2>2 DEF MarkSound, Warned
      <3>2. u \in WA!Near => u \in sent /\ date[u] # "none"
        BY <1>4, <1>s
      <3>3. QED
        BY <1>3, <2>4, <3>1, <3>2
    <2>6. QED
      BY <1>3, <2>3, <2>4, <2>5 DEF MarkSound
  <1>10. ASSUME NEW u \in found PROVE OnceSound(u)' /\ MarkSound(u)'
    <2>1. u \in Holders /\ u \notin sent /\ date[u] # "none"
      BY <1>4, <1>5
    <2>2. OnceSound(u)
      BY <2>1 DEF WarningsInv
    <2>3. u \notin doubled' => HeldBy(u) = {} /\ mails[u] = 0
      <3> SUFFICES ASSUME u \notin doubled' PROVE HeldBy(u) = {} /\ mails[u] = 0
        OBVIOUS
      <3>1. u \notin doubled /\ u \notin WA!Others(c)
        BY <1>3
      <3>2. WA!Selected(u) \subseteq {c}
        BY <2>1, <3>1 DEF WA!Others
      <3>3. ASSUME NEW d \in HeldBy(u) PROVE FALSE
        <4>1. cron[d].step = "enqueue"
          BY <1>8, <2>1, <3>2, <3>3 DEF HeldBy, WA!Selected, WA!At, WA!InHand
        <4>2. QED
          BY <2>1, <2>2, <3>1, <3>3, <4>1 DEF OnceSound
      <3>4. mails[u] \in Nat
        BY <1>1, <2>1, WarningTypes
      <3>5. QED
        BY <2>1, <2>2, <3>1, <3>3, <3>4 DEF OnceSound
    <2>4. QED
      BY <1>3, <1>6, <1>8, <2>1, <2>3 DEF OnceSound, MarkSound, Warned
  <1>11. ASSUME NEW u \in Holders PROVE SignedOffSound(u)'
    <2>1. SignedOffSound(u) /\ (<<u, "sessions">> \in cutOff => <<u, "sessions">> \in cutOff')
      BY <1>3 DEF WarningsInv
    <2>2. QED
      BY <1>1, <1>3, <1>6, <2>1 DEF SignedOffSound
  <1>12. QED
    BY <1>7, <1>9, <1>10, <1>11 DEF WarningsInv

LEMMA UpdateKeeps == ASSUME WarningsInv, NEW c \in Crons, WA!Update(c) PROVE WarningsInv'
  <1> DEFINE row == [u \in Holders |-> IF u \in WA!InHand(c) /\ date[u] = "none"
                                      THEN "none" ELSE cron[c].row[u]]
  <1>1. WA!TypeOK /\ cron[c].step = "update"
    BY DEF WarningsInv, WA!Update, WA!At
  <1>2. row \in CronRow
    BY <1>1, WarningTypes DEF CronRow
  <1>3. /\ cron' = [cron EXCEPT ![c] = [step |-> "enqueue", row |-> row]]
        /\ sent' = sent \cup WA!InHand(c)
        /\ UNCHANGED <<date, status, signedOn, mails, changes, mishaps, due, doubled, cutOff>>
    BY DEF WA!Update, WA!Goto, WA!history
  <1>4. \A u \in Holders : row[u] = "present" <=> cron[c].row[u] = "present" /\ date[u] # "none"
    BY DEF WA!InHand
  <1> HIDE DEF row
  <1>5. /\ cron' \in [Crons -> Cron] /\ cron'[c].step = "enqueue" /\ cron'[c].row = row
        /\ \A d \in Crons \ {c} : cron'[d] = cron[d]
    BY <1>1, <1>2, <1>3, StepTyped
  <1>6. WA!TypeOK'
    BY <1>1, <1>3, <1>5 DEF WA!TypeOK, Cron, CronRow, WA!InHand
  <1>7. ASSUME NEW u \in Holders PROVE OnceSound(u)' /\ MarkSound(u)'
    <2>1. OnceSound(u) /\ MarkSound(u)
      BY DEF WarningsInv
    <2>2. HeldBy(u)' = IF date[u] = "none" THEN HeldBy(u) \ {c} ELSE HeldBy(u)
      BY <1>1, <1>4, <1>5 DEF HeldBy
    <2>3. \A d \in HeldBy(u) \ {c} : cron'[d] = cron[d]
      BY <1>5 DEF HeldBy
    <2>4. c \in HeldBy(u) <=> u \in WA!InHand(c)
      BY <1>1 DEF HeldBy, WA!InHand
    <2>5. OnceSound(u)'
      BY <1>3, <2>1, <2>2, <2>3, <2>4 DEF OnceSound
    <2>6. MarkSound(u)'
      BY <1>3, <2>1, <2>2, <2>4 DEF MarkSound, Warned
    <2>7. QED
      BY <2>5, <2>6
  <1>8. ASSUME NEW u \in Holders PROVE SignedOffSound(u)'
    <2>1. SignedOffSound(u)
      BY DEF WarningsInv
    <2>2. QED
      BY <1>1, <1>3, <1>5, <2>1 DEF SignedOffSound
  <1>9. QED
    BY <1>6, <1>7, <1>8 DEF WarningsInv

LEMMA EnqueueKeeps ==
  ASSUME WarningsInv, NEW c \in Crons, NEW u \in Holders, WA!Enqueue(c, u) PROVE WarningsInv'
  <1> DEFINE row == [cron[c].row EXCEPT ![u] = "no"]
  <1>1. WA!TypeOK /\ cron[c].step = "enqueue" /\ cron[c].row[u] \in {"present", "old"}
    BY DEF WarningsInv, WA!Enqueue, WA!At
  <1>2. row \in CronRow /\ row[u] = "no" /\ \A v \in Holders \ {u} : row[v] = cron[c].row[v]
    BY <1>1, WarningTypes DEF CronRow
  <1>3. /\ cron' = [cron EXCEPT ![c] = [step |-> "enqueue", row |-> row]]
        /\ mails' = IF cron[c].row[u] = "old" THEN mails ELSE [mails EXCEPT ![u] = @ + 1]
        /\ UNCHANGED <<date, sent, status, signedOn, changes, mishaps, due, doubled, cutOff>>
    BY DEF WA!Enqueue, WA!Goto, WA!history
  <1> HIDE DEF row
  <1>4. /\ cron' \in [Crons -> Cron] /\ cron'[c].step = "enqueue" /\ cron'[c].row = row
        /\ \A d \in Crons \ {c} : cron'[d] = cron[d]
    BY <1>1, <1>2, <1>3, StepTyped
  <1>5. /\ mails' \in [Holders -> Nat] /\ \A v \in Holders \ {u} : mails'[v] = mails[v]
        /\ mails'[u] = IF cron[c].row[u] = "old" THEN mails[u] ELSE mails[u] + 1
        /\ mails[u] \in Nat
    BY <1>1, <1>3, WarningTypes
  <1>6. WA!TypeOK'
    BY <1>1, <1>3, <1>4, <1>5 DEF WA!TypeOK, Cron, CronRow
  <1>7. ASSUME NEW v \in Holders \ {u} PROVE OnceSound(v)' /\ MarkSound(v)'
    <2>1. OnceSound(v) /\ MarkSound(v)
      BY DEF WarningsInv
    <2>2. HeldBy(v)' = HeldBy(v) /\ \A d \in Crons : cron'[d].step = cron[d].step
      BY <1>1, <1>2, <1>4 DEF HeldBy
    <2>3. QED
      BY <1>3, <1>5, <2>1, <2>2 DEF OnceSound, MarkSound, Warned, HeldBy
  <1>8. OnceSound(u)' /\ MarkSound(u)'
    <2>1. OnceSound(u) /\ MarkSound(u)
      BY DEF WarningsInv
    <2>2. HeldBy(u)' = HeldBy(u) \ {c} /\ \A d \in Crons : cron'[d].step = cron[d].step
      BY <1>1, <1>2, <1>4 DEF HeldBy
    <2>3. CASE cron[c].row[u] = "old"
      <3>1. c \notin HeldBy(u) /\ mails'[u] = mails[u]
        BY <1>5, <2>3 DEF HeldBy
      <3>2. QED
        BY <1>3, <2>1, <2>2, <3>1 DEF OnceSound, MarkSound, Warned, HeldBy
    <2>4. CASE cron[c].row[u] = "present"
      <3>1. c \in HeldBy(u) /\ mails'[u] = mails[u] + 1
        BY <1>1, <1>5, <2>4 DEF HeldBy
      <3>2. mails'[u] > 0
        BY <1>5, <3>1
      <3>3. OnceSound(u)'
        <4> SUFFICES ASSUME u \notin doubled
                     PROVE  HeldBy(u)' = {} /\ mails'[u] = 1 /\ u \in sent
          BY <1>3 DEF OnceSound
        <4>1. mails[u] = 0 /\ u \in sent /\ \A d \in HeldBy(u) : d = c
          BY <1>1, <2>1, <3>1 DEF OnceSound
        <4>2. QED
          BY <2>2, <3>1, <4>1
      <3>4. MarkSound(u)'
        BY <1>3, <2>1, <3>2 DEF MarkSound, Warned
      <3>5. QED
        BY <3>3, <3>4
    <2>5. QED
      BY <1>1, <2>3, <2>4
  <1>9. ASSUME NEW v \in Holders PROVE SignedOffSound(v)'
    <2>1. SignedOffSound(v)
      BY DEF WarningsInv
    <2>2. QED
      BY <1>1, <1>3, <1>4, <2>1 DEF SignedOffSound
  <1>10. QED
    BY <1>6, <1>7, <1>8, <1>9 DEF WarningsInv

LEMMA GiveUpKeeps ==
  ASSUME WarningsInv, NEW c \in Crons, WA!Throws(c) \/ WA!Mishap(c) PROVE WarningsInv'
  <1>1. WA!TypeOK
    BY DEF WarningsInv
  <1>2. /\ cron' = [cron EXCEPT ![c] = WA!Resting]
        /\ cutOff' = cutOff \cup
             (WA!InHand(c) \X (IF cron[c].step = "revoke" THEN {"sessions"} ELSE {"mail"}))
        /\ UNCHANGED <<date, sent, status, signedOn, mails, changes, due, doubled>>
    BY DEF WA!Throws, WA!Mishap, WA!GiveUp, WA!At
  <1>3. mishaps' \in 0 .. MaxMishaps
    <2>1. mishaps' = mishaps \/ (mishaps < MaxMishaps /\ mishaps' = mishaps + 1)
      BY DEF WA!Throws, WA!Mishap
    <2>2. QED
      BY <1>1, <2>1, WarningTypes, StatementsAssumption
  <1>4. /\ cron' \in [Crons -> Cron] /\ cron'[c] = WA!Resting
        /\ \A d \in Crons \ {c} : cron'[d] = cron[d]
    BY <1>1, <1>2, WarningTypes, RestingTyped
  <1>5. cutOff' \subseteq Holders \X {"sessions", "mail"}
    BY <1>1, <1>2, WarningTypes DEF WA!InHand
  <1>6. WA!TypeOK'
    BY <1>1, <1>2, <1>3, <1>4, <1>5 DEF WA!TypeOK, Cron, CronRow
  <1>7. ASSUME NEW u \in Holders PROVE OnceSound(u)' /\ MarkSound(u)' /\ SignedOffSound(u)'
    <2>1. OnceSound(u) /\ MarkSound(u) /\ SignedOffSound(u)
      BY DEF WarningsInv
    <2>2. HeldBy(u)' = HeldBy(u) \ {c} /\ \A d \in HeldBy(u) \ {c} : cron'[d] = cron[d]
      BY <1>4, RestingTyped DEF HeldBy
    <2>3. c \in HeldBy(u) => <<u, "mail">> \in cutOff'
      BY <1>2 DEF HeldBy, WA!InHand
    <2>4. Warned(u) => Warned(u)'
      BY <1>2, <2>2, <2>3 DEF Warned
    <2>5. OnceSound(u)'
      BY <1>2, <2>1, <2>2 DEF OnceSound
    <2>6. cron[c].step = "revoke" /\ cron[c].row[u] = "present" => <<u, "sessions">> \in cutOff'
      BY <1>2 DEF WA!InHand
    <2>7. SignedOffSound(u)'
      BY <1>2, <1>4, <2>1, <2>6 DEF SignedOffSound
    <2>8. QED
      BY <1>2, <2>1, <2>4, <2>5, <2>7 DEF MarkSound
  <1>8. QED
    BY <1>6, <1>7 DEF WarningsInv

LEMMA WarningsInvStep == WarningsInv /\ [WA!Next]_expiryVars => WarningsInv'
  <1> SUFFICES ASSUME WarningsInv, [WA!Next]_expiryVars PROVE WarningsInv'
    OBVIOUS
  <1>1. CASE UNCHANGED expiryVars
    BY <1>1 DEF expiryVars, WarningsInv, WA!TypeOK, OnceSound, MarkSound, SignedOffSound, HeldBy, Warned
  <1>2. QED
    BY <1>1, SetExpiryKeeps, PersonKeeps, AutoLockKeeps, RevokeKeeps, SelectKeeps, UpdateKeeps,
       EnqueueKeeps, GiveUpKeeps DEF WA!Next

LEMMA WarningsAreSound == WarningsInv => WA!WarningsSound
  <1> SUFFICES ASSUME WarningsInv PROVE WA!WarningsSound
    OBVIOUS
  <1>1. WA!WarnedOnce
    BY DEF WarningsInv, OnceSound, WA!WarnedOnce
  <1>2. WA!LockedWasWarned
    <2> SUFFICES ASSUME NEW u \in due
                 PROVE  \/ mails[u] > 0 \/ <<u, "mail">> \in cutOff
                        \/ \E c \in Crons : cron[c].step \in {"update", "enqueue"} /\ u \in WA!InHand(c)
      BY DEF WA!LockedWasWarned
    <2>1. u \in Holders /\ MarkSound(u)
      BY WarningTypes DEF WarningsInv
    <2>2. QED
      BY <2>1 DEF MarkSound, Warned, HeldBy, WA!InHand
  <1>3. WA!LockedIsSignedOff
    <2> SUFFICES ASSUME NEW u \in signedOn, status[u] = "expired"
                 PROVE  \/ <<u, "sessions">> \in cutOff
                        \/ \E c \in Crons : WA!At(c, "revoke") /\ u \in WA!InHand(c)
      BY DEF WA!LockedIsSignedOff
    <2>1. u \in Holders /\ SignedOffSound(u)
      BY WarningTypes DEF WarningsInv
    <2>2. QED
      BY <2>1 DEF SignedOffSound, WA!At, WA!InHand
  <1>4. QED
    BY <1>1, <1>2, <1>3 DEF WA!WarningsSound
-----------------------------------------------------------------------------
(* The full read of an application, and the window of its calls. *)

Inserting == {c \in Calls : inCall[c] # None /\ inCall[c].step = "insert"}
PagesOf   == {c \in Calls : inCall[c] # None /\ inCall[c].page}
Rank(u)   == Cardinality(Below(scope, u))

\* Of the requests that were counted, each found room for itself.
WindowInv == hits + Cardinality(Inserting) < Rate + Cardinality(Calls)

\* While a read goes on: whoever was in the scope all along is still to come, or has been
\* told of; and whoever was told of lies behind, but for somebody who left or joined below.
ReadSound ==
  /\ \A u \in (scope \ joined) \ got : Rank(u) >= offset \/ \E v \in left : v < u
  /\ \A u \in scope \cap got : Rank(u) < offset \/ \E v \in joined : v <= u

PagesInv ==
  /\ DP!TypeOK /\ WindowInv
  /\ \A c \in PagesOf : reading /\ \A d \in PagesOf : d = c
  /\ reading => missed = {} /\ ReadSound
  /\ DP!ReadHasCause

LEMMA SameSize == \A S : DP!Cardinality(S) = Cardinality(S)
  BY DEF DP!Cardinality, Cardinality

LEMMA PageTypes ==
  ASSUME DP!TypeOK
  PROVE  /\ scope \subseteq Codes /\ got \subseteq Codes /\ left \subseteq Codes /\ joined \subseteq Codes
         /\ missed \subseteq Codes /\ twice \subseteq Codes
         /\ scope \subseteq Nat /\ IsFiniteSet(scope) /\ Codes \subseteq Nat
         /\ hits \in Nat /\ offset \in Nat /\ moves \in 0 .. MaxMoves /\ reading \in BOOLEAN
         /\ inCall \in [Calls -> {None} \cup DP!Call]
         /\ \A c \in Calls : inCall[c] # None => inCall[c] \in DP!Call
         /\ None \notin DP!Call /\ Limit \in Nat /\ Rate \in Nat /\ Rate > 0
  <1>1. Codes \subseteq Nat /\ IsFiniteSet(Codes) /\ None \notin DP!Call /\ Limit \in Nat /\ Rate \in Nat \ {0}
    BY StatementsAssumption
  <1>2. IsFiniteSet(scope)
    BY <1>1, FS_Subset DEF DP!TypeOK
  <1>3. Rate > 0
    BY <1>1
  <1>4. QED
    BY <1>1, <1>2, <1>3 DEF DP!TypeOK

LEMMA CallsCount ==
  /\ IsFiniteSet(Inserting) /\ Cardinality(Inserting) \in Nat
  /\ Cardinality(Calls) \in Nat /\ Cardinality(Inserting) <= Cardinality(Calls)
  <1>1. Inserting \subseteq Calls /\ IsFiniteSet(Calls)
    BY StatementsAssumption DEF Inserting
  <1>2. QED
    BY <1>1, FS_Subset, FS_CardinalityType

LEMMA PagesInvInit == DP!Init => PagesInv
  <1> SUFFICES ASSUME DP!Init PROVE PagesInv
    OBVIOUS
  <1>1. /\ scope \in SUBSET Codes /\ hits = 0 /\ inCall = [c \in Calls |-> None]
        /\ reading = FALSE /\ offset = 0 /\ got = {} /\ moves = 0
        /\ left = {} /\ joined = {} /\ missed = {} /\ twice = {}
    BY DEF DP!Init
  <1>2. DP!TypeOK
    <2>1. moves \in 0 .. MaxMoves
      BY <1>1, StatementsAssumption
    <2>2. QED
      BY <1>1, <2>1 DEF DP!TypeOK
  <1>3. Inserting = {} /\ PagesOf = {}
    BY <1>1 DEF Inserting, PagesOf
  <1>4. WindowInv
    BY <1>1, <1>2, <1>3, FS_EmptySet, CallsCount, PageTypes DEF WindowInv
  <1>5. QED
    BY <1>1, <1>2, <1>3, <1>4 DEF PagesInv, DP!ReadHasCause

\* Who leaves or joins moves whoever has a greater code, and nobody else.
LEMMA LeaveKeeps == ASSUME PagesInv, NEW x \in Codes, DP!Leave(x) PROVE PagesInv'
  <1>1. DP!TypeOK
    BY DEF PagesInv
  <1>2. /\ x \in scope /\ scope' = scope \ {x} /\ moves' = moves + 1 /\ moves < MaxMoves
        /\ left' = IF reading THEN left \cup {x} ELSE left
        /\ UNCHANGED <<hits, inCall, reading, offset, got, joined, missed, twice>>
    BY DEF DP!Leave
  <1>3. DP!TypeOK'
    <2>1. moves' \in 0 .. MaxMoves
      BY <1>1, <1>2, PageTypes, StatementsAssumption
    <2>2. QED
      BY <1>1, <1>2, <2>1 DEF DP!TypeOK
  <1>4. ASSUME NEW u \in scope'
        PROVE  /\ Rank(u) \in Nat /\ Rank(u)' \in Nat /\ Rank(u)' <= Rank(u)
               /\ x < u \/ Rank(u)' = Rank(u)
    <2>1. u \in scope /\ u \in Nat /\ x \in Nat /\ u # x
      BY <1>1, <1>2, PageTypes
    <2>2. scope \subseteq Nat /\ IsFiniteSet(scope) /\ scope' \subseteq Nat /\ IsFiniteSet(scope')
      <3>1. scope \subseteq Codes /\ scope' \subseteq Codes
        BY <1>1, <1>3 DEF DP!TypeOK
      <3>2. Codes \subseteq Nat /\ IsFiniteSet(Codes)
        BY StatementsAssumption
      <3>3. QED
        BY <3>1, <3>2, FS_Subset
    <2>3. /\ IsFiniteSet(Below(scope, u)) /\ Cardinality(Below(scope, u)) \in Nat
          /\ Cardinality(Below(scope', u)) \in Nat
      BY <2>1, <2>2, RankGrows
    <2>4. Below(scope', u) \subseteq Below(scope, u)
      BY <1>2 DEF Below
    <2>5. x < u \/ Below(scope', u) = Below(scope, u)
      BY <1>2, <2>1 DEF Below
    <2>6. QED
      BY <2>3, <2>4, <2>5, FS_Subset DEF Rank, Below
  <1>5. reading' => missed' = {} /\ ReadSound'
    <2> SUFFICES ASSUME reading PROVE missed = {} /\ ReadSound'
      BY <1>2
    <2>1. missed = {} /\ ReadSound
      BY DEF PagesInv
    <2>2. offset \in Nat
      BY <1>1, PageTypes
    <2>3. ASSUME NEW u \in scope', u \notin joined, u \notin got
          PROVE  Rank(u)' >= offset \/ \E v \in left' : v < u
      BY <1>2, <1>4, <2>1, <2>3 DEF ReadSound
    <2>4. ASSUME NEW u \in scope', u \in got
          PROVE  Rank(u)' < offset \/ \E v \in joined : v <= u
      <3>1. CASE \E v \in joined : v <= u
        BY <3>1
      <3>2. CASE Rank(u) < offset
        BY <1>4, <2>2, <3>2
      <3>3. QED
        BY <1>2, <2>1, <2>4, <3>1, <3>2 DEF ReadSound
    <2>5. QED
      BY <1>2, <2>1, <2>3, <2>4 DEF ReadSound
  <1>6. DP!ReadHasCause'
    BY <1>2 DEF PagesInv, DP!ReadHasCause
  <1>7. QED
    BY <1>2, <1>3, <1>5, <1>6 DEF PagesInv, WindowInv, Inserting, PagesOf

LEMMA JoinKeeps == ASSUME PagesInv, NEW x \in Codes, DP!Join(x) PROVE PagesInv'
  <1>1. DP!TypeOK
    BY DEF PagesInv
  <1>2. /\ x \notin scope /\ scope' = scope \cup {x} /\ moves' = moves + 1 /\ moves < MaxMoves
        /\ joined' = IF reading THEN joined \cup {x} ELSE joined
        /\ UNCHANGED <<hits, inCall, reading, offset, got, left, missed, twice>>
    BY DEF DP!Join
  <1>3. DP!TypeOK'
    <2>1. moves' \in 0 .. MaxMoves
      BY <1>1, <1>2, PageTypes, StatementsAssumption
    <2>2. QED
      BY <1>1, <1>2, <2>1 DEF DP!TypeOK
  <1>4. ASSUME NEW u \in scope
        PROVE  /\ Rank(u) \in Nat /\ Rank(u)' \in Nat /\ Rank(u) <= Rank(u)'
               /\ x < u \/ Rank(u)' = Rank(u)
    <2>1. u \in Nat /\ x \in Nat /\ u # x
      BY <1>1, <1>2, PageTypes
    <2>2. scope \subseteq Nat /\ IsFiniteSet(scope) /\ scope' \subseteq Nat /\ IsFiniteSet(scope')
      <3>1. scope \subseteq Codes /\ scope' \subseteq Codes
        BY <1>1, <1>3 DEF DP!TypeOK
      <3>2. Codes \subseteq Nat /\ IsFiniteSet(Codes)
        BY StatementsAssumption
      <3>3. QED
        BY <3>1, <3>2, FS_Subset
    <2>3. /\ Cardinality(Below(scope, u)) \in Nat
          /\ IsFiniteSet(Below(scope', u)) /\ Cardinality(Below(scope', u)) \in Nat
      BY <2>1, <2>2, RankGrows
    <2>4. Below(scope, u) \subseteq Below(scope', u)
      BY <1>2 DEF Below
    <2>5. x < u \/ Below(scope', u) = Below(scope, u)
      BY <1>2, <2>1 DEF Below
    <2>6. QED
      BY <2>3, <2>4, <2>5, FS_Subset DEF Rank, Below
  <1>5. reading' => missed' = {} /\ ReadSound'
    <2> SUFFICES ASSUME reading PROVE missed = {} /\ ReadSound'
      BY <1>2
    <2>1. missed = {} /\ ReadSound /\ joined' = joined \cup {x}
      BY <1>2 DEF PagesInv
    <2>2. offset \in Nat /\ x \in Nat
      BY <1>1, PageTypes
    <2>3. ASSUME NEW u \in scope', u \notin joined', u \notin got
          PROVE  Rank(u)' >= offset \/ \E v \in left : v < u
      <3>1. u \in scope /\ u \notin joined
        BY <1>2, <2>1, <2>3
      <3>2. CASE \E v \in left : v < u
        BY <3>2
      <3>3. CASE Rank(u) >= offset
        BY <1>4, <2>2, <3>1, <3>3
      <3>4. QED
        BY <2>1, <2>3, <3>1, <3>2, <3>3 DEF ReadSound
    <2>4. ASSUME NEW u \in scope', u \in got
          PROVE  Rank(u)' < offset \/ \E v \in joined' : v <= u
      <3>1. CASE x <= u
        BY <2>1, <3>1
      <3>2. CASE ~ (x <= u)
        <4>1. u \in scope /\ u \in Nat /\ u # x
          BY <1>1, <1>2, <2>2, <3>2, PageTypes
        <4>2. ~ (x < u)
          BY <2>2, <3>2, <4>1
        <4>3. Rank(u)' = Rank(u)
          BY <1>4, <4>1, <4>2
        <4>4. QED
          BY <2>1, <2>4, <4>1, <4>3 DEF ReadSound
      <3>3. QED
        BY <3>1, <3>2
    <2>5. QED
      BY <1>2, <2>1, <2>3, <2>4 DEF ReadSound
  <1>6. DP!ReadHasCause'
    BY <1>2 DEF PagesInv, DP!ReadHasCause
  <1>7. QED
    BY <1>2, <1>3, <1>5, <1>6 DEF PagesInv, WindowInv, Inserting, PagesOf

\* A step of one call, of which only where it is changes: to nothing or to another step.
LEMMA CallTyped ==
  ASSUME DP!TypeOK, NEW c \in Calls, NEW p \in {None} \cup DP!Call, inCall' = [inCall EXCEPT ![c] = p]
  PROVE  /\ inCall' \in [Calls -> {None} \cup DP!Call]
         /\ inCall'[c] = p /\ \A d \in Calls \ {c} : inCall'[d] = inCall[d]
         /\ p # None /\ p.step = "insert" => Inserting' = Inserting \cup {c}
         /\ p = None \/ p.step # "insert" => Inserting' = Inserting \ {c}
         /\ p # None /\ p.page => PagesOf' = PagesOf \cup {c}
         /\ p = None \/ ~ p.page => PagesOf' = PagesOf \ {c}
  BY PageTypes DEF Inserting, PagesOf

\* A call is begun or goes on: what the application knows stays.
LEMMA CallKeeps ==
  ASSUME PagesInv, NEW c \in Calls, NEW p \in {None} \cup DP!Call, inCall' = [inCall EXCEPT ![c] = p],
         UNCHANGED <<scope, moves, reading, offset, got, left, joined, missed, twice>>,
         p # None /\ p.page => c \in PagesOf,
         hits' \in Nat, WindowInv'
  PROVE  PagesInv'
  <1>1. DP!TypeOK
    BY DEF PagesInv
  <1>2. DP!TypeOK'
    BY <1>1, CallTyped DEF DP!TypeOK
  <1>3. PagesOf' \subseteq PagesOf
    <2>1. p # None /\ p.page => PagesOf' = PagesOf \cup {c}
      BY <1>1, CallTyped
    <2>2. p = None \/ ~ p.page => PagesOf' = PagesOf \ {c}
      BY <1>1, CallTyped
    <2>3. QED
      BY <2>1, <2>2
  <1>4. QED
    BY <1>2, <1>3 DEF PagesInv, ReadSound, Rank, Below, DP!ReadHasCause

\* Fewer are about to insert: there is room.
LEMMA RoomStays ==
  ASSUME PagesInv, hits' \in Nat, hits' <= hits, Inserting' \subseteq Inserting
  PROVE  WindowInv'
  <1>1. Cardinality(Inserting') <= Cardinality(Inserting) /\ Cardinality(Inserting') \in Nat
    BY CallsCount, FS_Subset, FS_CardinalityType
  <1>2. hits \in Nat /\ Rate \in Nat
    BY PageTypes DEF PagesInv
  <1>3. QED
    BY <1>1, <1>2, CallsCount DEF PagesInv, WindowInv

LEMMA SlideKeeps == ASSUME PagesInv, DP!Slide PROVE PagesInv'
  <1>1. DP!TypeOK /\ hits \in Nat
    BY PageTypes DEF PagesInv
  <1>2. /\ hits > 0 /\ hits' = hits - 1
        /\ UNCHANGED <<scope, inCall, moves, reading, offset, got, left, joined, missed, twice>>
    BY DEF DP!Slide, DP!reader
  <1>3. hits' \in Nat /\ hits' <= hits /\ Inserting' = Inserting
    BY <1>1, <1>2 DEF Inserting
  <1>4. WindowInv'
    BY <1>3, RoomStays
  <1>5. DP!TypeOK'
    BY <1>1, <1>2, <1>3 DEF DP!TypeOK
  <1>6. QED
    BY <1>2, <1>4, <1>5 DEF PagesInv, PagesOf, ReadSound, Rank, Below, DP!ReadHasCause

LEMMA CountKeeps == ASSUME PagesInv, NEW c \in Calls, DP!Count(c) PROVE PagesInv'
  <1> DEFINE p == IF hits >= Rate THEN None ELSE [inCall[c] EXCEPT !.step = "insert"]
  <1>1. DP!TypeOK /\ hits \in Nat /\ Rate \in Nat /\ inCall[c] # None /\ inCall[c].step = "count"
    BY PageTypes DEF PagesInv, DP!Count, DP!At
  <1>2. inCall[c] \in DP!Call
    BY <1>1, PageTypes
  <1>3. /\ p \in {None} \cup DP!Call
        /\ p # None => p.step = "insert" /\ p.page = inCall[c].page /\ hits < Rate
    BY <1>1, <1>2 DEF DP!Call
  <1>4. /\ inCall' = [inCall EXCEPT ![c] = p]
        /\ UNCHANGED <<scope, hits, moves, reading, offset, got, left, joined, missed, twice>>
    BY DEF DP!Count, DP!TooMany, DP!Done, DP!Goto, DP!reader
  <1> HIDE DEF p
  <1>5. WindowInv'
    <2>1. CASE p = None
      <3>1. Inserting' = Inserting \ {c}
        BY <1>1, <1>3, <1>4, <2>1, CallTyped
      <3>2. QED
        BY <1>1, <1>4, <3>1, RoomStays
    <2>2. CASE p # None
      <3>1. Inserting' \subseteq Calls /\ IsFiniteSet(Calls)
        BY StatementsAssumption DEF Inserting
      <3>2. Cardinality(Inserting') <= Cardinality(Calls) /\ Cardinality(Inserting') \in Nat
        BY <3>1, FS_Subset, FS_CardinalityType
      <3>3. QED
        BY <1>1, <1>3, <1>4, <2>2, <3>2, CallsCount DEF WindowInv
    <2>3. QED
      BY <2>1, <2>2
  <1>6. p # None /\ p.page => c \in PagesOf
    BY <1>1, <1>3 DEF PagesOf
  <1>7. QED
    BY <1>1, <1>3, <1>4, <1>5, <1>6, CallKeeps

LEMMA InsertKeeps == ASSUME PagesInv, NEW c \in Calls, DP!Insert(c) PROVE PagesInv'
  <1> DEFINE p == [inCall[c] EXCEPT !.step = "query"]
  <1>1. DP!TypeOK /\ hits \in Nat /\ Rate \in Nat /\ inCall[c] # None /\ inCall[c].step = "insert"
    BY PageTypes DEF PagesInv, DP!Insert, DP!At
  <1>2. inCall[c] \in DP!Call
    BY <1>1, PageTypes
  <1>3. p \in DP!Call /\ p.step = "query" /\ p.page = inCall[c].page
    BY <1>2 DEF DP!Call
  <1>4. /\ inCall' = [inCall EXCEPT ![c] = p] /\ hits' = hits + 1
        /\ UNCHANGED <<scope, moves, reading, offset, got, left, joined, missed, twice>>
    BY DEF DP!Insert, DP!At, DP!Goto, DP!reader
  <1> HIDE DEF p
  <1>5. WindowInv'
    <2>1. Inserting' = Inserting \ {c} /\ c \in Inserting
      BY <1>1, <1>3, <1>4, CallTyped DEF Inserting
    <2>2. Cardinality(Inserting \ {c}) = Cardinality(Inserting) - 1
      BY <2>1, CallsCount, FS_RemoveElement
    <2>3. hits' + Cardinality(Inserting)' = hits + Cardinality(Inserting)
      BY <1>1, <1>4, <2>1, <2>2, CallsCount
    <2>4. QED
      BY <2>3 DEF PagesInv, WindowInv
  <1>6. p # None /\ p.page => c \in PagesOf
    BY <1>1, <1>3 DEF PagesOf
  <1>7. hits' \in Nat
    BY <1>1, <1>4
  <1>8. QED
    BY <1>3, <1>4, <1>5, <1>6, <1>7, CallKeeps

LEMMA OtherKeeps ==
  ASSUME PagesInv, NEW c \in Calls, DP!Other(c) \/ DP!Return(c) PROVE PagesInv'
  <1> DEFINE p == IF inCall[c] = None THEN [page |-> FALSE, step |-> "count"] ELSE None
  <1>1. DP!TypeOK /\ hits \in Nat
    BY PageTypes DEF PagesInv
  <1>2. p \in {None} \cup DP!Call /\ (p # None => p.step = "count" /\ ~ p.page)
    BY DEF DP!Call
  <1>3. /\ inCall' = [inCall EXCEPT ![c] = p]
        /\ UNCHANGED <<scope, hits, moves, reading, offset, got, left, joined, missed, twice>>
    BY DEF DP!Other, DP!Begin, DP!Return, DP!At, DP!Done, DP!reader
  <1> HIDE DEF p
  <1>4. WindowInv'
    <2>1. Inserting' = Inserting \ {c}
      BY <1>1, <1>2, <1>3, CallTyped
    <2>2. QED
      BY <1>1, <1>3, <2>1, RoomStays
  <1>5. QED
    BY <1>1, <1>2, <1>3, <1>4, CallKeeps

LEMMA AskPageKeeps ==
  ASSUME PagesInv, NEW c \in Calls, DP!StartRead(c) \/ DP!NextPage(c) PROVE PagesInv'
  <1> DEFINE p == [page |-> TRUE, step |-> "count"]
  <1>1. DP!TypeOK /\ hits \in Nat
    BY PageTypes DEF PagesInv
  <1>2. p \in DP!Call /\ p.step = "count" /\ p.page
    BY DEF DP!Call
  <1>3. inCall' = [inCall EXCEPT ![c] = p] /\ UNCHANGED <<scope, hits, moves>> /\ reading'
    BY DEF DP!StartRead, DP!NextPage, DP!Begin, DP!reader
  <1> HIDE DEF p
  <1>4. PagesOf = {}
    BY DEF PagesInv, DP!StartRead, DP!NextPage, DP!Paging, PagesOf
  <1>5. PagesOf' = {c}
    BY <1>1, <1>2, <1>3, <1>4, CallTyped, PageTypes
  <1>6. WindowInv'
    <2>1. Inserting' = Inserting \ {c}
      BY <1>1, <1>2, <1>3, CallTyped
    <2>2. QED
      BY <1>1, <1>3, <2>1, RoomStays
  <1>7. CASE UNCHANGED DP!reader
    <2>1. UNCHANGED <<reading, offset, got, left, joined, missed, twice>>
      BY <1>7 DEF DP!reader
    <2>2. DP!TypeOK'
      BY <1>1, <1>2, <1>3, <2>1, CallTyped DEF DP!TypeOK
    <2>3. QED
      BY <1>3, <1>5, <1>6, <2>1, <2>2 DEF PagesInv, ReadSound, Rank, Below, DP!ReadHasCause
  <1>8. CASE DP!StartRead(c)
    <2>1. /\ reading' = TRUE /\ offset' = 0 /\ got' = {} /\ left' = {} /\ joined' = {}
          /\ missed' = {} /\ twice' = {}
      BY <1>8 DEF DP!StartRead
    <2>2. DP!TypeOK'
      BY <1>1, <1>2, <1>3, <2>1, CallTyped DEF DP!TypeOK
    <2>3. ASSUME NEW u \in scope PROVE Rank(u)' \in Nat
      <3>1. Rank(u)' = Rank(u)
        BY <1>3 DEF Rank, Below
      <3>2. Rank(u) \in Nat
        BY <1>1, PageTypes, RankGrows DEF Rank
      <3>3. QED
        BY <3>1, <3>2
    <2>4. ReadSound'
      BY <1>3, <2>1, <2>3 DEF ReadSound
    <2>5. QED
      BY <1>3, <1>5, <1>6, <2>1, <2>2, <2>4 DEF PagesInv, DP!ReadHasCause
  <1>9. QED
    BY <1>7, <1>8 DEF DP!NextPage

\* A page is what lies from the offset on; it is short only when it reaches the end.
LEMMA PageIsNext ==
  ASSUME DP!TypeOK
  PROVE  /\ DP!PageNow \subseteq scope
         /\ \A u \in scope : Rank(u) \in Nat /\ (u \in DP!PageNow <=> Rank(u) >= offset /\ Rank(u) < offset + Limit)
         /\ Cardinality(DP!PageNow) \in Nat
         /\ Cardinality(DP!PageNow) # Limit => \A u \in scope : Rank(u) < offset + Limit
  <1> DEFINE F(n) == FirstOf(scope, n)
  <1>1. scope \subseteq Nat /\ IsFiniteSet(scope) /\ offset \in Nat /\ Limit \in Nat
    BY PageTypes
  <1>2. \A u \in scope : Rank(u) \in Nat
    BY <1>1, RankGrows DEF Rank
  <1>3. \A u \in scope : u \in DP!PageNow <=> Rank(u) >= offset /\ Rank(u) < offset + Limit
    BY <1>1, <1>2, SameSize DEF DP!PageNow, DP!Before, Rank, Below
  <1>4. DP!PageNow \subseteq scope
    BY DEF DP!PageNow
  <1>5. \A u \in scope, n \in Nat : u \in F(n) <=> Rank(u) < n
    BY DEF FirstOf, Rank
  <1>6. DP!PageNow = F(offset + Limit) \ F(offset) /\ F(offset) \subseteq F(offset + Limit)
    <2>1. F(offset) \subseteq scope /\ F(offset + Limit) \subseteq scope
      BY DEF FirstOf
    <2>2. offset + Limit \in Nat
      BY <1>1
    <2> HIDE DEF F
    <2>3. ASSUME NEW u \in scope PROVE /\ u \in DP!PageNow <=> u \in F(offset + Limit) /\ u \notin F(offset)
                                       /\ u \in F(offset) => u \in F(offset + Limit)
      BY <1>1, <1>2, <1>3, <1>5, <2>2
    <2>4. QED
      BY <1>4, <2>1, <2>3
  <1>7. \A n \in Nat : /\ IsFiniteSet(F(n)) /\ Cardinality(F(n)) \in Nat /\ Cardinality(F(n)) <= n
                       /\ F(n) # scope => Cardinality(F(n)) = n
    BY <1>1, FirstOfCount
  <1>s. \A n \in Nat : F(n) \subseteq scope
    BY DEF FirstOf
  <1> HIDE DEF F
  <1>8. /\ Cardinality(DP!PageNow) = Cardinality(F(offset + Limit)) - Cardinality(F(offset))
        /\ Cardinality(DP!PageNow) \in Nat
    <2>1. offset + Limit \in Nat
      BY <1>1
    <2>2. F(offset + Limit) \cap F(offset) = F(offset)
      BY <1>6
    <2>3. IsFiniteSet(F(offset + Limit)) /\ Cardinality(F(offset + Limit)) \in Nat
      BY <1>7, <2>1
    <2>4. /\ IsFiniteSet(DP!PageNow)
          /\ Cardinality(DP!PageNow) = Cardinality(F(offset + Limit)) - Cardinality(F(offset))
      BY <1>6, <2>2, <2>3, FS_Difference
    <2>5. QED
      BY <2>4, FS_CardinalityType
  <1>9. ASSUME Cardinality(DP!PageNow) # Limit PROVE F(offset + Limit) = scope
    <2> SUFFICES ASSUME F(offset + Limit) # scope PROVE FALSE
      OBVIOUS
    <2>1. offset + Limit \in Nat
      BY <1>1
    <2>2. Cardinality(F(offset + Limit)) = offset + Limit
      BY <1>7, <2>1
    <2>3. F(offset) # scope
      BY <1>6, <1>s, <2>1
    <2>4. Cardinality(F(offset)) = offset
      BY <1>1, <1>7, <2>3
    <2>5. QED
      BY <1>1, <1>8, <1>9, <2>2, <2>4
  <1>10. ASSUME Cardinality(DP!PageNow) # Limit, NEW u \in scope PROVE Rank(u) < offset + Limit
    <2>1. offset + Limit \in Nat
      BY <1>1
    <2>2. QED
      BY <1>5, <1>9, <1>10, <2>1
  <1>11. QED
    BY <1>2, <1>3, <1>4, <1>8, <1>10

LEMMA PageKeeps == ASSUME PagesInv, NEW c \in Calls, DP!Page(c) PROVE PagesInv'
  <1> DEFINE page == DP!PageNow
             size == Cardinality(page)
  <1>1. DP!TypeOK /\ hits \in Nat /\ offset \in Nat /\ Limit \in Nat /\ scope \subseteq Codes
        /\ got \subseteq Codes
    BY PageTypes DEF PagesInv
  <1>2. /\ page \subseteq scope
        /\ \A u \in scope : Rank(u) \in Nat /\ (u \in page <=> Rank(u) >= offset /\ Rank(u) < offset + Limit)
        /\ size \in Nat
        /\ size # Limit => \A u \in scope : Rank(u) < offset + Limit
    BY <1>1, PageIsNext
  <1>3. /\ inCall' = [inCall EXCEPT ![c] = None]
        /\ got' = got \cup page /\ twice' = twice \cup (got \cap page)
        /\ offset' = offset + size /\ reading' = (size = Limit)
        /\ missed' = IF reading' THEN {} ELSE (scope \ joined) \ got'
        /\ UNCHANGED <<scope, hits, moves, left, joined>>
        /\ c \in PagesOf
    BY SameSize DEF DP!Page, DP!At, DP!Done, PagesOf
  <1> HIDE DEF page, size
  <1>4. reading /\ PagesOf = {c} /\ missed = {} /\ ReadSound
    BY <1>3 DEF PagesInv
  <1>5. PagesOf' = {}
    BY <1>1, <1>3, <1>4, CallTyped
  <1>6. WindowInv'
    <2>1. Inserting' = Inserting \ {c}
      BY <1>1, <1>3, CallTyped
    <2>2. QED
      BY <1>1, <1>3, <2>1, RoomStays
  <1>7. DP!TypeOK'
    <2>1. inCall' \in [Calls -> {None} \cup DP!Call]
      BY <1>1, <1>3, CallTyped
    <2>2. got' \subseteq Codes /\ twice' \subseteq Codes /\ missed' \subseteq Codes
      BY <1>1, <1>2, <1>3 DEF DP!TypeOK
    <2>3. offset' \in Nat /\ reading' \in BOOLEAN
      BY <1>1, <1>2, <1>3
    <2>4. QED
      BY <1>1, <1>3, <2>1, <2>2, <2>3 DEF DP!TypeOK
  <1>8. ASSUME NEW u \in twice' PROVE \E v \in joined' : v <= u
    <2>1. CASE u \in twice
      BY <1>3, <2>1 DEF PagesInv, DP!ReadHasCause
    <2>2. CASE u \in got /\ u \in page
      <3>1. u \in scope /\ Rank(u) \in Nat /\ Rank(u) >= offset
        BY <1>2, <2>2
      <3>2. QED
        BY <1>1, <1>3, <1>4, <2>2, <3>1 DEF ReadSound
    <2>3. QED
      BY <1>3, <1>8, <2>1, <2>2
  <1>9. ASSUME NEW u \in missed' PROVE \E v \in left' : v < u
    <2>1. ~ reading' /\ u \in scope /\ u \notin joined /\ u \notin got /\ u \notin page
      BY <1>3, <1>9
    <2>2. size # Limit
      BY <1>3, <2>1
    <2>3. Rank(u) \in Nat /\ ~ (Rank(u) >= offset)
      BY <1>2, <2>1, <2>2
    <2>4. QED
      BY <1>3, <1>4, <2>1, <2>3 DEF ReadSound
  <1>10. ASSUME reading' PROVE ReadSound'
    <2>1. size = Limit /\ offset' = offset + Limit
      BY <1>3, <1>10
    <2>2. ASSUME NEW u \in scope PROVE Rank(u)' = Rank(u)
      BY <1>3 DEF Rank, Below
    <2>3. ASSUME NEW u \in scope, u \notin joined, u \notin got'
          PROVE  Rank(u) >= offset' \/ \E v \in left : v < u
      <3>1. u \notin got /\ ~ (Rank(u) >= offset /\ Rank(u) < offset + Limit) /\ Rank(u) \in Nat
        BY <1>2, <1>3, <2>3
      <3>2. QED
        BY <1>1, <1>4, <2>1, <2>3, <3>1 DEF ReadSound
    <2>4. ASSUME NEW u \in scope, u \in got'
          PROVE  Rank(u) < offset' \/ \E v \in joined : v <= u
      <3>1. CASE u \in page
        BY <1>2, <2>1, <3>1
      <3>2. CASE u \in got
        <4>1. Rank(u) \in Nat
          BY <1>2
        <4>2. QED
          BY <1>1, <1>4, <2>1, <3>2, <4>1 DEF ReadSound
      <3>3. QED
        BY <1>3, <2>4, <3>1, <3>2
    <2>5. QED
      BY <1>3, <2>2, <2>3, <2>4 DEF ReadSound
  <1>11. QED
    BY <1>3, <1>5, <1>6, <1>7, <1>8, <1>9, <1>10 DEF PagesInv, DP!ReadHasCause

LEMMA PagesInvStep == PagesInv /\ [DP!Next]_pageVars => PagesInv'
  <1> SUFFICES ASSUME PagesInv, [DP!Next]_pageVars PROVE PagesInv'
    OBVIOUS
  <1>1. CASE UNCHANGED pageVars
    BY <1>1 DEF pageVars, PagesInv, DP!TypeOK, WindowInv, Inserting, PagesOf, ReadSound, Rank, Below,
       DP!ReadHasCause
  <1>2. QED
    BY <1>1, LeaveKeeps, JoinKeeps, SlideKeeps, CountKeeps, InsertKeeps, OtherKeeps, AskPageKeeps,
       PageKeeps DEF DP!Next

LEMMA PagesAreSound == PagesInv => DP!PagesSound
  <1> SUFFICES ASSUME PagesInv PROVE DP!PagesSound
    OBVIOUS
  <1>1. hits \in Nat /\ Rate \in Nat
    BY PageTypes DEF PagesInv
  <1>2. hits < Rate + Cardinality(Calls)
    BY <1>1, CallsCount DEF PagesInv, WindowInv
  <1>3. QED
    BY <1>2, SameSize DEF PagesInv, DP!PagesSound, DP!WindowBounded
-----------------------------------------------------------------------------
(* The three together. *)

StatementsVars == <<subject, storeVars, expiryVars, pageVars>>

LEMMA OneMoves ==
  [StatementsNext]_StatementsVars =>
    [Next]_vars /\ [WA!Next]_expiryVars /\ [DP!Next]_pageVars
  BY DEF StatementsNext, StatementsVars, storeVars

StatementsInv == TypeInv /\ WarningsInv /\ PagesInv

LEMMA StatementsInvariance == StatementsSpec => []StatementsInv
  <1>1. StatementsInit => StatementsInv
    BY TypeInvInit, WarningsInvInit, PagesInvInit DEF StatementsInit, StatementsInv
  <1>2. StatementsInv /\ [StatementsNext]_StatementsVars => StatementsInv'
    BY OneMoves, TypeInvStep, WarningsInvStep, PagesInvStep DEF StatementsInv
  <1>3. QED
    BY <1>1, <1>2, PTL DEF StatementsSpec, StatementsVars

\* However many instances run the expiry cron at once and wherever one stops, a user is mailed
\* no warning twice for one date unless two runs had read him before either marked him, one
\* who was due was mailed unless the run that held him stopped, and the sessions of an expired
\* account are over unless it did (expiry.service).
THEOREM WarningsAreRight == StatementsSpec => []WarningsSound
  <1>1. StatementsInv => WarningsSound
    BY WarningsAreSound DEF StatementsInv, WarningsSound
  <1>2. QED
    BY <1>1, StatementsInvariance, PTL

\* A walk through the directory by offset skips a person only if somebody before him left
\* while it went on, and meets one twice only if somebody joined; and the calls that got in
\* within a window are over the rate by less than the calls in flight
\* (listUsers and rateLimit in directory.service).
THEOREM PagesAreRight == StatementsSpec => []PagesSound
  <1>1. StatementsInv => PagesSound
    BY PagesAreSound DEF StatementsInv, PagesSound
  <1>2. QED
    BY <1>1, StatementsInvariance, PTL

\* Each of the three machines keeps its types.
THEOREM StatementsTypes == StatementsSpec => []AllTyped
  <1>1. StatementsInv => AllTyped
    BY DEF StatementsInv, TypeInv, WarningsInv, PagesInv, AllTyped
  <1>2. QED
    BY <1>1, StatementsInvariance, PTL
=============================================================================
