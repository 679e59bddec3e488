------------------------------ MODULE SettingsForm ------------------------------
(***************************************************************************)
(* The page on which an administrator changes run-time parameters, one row   *)
(* and one button a parameter: portal-fe/src/pages/Settings.tsx, with what   *)
(* SettingsAdminController lists and stores.  The parameters themselves are  *)
(* in Settings.                                                             *)
(*                                                                         *)
(* One flag says which row is being saved.  It keeps the button of that row  *)
(* from being pressed again, not the Enter key, and the end of any save      *)
(* clears it.                                                              *)
(*                                                                         *)
(* Left out: which values a parameter takes (an answer may be a refusal),    *)
(* the test mail, the layout.                                               *)
(***************************************************************************)
EXTENDS Naturals

CONSTANTS
  Keys, Secret,   \* parameters; those that are never shown (SECRET_KEYS)
  MaxSaves,       \* bound: saves
  MaxElsewhere    \* bound: values another administrator stores

VARIABLES
  stored,     \* parameter -> value of the table
  loading,    \* "asked", "read" or "done": the list of the parameters
  answer,     \* what the list will show
  shown,      \* parameter -> value of its row
  draft,      \* parameter -> text of its field
  savingKey,  \* at most one parameter
  saves,      \* requests in flight: [n, key, value, served, refused]
  count, elsewhere,
  typed,      \* history: parameter -> {} or {what was typed last}
  cleared,    \* history: secrets a save of which ended well since something was typed
  excused     \* history: parameters with a cause to differ from their row

vars == <<stored, loading, answer, shown, draft, savingKey, saves, count, elsewhere,
          typed, cleared, excused>>
page == <<shown, draft, savingKey, typed, cleared>>

\* Texts: nothing, blanks, something.  SET stands for SECRET_SET.
Texts == {"", " ", "a"}
Trim(t) == IF t = " " THEN "" ELSE t
Masked(k, v) == IF k \in Secret /\ v # "" THEN "SET" ELSE v
Save == [n: 1 .. MaxSaves, key: Keys, value: Texts, served: BOOLEAN, refused: BOOLEAN]

TypeOK ==
  /\ stored \in [Keys -> {"", "a", "other"}]
  /\ loading \in {"asked", "read", "done"}
  /\ shown \in [Keys -> Texts \cup {"other", "SET"}]
  /\ answer \in [Keys -> Texts \cup {"other", "SET"}]
  /\ draft \in [Keys -> Texts \cup {"other"}]
  /\ savingKey \subseteq Keys /\ saves \subseteq Save
  /\ count \in 0 .. MaxSaves /\ elsewhere \in 0 .. MaxElsewhere
  /\ typed \in [Keys -> SUBSET Texts]
  /\ cleared \subseteq Secret /\ excused \subseteq Keys

Init ==
  /\ stored \in [Keys -> {"", "a"}]
  /\ loading = "asked" /\ answer = [k \in Keys |-> ""]
  /\ shown = [k \in Keys |-> ""] /\ draft = [k \in Keys |-> ""]
  /\ savingKey = {} /\ saves = {} /\ count = 0 /\ elsewhere = 0
  /\ typed = [k \in Keys |-> {}] /\ cleared = {} /\ excused = {}
-----------------------------------------------------------------------------
(* load(): the fields of secrets stay empty.  While it lasts there is no form. *)

List ==
  /\ loading = "asked" /\ loading' = "read"
  /\ answer' = [k \in Keys |-> Masked(k, stored[k])]
  /\ UNCHANGED <<stored, page, saves, count, elsewhere, excused>>
Loaded ==
  /\ loading = "read" /\ loading' = "done"
  /\ shown' = answer
  /\ draft' = [k \in Keys |-> IF k \in Secret THEN "" ELSE answer[k]]
  /\ UNCHANGED <<stored, answer, savingKey, saves, count, elsewhere, typed, cleared, excused>>

\* Another administrator.
Elsewhere(k) ==
  /\ elsewhere < MaxElsewhere /\ elsewhere' = elsewhere + 1
  /\ stored' = [stored EXCEPT ![k] = "other"]
  /\ excused' = excused \cup {k}
  /\ UNCHANGED <<loading, answer, page, saves, count>>
-----------------------------------------------------------------------------
(* A row. *)

Type(k, t) ==
  /\ loading = "done" /\ draft[k] # t
  /\ draft' = [draft EXCEPT ![k] = t]
  /\ typed' = [typed EXCEPT ![k] = {t}] /\ cleared' = cleared \ {k}
  /\ UNCHANGED <<stored, loading, answer, shown, savingKey, saves, count, elsewhere, excused>>

Changed(k) == IF k \in Secret THEN draft[k] # "" ELSE draft[k] # shown[k]
Ours(k)    == {s \in saves : s.key = k}
Send(k) ==
  /\ loading = "done" /\ Changed(k) /\ count < MaxSaves
  /\ draft[k] \in Texts
  /\ count' = count + 1 /\ savingKey' = {k}
  /\ saves' = saves \cup {[n |-> count + 1, key |-> k, value |-> draft[k],
                           served |-> FALSE, refused |-> FALSE]}
  /\ excused' = IF Ours(k) = {} THEN excused ELSE excused \cup {k}
  /\ UNCHANGED <<stored, loading, answer, shown, draft, elsewhere, typed, cleared>>
Click(k)      == savingKey # {k} /\ Send(k)
PressEnter(k) == Send(k)

\* PUT: trimmed, checked, stored.
Put(s) ==
  /\ ~s.served
  /\ \E refused \in BOOLEAN :
       /\ saves' = (saves \ {s}) \cup {[s EXCEPT !.served = TRUE, !.refused = refused]}
       /\ stored' = IF refused THEN stored ELSE [stored EXCEPT ![s.key] = Trim(s.value)]
  /\ excused' = IF Trim(s.value) # s.value THEN excused \cup {s.key} ELSE excused
  /\ UNCHANGED <<loading, answer, page, count, elsewhere>>

\* The row takes what was sent; the field of a secret is emptied, whatever was
\* typed in it since.
AllFields(k) == [j \in Keys |-> IF j \in Secret THEN "" ELSE shown'[j]]   \* (mutation)
OneField(k)  == IF k \in Secret THEN [draft EXCEPT ![k] = ""] ELSE draft
Saved(s) ==
  /\ s.served /\ ~s.refused /\ saves' = saves \ {s} /\ savingKey' = {}
  /\ shown' = [shown EXCEPT ![s.key] = IF s.key \in Secret THEN "SET" ELSE s.value]
  /\ draft' = OneField(s.key)
  /\ cleared' = cleared \cup ({s.key} \cap Secret)
  /\ UNCHANGED <<stored, loading, answer, count, elsewhere, typed, excused>>
\* message.error: refused, or the answer is lost.
Failed(s) ==
  /\ s.served /\ saves' = saves \ {s} /\ savingKey' = {}
  /\ excused' = IF s.refused THEN excused ELSE excused \cup {s.key}
  /\ UNCHANGED <<stored, loading, answer, shown, draft, count, elsewhere, typed, cleared>>

Next ==
  \/ List \/ Loaded
  \/ \E k \in Keys : \/ Elsewhere(k) \/ Click(k) \/ PressEnter(k)
                     \/ \E t \in Texts : Type(k, t)
  \/ \E s \in saves : Put(s) \/ Saved(s) \/ Failed(s)
-----------------------------------------------------------------------------
\* "Đã lưu": a row without a save in flight shows what is stored, unless another
\* administrator stored something, two saves of the row were in flight together, an
\* answer was lost, or blanks were cut off what was typed: a secret of blanks is
\* deleted and shown as set.
RowHasCause ==
  loading = "done" =>
    \A k \in Keys \ excused : Ours(k) = {} => shown[k] = Masked(k, stored[k])

\* "CHỈ cập nhật đúng key vừa lưu" (Settings.tsx:205): what was typed in a field is
\* there until it is typed over; but for a secret of which a save ends.
NothingSwallowed ==
  \A k \in Keys : \A t \in typed[k] : draft[k] = t \/ k \in cleared

FormSound == RowHasCause /\ NothingSwallowed
=============================================================================
