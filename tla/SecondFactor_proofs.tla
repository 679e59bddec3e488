------------------------- MODULE SecondFactor_proofs -------------------------
(***************************************************************************)
(* Theorems about SecondFactor, for any number of requests, secrets,        *)
(* recovery codes and time steps.                                           *)
(***************************************************************************)
EXTENDS SecondFactor, FiniteSetTheorems, TLAPS

LEMMA FactorIsRow == ASSUME TypeOK, factor # None PROVE factor \in Factor
  BY DEF TypeOK

LEMMA TypeInit == Init => TypeOK
  BY FactorAssumption DEF Init, TypeOK

\* The end of a request, and its next statement, keep the requests' types.
LEMMA RequestTypes ==
  ASSUME TypeOK, NEW r \in Reqs,
         \/ Finish(r)
         \/ \E step \in {"dropCodes", "wipe", "insert"} :
              Goto(r, step) /\ UNCHANGED <<op, held, inserted>>
         \/ Goto(r, "dropFactor") /\ held[r] \in Code /\ UNCHANGED <<op, held, inserted>>
         \/ UNCHANGED <<pc, op, held, inserted>>
  PROVE  /\ pc' \in [Reqs -> {"idle", "begin", "confirm", "wipe", "insert",
                              "stamp", "use", "dropFactor", "dropCodes"}]
         /\ op' \in [Reqs -> {"enrol", "login", "disable"} \cup {None}]
         /\ held' \in [Reqs -> Code \cup {None}]
         /\ \A q \in Reqs : pc'[q] \in {"confirm", "stamp", "use", "dropFactor"} => held'[q] \in Code
         /\ inserted' \in [Reqs -> Nat]
  BY DEF TypeOK, Finish, Goto

LEMMA TypeStep == TypeOK /\ [Next]_vars => TypeOK'
  <1> SUFFICES ASSUME TypeOK, [Next]_vars PROVE TypeOK'
    OBVIOUS
  <1>1. ASSUME NEW r \in Reqs, AskEnrol(r) PROVE TypeOK'
    BY <1>1 DEF AskEnrol, Enter, Goto, TypeOK, rows, history
  <1>2. ASSUME NEW r \in Reqs, BeginEnrol(r) PROVE TypeOK'
    <2>1. factor' \in Factor /\ minted' \subseteq Secrets \cup Codes
      BY <1>2, FactorAssumption DEF BeginEnrol, TypeOK, Factor, Fresh
    <2>2. forgotten' \subseteq Secrets
      BY <1>2, FactorIsRow DEF BeginEnrol, TypeOK, Factor
    <2>3. overtaken' \subseteq Reqs
      BY <1>2 DEF BeginEnrol, Finish, TypeOK
    <2>4. QED
      BY <1>2, <2>1, <2>2, <2>3, RequestTypes DEF BeginEnrol, TypeOK
  <1>3. ASSUME NEW r \in Reqs, NEW step \in Steps, NEW o \in {"enrol", "login", "disable"},
               NEW next \in {"confirm", "stamp"},
               factor # None, Enter(r, o, next, TotpCode(step)), UNCHANGED <<rows, history>>
        PROVE TypeOK'
    <2>1. TotpCode(step) \in Code
      BY <1>3, FactorIsRow, FactorAssumption DEF TotpCode, Code, Factor
    <2>2. QED
      BY <1>3, <2>1 DEF Enter, Goto, TypeOK, rows, history
  <1>4. ASSUME NEW r \in Reqs, ConfirmEnrol(r) PROVE TypeOK'
    <2>1. held[r] \in Code
      BY <1>4 DEF ConfirmEnrol, TypeOK
    <2>2. factor' \in Factor \cup {None}
      BY <1>4, <2>1, FactorIsRow DEF ConfirmEnrol, Factor, Code
    <2>3. forgotten' \subseteq Secrets
      BY <1>4, FactorIsRow DEF ConfirmEnrol, TypeOK, Factor
    <2>4. QED
      BY <1>4, <2>1, <2>2, <2>3, RequestTypes DEF ConfirmEnrol, TypeOK
  <1>5. ASSUME NEW r \in Reqs, WipeCodes(r) PROVE TypeOK'
    BY <1>5, RequestTypes DEF WipeCodes, Wiped, TypeOK, history
  <1>6. ASSUME NEW r \in Reqs, InsertCode(r) PROVE TypeOK'
    <2>1. recovery' \subseteq Codes /\ minted' \subseteq Secrets \cup Codes
      BY <1>6 DEF InsertCode, TypeOK, Fresh
    <2>2. /\ overtaken' \subseteq Reqs
          /\ pc' \in [Reqs -> {"idle", "begin", "confirm", "wipe", "insert",
                               "stamp", "use", "dropFactor", "dropCodes"}]
          /\ op' \in [Reqs -> {"enrol", "login", "disable"} \cup {None}]
          /\ held' \in [Reqs -> Code \cup {None}]
          /\ \A q \in Reqs : pc'[q] \in {"confirm", "stamp", "use", "dropFactor"} => held'[q] \in Code
          /\ inserted' \in [Reqs -> Nat]
      <3>1. CASE inserted[r] + 1 = PerSet
        BY <1>6, <3>1, RequestTypes DEF InsertCode, Finish, TypeOK
      <3>2. CASE inserted[r] + 1 # PerSet
        BY <1>6, <3>2 DEF InsertCode, TypeOK
      <3>3. QED
        BY <3>1, <3>2
    <2>3. QED
      BY <1>6, <2>1, <2>2 DEF InsertCode, TypeOK
  <1>7. ASSUME NEW r \in Reqs, Stamp(r) PROVE TypeOK'
    <2>1. CASE Newer(held[r].step)
      <3>1. held[r] \in Code /\ factor \in Factor
        BY <1>7, <2>1, FactorIsRow DEF Stamp, Newer, TypeOK
      <3>2. factor' \in Factor /\ spent' \subseteq Code /\ twice' \subseteq Code
        BY <1>7, <2>1, <3>1 DEF Stamp, Spend, Factor, Code, TypeOK
      <3>3. overtaken' \subseteq Reqs
        BY <1>7, <2>1 DEF Stamp, Accept, Finish, TypeOK
      <3>4. QED
        BY <1>7, <2>1, <3>1, <3>2, <3>3, RequestTypes DEF Stamp, Accept, TypeOK
    <2>2. CASE ~Newer(held[r].step)
      BY <1>7, <2>2, RequestTypes DEF Stamp, Finish, TypeOK
    <2>3. QED
      BY <2>1, <2>2
  <1>8. ASSUME NEW r \in Reqs, NEW o \in {"login", "disable"}, NEW c \in Codes,
               ReadForRecovery(r, o, c) PROVE TypeOK'
    BY <1>8 DEF ReadForRecovery, Enter, Goto, Code, TypeOK, rows, history
  <1>9. ASSUME NEW r \in Reqs, UseCode(r) PROVE TypeOK'
    <2>1. CASE Unused(held[r].of)
      <3>1. held[r] \in Code
        BY <1>9 DEF UseCode, TypeOK
      <3>2. spent' \subseteq Code /\ twice' \subseteq Code /\ recovery' \subseteq Codes
        BY <1>9, <2>1, <3>1 DEF UseCode, Spend, TypeOK
      <3>3. overtaken' \subseteq Reqs
        BY <1>9, <2>1 DEF UseCode, Accept, Finish, TypeOK
      <3>4. QED
        BY <1>9, <2>1, <3>1, <3>2, <3>3, RequestTypes DEF UseCode, Accept, TypeOK
    <2>2. CASE ~Unused(held[r].of)
      BY <1>9, <2>2, RequestTypes DEF UseCode, Finish, TypeOK
    <2>3. QED
      BY <2>1, <2>2
  <1>10. ASSUME NEW r \in Reqs, DropFactor(r) PROVE TypeOK'
    <2>1. forgotten' \subseteq Secrets
      BY <1>10, FactorIsRow DEF DropFactor, TypeOK, Factor
    <2>2. QED
      BY <1>10, <2>1, RequestTypes DEF DropFactor, TypeOK
  <1>11. ASSUME NEW r \in Reqs, DropCodes(r) PROVE TypeOK'
    BY <1>11, RequestTypes DEF DropCodes, Finish, TypeOK, history
  <1>12. ASSUME NEW r \in Reqs, Abort(r) PROVE TypeOK'
    BY <1>12, RequestTypes DEF Abort, Finish, TypeOK, rows, history
  <1>13. CASE UNCHANGED vars
    BY <1>13 DEF TypeOK, vars, rows, history
  <1>14. QED
    BY <1>1, <1>2, <1>3, <1>4, <1>5, <1>6, <1>7, <1>8, <1>9, <1>10, <1>11, <1>12, <1>13
    DEF Next, Enrol, Check, ReadForConfirm, ReadForVerify

\* The factor, the recovery codes and the requests keep their types.
THEOREM TypeCorrect == Spec => []TypeOK
  BY TypeInit, TypeStep, PTL DEF Spec
-----------------------------------------------------------------------------
(* What a request at work may rely on. *)
RequestOK(r) ==
  /\ pc[r] \in {"confirm", "stamp"} => held[r].of \in Secrets /\ held[r].of \in minted
  /\ pc[r] = "use" => held[r].of \in Codes /\ held[r].of \in minted
  /\ pc[r] = "dropFactor" => held[r] \in spent
  /\ (pc[r] = "begin" /\ Enabled) => r \in overtaken

\* The account's record of a secret: nothing of it was accepted beyond last.
Recorded(s) ==
  /\ factor # None /\ factor.secret = s
  /\ \A c \in spent : c.of = s => c.step <= factor.last

LedgerOK ==
  /\ factor # None => factor.secret \in minted
  /\ recovery \subseteq minted
  /\ \A c \in spent : c.of \in minted /\ c.of \notin recovery
  /\ \A s \in Secrets \cap minted : s \in forgotten \/ Recorded(s)
  /\ CodeOnce

FactorInv == TypeOK /\ LedgerOK /\ \A r \in Reqs : RequestOK(r)

LEMMA FactorInvInit == Init => FactorInv
  BY TypeInit DEF Init, FactorInv, LedgerOK, RequestOK, Recorded, CodeOnce

\* Requests other than the one that moves are not disturbed.
LEMMA RequestsKeep ==
  ASSUME FactorInv, TypeOK', NEW r \in Reqs, RequestOK(r)',
         \A q \in Reqs \ {r} : /\ pc'[q] = pc[q] /\ held'[q] = held[q]
                               /\ pc[q] = "begin" /\ q \in overtaken => q \in overtaken',
         minted \subseteq minted', spent \subseteq spent',
         \/ Enabled' => Enabled
         \/ \A q \in Reqs : pc[q] = "begin" => q \in overtaken'
  PROVE  \A q \in Reqs : RequestOK(q)'
  BY DEF FactorInv, RequestOK

\* The record is unchanged when what it is made of is.
LEMMA LedgerKeeps ==
  ASSUME FactorInv, UNCHANGED <<factor, recovery, minted, spent, twice, forgotten>>
  PROVE  LedgerOK'
  BY DEF FactorInv, LedgerOK, Recorded, CodeOnce

\* A secret is replaced or deleted: its record goes with it.
LEMMA LedgerForgets ==
  ASSUME FactorInv, TypeOK', UNCHANGED <<recovery, spent, twice>>,
         forgotten' = IF factor = None THEN forgotten ELSE forgotten \cup {factor.secret},
         \/ factor' = None /\ minted' = minted
         \/ \E s \in Secrets \ minted :
              /\ minted' = minted \cup {s}
              /\ factor' = [secret |-> s, enabled |-> FALSE, last |-> 0]
  PROVE  LedgerOK'
  <1>1. minted \subseteq minted' /\ recovery' \subseteq minted' /\ CodeOnce'
    BY DEF FactorInv, LedgerOK, CodeOnce
  <1>2. factor' # None => factor'.secret \in minted'
    OBVIOUS
  <1>3. \A c \in spent' : c.of \in minted' /\ c.of \notin recovery'
    BY <1>1 DEF FactorInv, LedgerOK
  <1>4. ASSUME NEW s \in Secrets, s \in minted' PROVE s \in forgotten' \/ Recorded(s)'
    <2>1. CASE s \in minted
      BY <2>1 DEF FactorInv, LedgerOK, Recorded
    <2>2. CASE s \notin minted
      <3>1. factor' = [secret |-> s, enabled |-> FALSE, last |-> 0]
        BY <1>4, <2>2
      <3>2. factor' \in Factor
        BY <1>4, <3>1 DEF Factor
      <3>3. factor' # None
        BY <3>2, FactorAssumption DEF Factor
      <3>4. \A c \in spent' : c.of # s
        BY <2>2 DEF FactorInv, LedgerOK
      <3>5. QED
        BY <3>1, <3>3, <3>4 DEF Recorded
    <2>3. QED
      BY <2>1, <2>2
  <1>5. QED
    BY <1>1, <1>2, <1>3, <1>4 DEF LedgerOK

\* A code of a secret is accepted and written down as the last step.
LEMMA LedgerStamps ==
  ASSUME FactorInv, TypeOK', factor # None, factor' # None, NEW c \in Code,
         c.of \in Secrets, c.of \in minted, UNCHANGED <<recovery, minted>>,
         factor'.secret = factor.secret, factor'.last = c.step,
         spent' = spent \cup {c}, forgotten \subseteq forgotten',
         c.step < factor.last => factor.secret \in forgotten',
         \A d \in twice' : d \in twice \/ d.of \in forgotten'
  PROVE  LedgerOK'
  <1>1. /\ factor.last \in Nat /\ c.step \in Nat
        /\ spent \subseteq Code /\ recovery \subseteq Codes
        /\ \A d \in spent : d.step \in Nat
    BY FactorIsRow DEF FactorInv, TypeOK, Factor, Code
  <1>2. c.of \notin recovery
    BY <1>1, FactorAssumption
  <1>3. /\ factor'.secret \in minted' /\ recovery' \subseteq minted' /\ CodeOnce'
        /\ \A d \in spent' : d.of \in minted' /\ d.of \notin recovery'
    BY <1>2 DEF FactorInv, LedgerOK, CodeOnce
  <1>4. ASSUME NEW s \in Secrets, s \in minted' PROVE s \in forgotten' \/ Recorded(s)'
    <2>1. s \in forgotten \/ Recorded(s)
      BY <1>4 DEF FactorInv, LedgerOK
    <2>2. CASE Recorded(s) /\ factor.last <= c.step
      BY <1>1, <2>2 DEF Recorded
    <2>3. CASE Recorded(s) /\ ~(factor.last <= c.step)
      BY <1>1, <2>3 DEF Recorded
    <2>4. QED
      BY <2>1, <2>2, <2>3
  <1>5. QED
    BY <1>3, <1>4 DEF LedgerOK

LEMMA FactorInvStep == FactorInv /\ [Next]_vars => FactorInv'
  <1> SUFFICES ASSUME FactorInv, [Next]_vars PROVE FactorInv'
    OBVIOUS
  <1>0. TypeOK /\ TypeOK'
    BY TypeStep DEF FactorInv
  <1>1. ASSUME NEW r \in Reqs, AskEnrol(r) PROVE FactorInv'
    <2>1. RequestOK(r)'
      BY <1>0, <1>1 DEF AskEnrol, EnrolAllowed, Enter, Goto, RequestOK, Enabled, TypeOK, rows, history
    <2>2. \A q \in Reqs : RequestOK(q)'
      BY <1>0, <1>1, <2>1, RequestsKeep DEF AskEnrol, Enter, Goto, Enabled, TypeOK, rows, history
    <2>3. QED
      BY <1>0, <1>1, <2>2, LedgerKeeps DEF AskEnrol, FactorInv, rows, history
  <1>2. ASSUME NEW r \in Reqs, BeginEnrol(r) PROVE FactorInv'
    <2>1. ~Enabled'
      BY <1>2 DEF BeginEnrol, Enabled
    <2>2. RequestOK(r)'
      BY <1>0, <1>2, <2>1 DEF BeginEnrol, Finish, Goto, RequestOK, TypeOK
    <2>3. \A q \in Reqs : RequestOK(q)'
      BY <1>0, <1>2, <2>1, <2>2, RequestsKeep DEF BeginEnrol, Finish, Goto, TypeOK
    <2>4. LedgerOK'
      BY <1>0, <1>2, LedgerForgets DEF BeginEnrol, Fresh
    <2>5. QED
      BY <1>0, <2>3, <2>4 DEF FactorInv
  <1>3. ASSUME NEW r \in Reqs, NEW step \in Steps, NEW o \in {"enrol", "login", "disable"},
               NEW next \in {"confirm", "stamp"},
               factor # None, Enter(r, o, next, TotpCode(step)), UNCHANGED <<rows, history>>
        PROVE FactorInv'
    <2>1. factor.secret \in Secrets /\ factor.secret \in minted
      BY <1>0, <1>3, FactorIsRow DEF FactorInv, LedgerOK, Factor
    <2>2. RequestOK(r)'
      BY <1>0, <1>3, <2>1 DEF Enter, Goto, TotpCode, RequestOK, TypeOK, history
    <2>3. \A q \in Reqs : RequestOK(q)'
      BY <1>0, <1>3, <2>2, RequestsKeep DEF Enter, Goto, Enabled, TypeOK, rows, history
    <2>4. QED
      BY <1>0, <1>3, <2>3, LedgerKeeps DEF FactorInv, rows, history
  <1>4. ASSUME NEW r \in Reqs, ConfirmEnrol(r) PROVE FactorInv'
    <2>1. held[r] \in Code /\ held[r].of \in Secrets /\ held[r].of \in minted
      BY <1>0, <1>4 DEF ConfirmEnrol, FactorInv, RequestOK, TypeOK
    <2>2. RequestOK(r)'
      BY <1>0, <1>4 DEF ConfirmEnrol, Goto, RequestOK, TypeOK
    <2>3. Enabled' => \A q \in Reqs : pc[q] = "begin" => q \in overtaken'
      BY <1>4 DEF ConfirmEnrol, Enabled
    <2>4. \A q \in Reqs : RequestOK(q)'
      BY <1>0, <1>4, <2>2, <2>3, RequestsKeep DEF ConfirmEnrol, Goto, TypeOK
    <2>5. LedgerOK'
      <3>1. CASE factor = None
        <4>1. \A s \in Secrets \cap minted : s \in forgotten
          BY <3>1 DEF FactorInv, LedgerOK, Recorded
        <4>2. held[r].of \notin recovery
          BY <1>0, <2>1, FactorAssumption DEF TypeOK
        <4>3. QED
          BY <1>4, <2>1, <3>1, <4>1, <4>2 DEF ConfirmEnrol, FactorInv, LedgerOK, CodeOnce
      <3>2. CASE factor # None
        <4>1. factor' = [factor EXCEPT !.enabled = TRUE, !.last = held[r].step] /\ factor \in Factor
          BY <1>0, <1>4, <3>2, FactorIsRow DEF ConfirmEnrol
        <4>2. factor' \in Factor /\ factor'.secret = factor.secret /\ factor'.last = held[r].step
          BY <2>1, <4>1 DEF Factor, Code
        <4>3. factor' # None
          BY <4>2, FactorAssumption DEF Factor
        <4>4. QED
          BY <1>0, <1>4, <2>1, <3>2, <4>2, <4>3, LedgerStamps DEF ConfirmEnrol
      <3>3. QED
        BY <3>1, <3>2
    <2>6. QED
      BY <1>0, <2>4, <2>5 DEF FactorInv
  <1>5. ASSUME NEW r \in Reqs, WipeCodes(r) PROVE FactorInv'
    <2>1. RequestOK(r)'
      BY <1>0, <1>5 DEF WipeCodes, Goto, RequestOK, TypeOK
    <2>2. \A q \in Reqs : RequestOK(q)'
      BY <1>0, <1>5, <2>1, RequestsKeep DEF WipeCodes, Goto, Enabled, TypeOK, history
    <2>3. LedgerOK'
      BY <1>5 DEF WipeCodes, Wiped, history, FactorInv, LedgerOK, Recorded, CodeOnce
    <2>4. QED
      BY <1>0, <2>2, <2>3 DEF FactorInv
  <1>6. ASSUME NEW r \in Reqs, InsertCode(r) PROVE FactorInv'
    <2>1. RequestOK(r)'
      BY <1>0, <1>6 DEF InsertCode, Finish, Goto, RequestOK, TypeOK
    <2>2. \A q \in Reqs : RequestOK(q)'
      BY <1>0, <1>6, <2>1, RequestsKeep DEF InsertCode, Finish, Goto, Enabled, TypeOK
    <2>3. PICK c \in Codes \ minted : minted' = minted \cup {c} /\ recovery' = recovery \cup {c}
      BY <1>6 DEF InsertCode, Fresh
    <2>4. c \notin Secrets
      BY FactorAssumption
    <2>5. LedgerOK'
      BY <1>6, <2>3, <2>4 DEF InsertCode, FactorInv, LedgerOK, Recorded, CodeOnce
    <2>6. QED
      BY <1>0, <2>2, <2>5 DEF FactorInv
  <1>7. ASSUME NEW r \in Reqs, Stamp(r) PROVE FactorInv'
    <2>1. held[r] \in Code /\ held[r].of \in Secrets /\ held[r].of \in minted
      BY <1>0, <1>7 DEF Stamp, FactorInv, RequestOK, TypeOK
    <2>2. CASE Newer(held[r].step)
      <3>1. factor # None /\ factor \in Factor /\ factor.last < held[r].step
        BY <1>0, <2>2, FactorIsRow DEF Newer
      <3>2. factor' \in Factor /\ factor'.secret = factor.secret /\ factor'.last = held[r].step
        BY <1>7, <2>1, <2>2, <3>1 DEF Stamp, Factor, Code
      <3>3. factor' # None
        BY <3>2, FactorAssumption DEF Factor
      <3>4. factor.last \in Nat /\ held[r].step \in Nat
        BY <2>1, <3>1 DEF Factor, Code
      <3>5. held[r] \in spent => held[r].of \in forgotten
        BY <2>1, <3>1, <3>4 DEF FactorInv, LedgerOK, Recorded
      <3>6. LedgerOK'
        BY <1>0, <1>7, <2>1, <2>2, <3>1, <3>2, <3>3, <3>4, <3>5, LedgerStamps DEF Stamp, Spend
      <3>7. Enabled' => Enabled
        BY <1>7, <2>2, <3>1 DEF Stamp, Enabled, Factor
      <3>8. RequestOK(r)'
        BY <1>0, <1>7, <2>2 DEF Stamp, Spend, Accept, Finish, Goto, RequestOK, TypeOK
      <3>9. \A q \in Reqs : RequestOK(q)'
        BY <1>0, <1>7, <2>2, <3>7, <3>8, RequestsKeep DEF Stamp, Spend, Accept, Finish, Goto, TypeOK
      <3>10. QED
        BY <1>0, <3>6, <3>9 DEF FactorInv
    <2>3. CASE ~Newer(held[r].step)
      <3>1. Finish(r) /\ UNCHANGED <<factor, recovery, history>>
        BY <1>7, <2>3 DEF Stamp, history
      <3>2. RequestOK(r)'
        BY <1>0, <3>1 DEF Finish, Goto, RequestOK, TypeOK
      <3>3. \A q \in Reqs : RequestOK(q)'
        BY <1>0, <3>1, <3>2, RequestsKeep DEF Finish, Goto, Enabled, TypeOK, history
      <3>4. QED
        BY <1>0, <3>1, <3>3, LedgerKeeps DEF FactorInv, history
    <2>4. QED
      BY <2>2, <2>3
  <1>8. ASSUME NEW r \in Reqs, NEW o \in {"login", "disable"}, NEW c \in Codes,
               ReadForRecovery(r, o, c) PROVE FactorInv'
    <2>1. c \in minted
      BY <1>8 DEF ReadForRecovery, FactorInv, LedgerOK
    <2>2. RequestOK(r)'
      BY <1>0, <1>8, <2>1 DEF ReadForRecovery, Enter, Goto, RequestOK, TypeOK, history
    <2>3. \A q \in Reqs : RequestOK(q)'
      BY <1>0, <1>8, <2>2, RequestsKeep DEF ReadForRecovery, Enter, Goto, Enabled, TypeOK, rows, history
    <2>4. QED
      BY <1>0, <1>8, <2>3, LedgerKeeps DEF ReadForRecovery, FactorInv, rows, history
  <1>9. ASSUME NEW r \in Reqs, UseCode(r) PROVE FactorInv'
    <2>1. held[r].of \in Codes /\ held[r].of \in minted
      BY <1>9 DEF UseCode, FactorInv, RequestOK
    <2>2. CASE Unused(held[r].of)
      <3>1. held[r] \notin spent /\ held[r].of \notin Secrets
        BY <2>1, <2>2, FactorAssumption DEF Unused, FactorInv, LedgerOK
      <3>2. LedgerOK'
        BY <1>9, <2>1, <2>2, <3>1 DEF UseCode, Spend, FactorInv, LedgerOK, Recorded, CodeOnce
      <3>3. RequestOK(r)'
        BY <1>0, <1>9, <2>2 DEF UseCode, Spend, Accept, Finish, Goto, RequestOK, TypeOK
      <3>4. \A q \in Reqs : RequestOK(q)'
        BY <1>0, <1>9, <2>2, <3>3, RequestsKeep DEF UseCode, Spend, Accept, Finish, Goto, Enabled,
           TypeOK
      <3>5. QED
        BY <1>0, <3>2, <3>4 DEF FactorInv
    <2>3. CASE ~Unused(held[r].of)
      <3>1. Finish(r) /\ UNCHANGED <<factor, recovery, history>>
        BY <1>9, <2>3 DEF UseCode, history
      <3>2. RequestOK(r)'
        BY <1>0, <3>1 DEF Finish, Goto, RequestOK, TypeOK
      <3>3. \A q \in Reqs : RequestOK(q)'
        BY <1>0, <3>1, <3>2, RequestsKeep DEF Finish, Goto, Enabled, TypeOK, history
      <3>4. QED
        BY <1>0, <3>1, <3>3, LedgerKeeps DEF FactorInv, history
    <2>4. QED
      BY <2>2, <2>3
  <1>10. ASSUME NEW r \in Reqs, DropFactor(r) PROVE FactorInv'
    <2>1. RequestOK(r)' /\ ~Enabled'
      BY <1>0, <1>10 DEF DropFactor, Goto, RequestOK, Enabled, TypeOK
    <2>2. \A q \in Reqs : RequestOK(q)'
      BY <1>0, <1>10, <2>1, RequestsKeep DEF DropFactor, Goto, TypeOK
    <2>3. LedgerOK'
      BY <1>0, <1>10, LedgerForgets DEF DropFactor
    <2>4. QED
      BY <1>0, <2>2, <2>3 DEF FactorInv
  <1>11. ASSUME NEW r \in Reqs, DropCodes(r) PROVE FactorInv'
    <2>1. RequestOK(r)'
      BY <1>0, <1>11 DEF DropCodes, Finish, Goto, RequestOK, TypeOK
    <2>2. \A q \in Reqs : RequestOK(q)'
      BY <1>0, <1>11, <2>1, RequestsKeep DEF DropCodes, Finish, Goto, Enabled, TypeOK, history
    <2>3. LedgerOK'
      BY <1>11 DEF DropCodes, history, FactorInv, LedgerOK, Recorded, CodeOnce
    <2>4. QED
      BY <1>0, <2>2, <2>3 DEF FactorInv
  <1>12. ASSUME NEW r \in Reqs, Abort(r) PROVE FactorInv'
    <2>1. RequestOK(r)'
      BY <1>0, <1>12 DEF Abort, Finish, Goto, RequestOK, TypeOK
    <2>2. \A q \in Reqs : RequestOK(q)'
      BY <1>0, <1>12, <2>1, RequestsKeep DEF Abort, Finish, Goto, Enabled, TypeOK, rows, history
    <2>3. QED
      BY <1>0, <1>12, <2>2, LedgerKeeps DEF Abort, FactorInv, rows, history
  <1>13. CASE UNCHANGED vars
    <2>1. \A q \in Reqs : RequestOK(q)'
      BY <1>13 DEF FactorInv, RequestOK, Enabled, vars, rows, history
    <2>2. QED
      BY <1>0, <1>13, <2>1, LedgerKeeps DEF FactorInv, vars, rows, history
  <1>14. QED
    BY <1>1, <1>2, <1>3, <1>4, <1>5, <1>6, <1>7, <1>8, <1>9, <1>10, <1>11, <1>12, <1>13
    DEF Next, Enrol, Check, ReadForConfirm, ReadForVerify

\* A recovery code lets somebody through once, and so does a TOTP code, unless
\* the record of its secret's last step was lost.
THEOREM OnlyOnce == Spec => []CodeOnce
  <1>1. FactorInv => CodeOnce
    BY DEF FactorInv, LedgerOK
  <1>2. QED
    BY <1>1, FactorInvInit, FactorInvStep, PTL DEF Spec

\* Only a request that holds an accepted code, or one that was overtaken, can
\* turn the factor off.
LEMMA OffStep ==
  ASSUME FactorInv, Next, Enabled, ~Enabled'
  PROVE  \E r \in Reqs : \/ pc[r] = "dropFactor" /\ held[r] \in spent
                         \/ pc[r] = "begin" /\ r \in overtaken
  <1>1. factor # None /\ factor \in Factor /\ factor.enabled /\ factor' # factor
    BY FactorIsRow DEF FactorInv, Enabled
  <1>2. PICK r \in Reqs : Enrol(r) \/ Check(r) \/ Abort(r)
    BY DEF Next
  <1>3. CASE BeginEnrol(r)
    BY <1>3 DEF BeginEnrol, FactorInv, RequestOK
  <1>4. CASE DropFactor(r)
    BY <1>4 DEF DropFactor, FactorInv, RequestOK
  <1>5. ASSUME ConfirmEnrol(r) PROVE FALSE
    <2>1. factor' = [factor EXCEPT !.enabled = TRUE, !.last = held[r].step]
      BY <1>1, <1>5 DEF ConfirmEnrol
    <2>2. held[r].step \in Nat
      BY <1>5 DEF ConfirmEnrol, FactorInv, TypeOK, Code
    <2>3. factor' \in Factor /\ factor'.enabled
      BY <1>1, <2>1, <2>2 DEF Factor
    <2>4. QED
      BY <2>3, FactorAssumption DEF Enabled, Factor
  <1>6. ASSUME Stamp(r) PROVE FALSE
    <2>1. factor' = [factor EXCEPT !.last = held[r].step] /\ held[r].step \in Nat
      BY <1>1, <1>6 DEF Stamp, FactorInv, TypeOK, Code
    <2>2. factor' \in Factor /\ factor'.enabled
      BY <1>1, <2>1 DEF Factor
    <2>3. QED
      BY <2>2, FactorAssumption DEF Enabled, Factor
  <1>7. QED
    BY <1>1, <1>2, <1>3, <1>4, <1>5, <1>6
    DEF Enrol, Check, Abort, AskEnrol, ReadForConfirm, WipeCodes, InsertCode,
        ReadForVerify, ReadForRecovery, UseCode, DropCodes, rows, history

\* The factor goes off only for a code of the account, or for an enrolment that
\* was overtaken by the one that turned it on.
THEOREM OffHasCause == Spec => FactorOffHasCause
  <1>1. FactorInv /\ [Next]_vars =>
          [(Enabled /\ ~Enabled') =>
             \E r \in Reqs : \/ pc[r] = "dropFactor" /\ held[r] \in spent
                             \/ pc[r] = "begin" /\ r \in overtaken]_vars
    BY OffStep
  <1>2. QED
    BY <1>1, FactorInvInit, FactorInvStep, PTL DEF Spec, FactorOffHasCause
-----------------------------------------------------------------------------
(* How many recovery codes there can be. *)

\* What the requests that fill a set have still to insert into it.
ToInsert == {x \in Reqs \X (1 .. PerSet) : pc[x[1]] = "insert" /\ x[2] > inserted[x[1]]}

\* The codes there are and those that are yet to come leave room for one set
\* of each request.
RoomLeft ==
  /\ IsFiniteSet(recovery) /\ Cardinality(recovery) + Cardinality(ToInsert) <= PerSet * Cardinality(Reqs)
  /\ \A q \in Reqs : inserted[q] < PerSet

LEMMA SetSize == PerSet \in Nat /\ PerSet >= 1
  BY FactorAssumption

LEMMA Sets ==
  /\ PerSet \in Nat /\ PerSet >= 1 /\ Cardinality(Reqs) \in Nat /\ PerSet * Cardinality(Reqs) \in Nat
  /\ IsFiniteSet(Reqs \X (1 .. PerSet))
  /\ Cardinality(Reqs \X (1 .. PerSet)) = PerSet * Cardinality(Reqs)
  <1>1. PerSet \in Nat /\ PerSet >= 1 /\ IsFiniteSet(Reqs) /\ Cardinality(Reqs) \in Nat
    BY FactorAssumption, FS_CardinalityType
  <1>2. IsFiniteSet(1 .. PerSet) /\ Cardinality(1 .. PerSet) = PerSet
    BY <1>1, FS_Interval
  <1>3. IsFiniteSet(Reqs \X (1 .. PerSet))
        /\ Cardinality(Reqs \X (1 .. PerSet)) = Cardinality(Reqs) * PerSet
    BY <1>1, <1>2, FS_Product
  <1>4. Cardinality(Reqs) * PerSet = PerSet * Cardinality(Reqs) /\ PerSet * Cardinality(Reqs) \in Nat
    BY <1>1
  <1>5. QED
    BY <1>1, <1>3, <1>4

LEMMA ToInsertFinite ==
  /\ IsFiniteSet(ToInsert) /\ Cardinality(ToInsert) \in Nat
  /\ Cardinality(ToInsert) <= PerSet * Cardinality(Reqs)
  <1>1. ToInsert \in SUBSET (Reqs \X (1 .. PerSet))
    BY DEF ToInsert
  <1>2. QED
    BY <1>1, Sets, FS_Subset, FS_CardinalityType

\* A step that adds no code, and starts no set.
LEMMA NoMore ==
  ASSUME RoomLeft, recovery' \subseteq recovery,
         \A q \in Reqs : pc'[q] = "insert" => pc[q] = "insert" /\ inserted'[q] = inserted[q],
         \A q \in Reqs : inserted'[q] = inserted[q] \/ inserted'[q] = 0
  PROVE  RoomLeft'
  <1>1. IsFiniteSet(recovery') /\ Cardinality(recovery') <= Cardinality(recovery)
        /\ Cardinality(recovery') \in Nat /\ Cardinality(recovery) \in Nat
    BY FS_Subset, FS_CardinalityType DEF RoomLeft
  <1>2. ToInsert' \in SUBSET ToInsert
    BY DEF ToInsert
  <1>3. /\ IsFiniteSet(ToInsert') /\ Cardinality(ToInsert') <= Cardinality(ToInsert)
        /\ Cardinality(ToInsert') \in Nat /\ Cardinality(ToInsert) \in Nat
    BY <1>2, ToInsertFinite, FS_Subset, FS_CardinalityType
  <1>4. Cardinality(recovery) + Cardinality(ToInsert) <= PerSet * Cardinality(Reqs)
    BY DEF RoomLeft
  <1>5. Cardinality(recovery') + Cardinality(ToInsert') <= PerSet * Cardinality(Reqs)
    BY <1>1, <1>3, <1>4, Sets
  <1>6. \A q \in Reqs : inserted'[q] < PerSet
    BY Sets DEF RoomLeft
  <1>7. QED
    BY <1>1, <1>5, <1>6 DEF RoomLeft

LEMMA RoomInit == Init => RoomLeft
  <1> SUFFICES ASSUME Init PROVE RoomLeft
    OBVIOUS
  <1>1. recovery = {} /\ ToInsert = {}
    BY DEF Init, ToInsert
  <1>2. \A q \in Reqs : inserted[q] < PerSet
    BY Sets DEF Init
  <1>3. QED
    BY <1>1, <1>2, FS_EmptySet, Sets DEF RoomLeft

\* The first code of a set comes after the codes of all sets are gone.
LEMMA RoomAfterWipe == ASSUME TypeOK, RoomLeft, NEW r \in Reqs, WipeCodes(r) PROVE RoomLeft'
  <1>1. recovery' = {} /\ inserted' = inserted
    BY DEF WipeCodes, Wiped
  <1>2. IsFiniteSet(recovery') /\ Cardinality(recovery') = 0
    BY <1>1, FS_EmptySet
  <1>3. ToInsert' \in SUBSET (Reqs \X (1 .. PerSet))
    BY DEF ToInsert
  <1>4. Cardinality(ToInsert') \in Nat /\ Cardinality(ToInsert') <= PerSet * Cardinality(Reqs)
    BY <1>3, Sets, FS_Subset, FS_CardinalityType
  <1>5. QED
    BY <1>1, <1>2, <1>4 DEF RoomLeft

LEMMA RoomAfterInsert == ASSUME TypeOK, RoomLeft, NEW r \in Reqs, InsertCode(r) PROVE RoomLeft'
  <1>1. PICK c \in Codes : recovery' = recovery \cup {c}
    BY DEF InsertCode
  <1>2. /\ IsFiniteSet(recovery') /\ Cardinality(recovery') \in Nat /\ Cardinality(recovery) \in Nat
        /\ Cardinality(recovery') <= Cardinality(recovery) + 1
    BY <1>1, FS_AddElement, FS_CardinalityType DEF RoomLeft
  <1>3. /\ pc[r] = "insert" /\ inserted[r] \in Nat
        /\ \A q \in Reqs : pc'[q] = "insert" =>
             /\ pc[q] = "insert"
             /\ q # r => inserted'[q] = inserted[q]
             /\ q = r => inserted[r] + 1 # PerSet /\ inserted'[q] = inserted[r] + 1
    BY DEF InsertCode, Finish, Goto, TypeOK
  <1>4. inserted[r] < PerSet
    BY DEF RoomLeft
  <1>5. inserted[r] + 1 \in 1 .. PerSet
    BY <1>3, <1>4, Sets
  <1>6. PICK x : x = <<r, inserted[r] + 1>>
    OBVIOUS
  <1>7. x \in ToInsert
    BY <1>3, <1>5, <1>6 DEF ToInsert
  <1>8. ToInsert' \in SUBSET (ToInsert \ {x})
    <2> SUFFICES ASSUME NEW q \in Reqs, NEW n \in 1 .. PerSet, pc'[q] = "insert", n > inserted'[q]
                 PROVE  <<q, n>> \in ToInsert /\ <<q, n>> # x
      BY DEF ToInsert
    <2>1. pc[q] = "insert" /\ n > inserted[q] /\ (q = r => n # inserted[r] + 1)
      BY <1>3, Sets
    <2>2. QED
      BY <1>6, <2>1 DEF ToInsert
  <1>9. IsFiniteSet(ToInsert \ {x}) /\ Cardinality(ToInsert \ {x}) = Cardinality(ToInsert) - 1
    BY <1>7, ToInsertFinite, FS_RemoveElement
  <1>10. Cardinality(ToInsert') \in Nat /\ Cardinality(ToInsert') <= Cardinality(ToInsert) - 1
    BY <1>8, <1>9, FS_Subset, FS_CardinalityType
  <1>11. Cardinality(recovery') + Cardinality(ToInsert') <= PerSet * Cardinality(Reqs)
    BY <1>2, <1>10, ToInsertFinite, Sets DEF RoomLeft
  <1>12. \A q \in Reqs : inserted'[q] < PerSet
    <2>1. inserted[r] + 1 # PerSet => inserted[r] + 1 < PerSet
      BY <1>3, <1>4, SetSize
    <2>2. CASE inserted[r] + 1 = PerSet
      <3>1. \A q \in Reqs : inserted'[q] = inserted[q] \/ inserted'[q] = 0
        BY <2>2 DEF InsertCode, Finish, TypeOK
      <3>2. QED
        BY <3>1, SetSize DEF RoomLeft
    <2>3. CASE inserted[r] + 1 # PerSet
      <3>1. \A q \in Reqs : inserted'[q] = IF q = r THEN inserted[r] + 1 ELSE inserted[q]
        BY <2>3 DEF InsertCode, TypeOK
      <3>2. QED
        BY <2>1, <2>3, <3>1 DEF RoomLeft
    <2>4. QED
      BY <2>2, <2>3
  <1>13. QED
    BY <1>2, <1>11, <1>12 DEF RoomLeft

LEMMA RoomStep == TypeOK /\ RoomLeft /\ [Next]_vars => RoomLeft'
  <1> SUFFICES ASSUME TypeOK, RoomLeft, [Next]_vars PROVE RoomLeft'
    OBVIOUS
  <1>1. CASE UNCHANGED vars
    BY <1>1, NoMore DEF vars, rows
  <1>2. ASSUME NEW r \in Reqs, Enrol(r) \/ Check(r) \/ Abort(r) PROVE RoomLeft'
    <2>1. CASE WipeCodes(r) \/ InsertCode(r)
      BY <2>1, RoomAfterWipe, RoomAfterInsert
    <2>2. CASE ~WipeCodes(r) /\ ~InsertCode(r)
      <3>1. recovery' \subseteq recovery
        BY <1>2, <2>2 DEF Enrol, Check, Abort, AskEnrol, BeginEnrol, ConfirmEnrol, ReadForConfirm,
           ReadForVerify, ReadForRecovery, Stamp, UseCode, DropFactor, DropCodes, rows
      <3>2. \/ Finish(r) \/ UNCHANGED <<pc, inserted>>
            \/ \E step \in {"begin", "confirm", "wipe", "stamp", "use", "dropFactor", "dropCodes"} :
                 Goto(r, step) /\ UNCHANGED inserted
        BY <1>2, <2>2 DEF Enrol, Check, Abort, AskEnrol, BeginEnrol, ConfirmEnrol, ReadForConfirm,
           ReadForVerify, ReadForRecovery, Stamp, UseCode, DropFactor, DropCodes, Enter, Accept
      <3>3. \A q \in Reqs : pc'[q] = "insert" => pc[q] = "insert" /\ inserted'[q] = inserted[q]
        BY <3>2 DEF Finish, Goto, TypeOK
      <3>4. \A q \in Reqs : inserted'[q] = inserted[q] \/ inserted'[q] = 0
        BY <3>2 DEF Finish, TypeOK
      <3>5. QED
        BY <3>1, <3>3, <3>4, NoMore
    <2>3. QED
      BY <2>1, <2>2
  <1>3. QED
    BY <1>1, <1>2 DEF Next

LEMMA RoomIsEnough == RoomLeft => RecoveryBounded
  <1>1. RoomLeft => Cardinality(recovery) \in Nat
    BY FS_CardinalityType DEF RoomLeft
  <1>2. QED
    BY <1>1, ToInsertFinite, Sets DEF RoomLeft, RecoveryBounded

\* Enrolments in flight together leave codes of each of them: a set begins when
\* all codes are gone, so there is at most one set of each request.
THEOREM CodesAreBounded == Spec => []RecoveryBounded
  BY TypeInit, TypeStep, RoomInit, RoomStep, RoomIsEnough, PTL DEF Spec
=============================================================================
