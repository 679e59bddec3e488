--------------------------- MODULE MCAccount_proofs ---------------------------
(***************************************************************************)
(* Theorems about one account for any numbers of requests, tickets, links,   *)
(* instances and keys, any lifetimes and any bounds.  The six machines of    *)
(* MCAccount share no variable: a step of a behaviour is a step of the one   *)
(* it is about and leaves the others alone (the lemmas called ...Steps).     *)
(***************************************************************************)
EXTENDS MCAccount, SecondFactor_proofs, Ranks_proofs, SequenceTheorems

(* Signing in. *)

Life       == TicketTTL
LoginTypes == [at: {"idle", "decide", "finish", "set", "enrol", "revoke", "keepOne", "tryRevoke"},
               proof: SI!Proof]
\* What a sign-in rests on: a version the account has had, and a factor that was
\* owed then is one the account still has.
Rests(p) ==
  /\ p.pw <= account.pw
  /\ "factor" \in p.owes => account.factor \in {"required", "on"}
\* The password was shown within the life of one ticket, when nothing had been
\* done, or of two.
TicketSound(t) ==
  /\ Rests(t.proof)
  /\ t.step # "change_password" => "change" \notin t.proof.owes \ t.proof.did
  /\ t.age <= Life =>
       t.proof.age <= IF t.step = "change_password" THEN t.age ELSE Life + t.age
LoginSound(q) ==
  /\ Rests(q.proof)
  /\ q.at = "decide" => q.proof.age <= Life
                          /\ ("change" \in q.proof.owes \ q.proof.did => q.proof.age = 0)
  /\ q.at = "set" => q.proof.age <= Life
  /\ q.at = "revoke" /\ "change" \in q.proof.did => q.proof.age <= Life
  /\ q.at = "tryRevoke" => "change" \notin q.proof.did
  /\ q.at \in {"enrol", "finish"} => q.proof.owes \subseteq q.proof.did /\ q.proof.age <= 2 * Life
ResultSound(w) ==
  /\ Rests(w.proof) /\ w.proof.owes \subseteq w.proof.did
  /\ w.age <= InteractionTTL => w.proof.age <= 2 * Life + w.age

SignInInv ==
  /\ SI!TypeOK
  /\ \A t \in tickets : TicketSound(t)
  /\ \A r \in Reqs : LoginSound(req[r])
  /\ \A w \in results : ResultSound(w)
  /\ \A v \in revoked : v <= account.pw
  /\ SI!OldSessionWasLate

LEMMA Times == Life \in Nat /\ TicketTTL = Life /\ InteractionTTL \in Nat /\ MaxPw \in Nat
  BY AccountAssumption DEF Life

LEMMA NoProofTyped ==
  /\ SI!NoProof \in SI!Proof /\ SI!NoProof.pw = 0 /\ SI!NoProof.age = 0
  /\ SI!NoProof.owes = {} /\ SI!NoProof.did = {}
  BY Times DEF SI!NoProof, SI!Proof, SI!Ages

LEMMA IdleTyped ==
  SI!Idle \in LoginTypes /\ SI!Idle.at = "idle" /\ SI!Idle.proof = SI!NoProof
  BY NoProofTyped DEF SI!Idle, LoginTypes

LEMMA SignInTypes ==
  ASSUME SI!TypeOK
  PROVE  /\ account \in [pw: 0 .. MaxPw, must: BOOLEAN, factor: {"breakglass", "off", "required", "on"}]
         /\ account.pw \in 0 .. MaxPw
         /\ tickets \subseteq [step: SI!StageSteps, age: SI!Ages, proof: SI!Proof]
         /\ results \subseteq [age: SI!Ages, proof: SI!Proof]
         /\ sessions \subseteq [pw: 0 .. MaxPw, late: BOOLEAN]
         /\ req \in [Reqs -> LoginTypes] /\ \A r \in Reqs : req[r] \in LoginTypes
         /\ revoked \subseteq 0 .. MaxPw
  BY DEF SI!TypeOK, LoginTypes

LEMMA SignInInvInit == SI!Init => SignInInv
  <1> SUFFICES ASSUME SI!Init PROVE SignInInv
    OBVIOUS
  <1>1. SI!TypeOK
    BY IdleTyped, Times DEF SI!Init, SI!TypeOK, LoginTypes
  <1>2. account.pw = 0
    BY DEF SI!Init
  <1>3. \A r \in Reqs : LoginSound(req[r])
    BY <1>2, IdleTyped, NoProofTyped DEF SI!Init, LoginSound, Rests
  <1>4. QED
    BY <1>1, <1>3 DEF SI!Init, SignInInv, SI!OldSessionWasLate

\* The account has what it had, and nothing new is unsound.
LEMMA SignInKept ==
  ASSUME SignInInv, SI!TypeOK',
         account.pw <= account'.pw,
         account.factor \in {"required", "on"} => account'.factor \in {"required", "on"},
         \A t \in tickets' : t \in tickets \/ TicketSound(t)',
         \A r \in Reqs : req'[r] = req[r] \/ LoginSound(req[r])',
         \A w \in results' : w \in results \/ ResultSound(w)',
         \A v \in revoked' : v \in revoked \/ v <= account'.pw,
         SI!OldSessionWasLate'
  PROVE  SignInInv'
  <1>1. SI!TypeOK /\ account.pw \in Nat /\ account'.pw \in Nat
    <2>1. SI!TypeOK
      BY DEF SignInInv
    <2>2. QED
      BY <2>1, Times DEF SI!TypeOK
  <1>2. ASSUME NEW p \in SI!Proof, Rests(p) PROVE Rests(p)'
    BY <1>1, <1>2, Times DEF Rests, SI!Proof
  <1>3. \A t \in tickets' : TicketSound(t)'
    <2> SUFFICES ASSUME NEW t \in tickets', t \in tickets PROVE TicketSound(t)'
      OBVIOUS
    <2>1. TicketSound(t) /\ t.proof \in SI!Proof
      BY <1>1 DEF SignInInv, SI!TypeOK
    <2>2. QED
      BY <2>1, <1>2 DEF TicketSound, Life
  <1>4. \A r \in Reqs : LoginSound(req[r])'
    <2> SUFFICES ASSUME NEW r \in Reqs, req'[r] = req[r] PROVE LoginSound(req[r])'
      OBVIOUS
    <2>1. LoginSound(req[r]) /\ req[r].proof \in SI!Proof
      BY <1>1 DEF SignInInv, SI!TypeOK
    <2>2. QED
      BY <2>1, <1>2 DEF LoginSound, Life
  <1>5. \A w \in results' : ResultSound(w)'
    <2> SUFFICES ASSUME NEW w \in results', w \in results PROVE ResultSound(w)'
      OBVIOUS
    <2>1. ResultSound(w) /\ w.proof \in SI!Proof
      BY <1>1 DEF SignInInv, SI!TypeOK
    <2>2. QED
      BY <2>1, <1>2 DEF ResultSound, Life
  <1>6. \A v \in revoked' : v <= account'.pw
    <2> SUFFICES ASSUME NEW v \in revoked', v \in revoked PROVE v <= account'.pw
      OBVIOUS
    <2>1. v \in Nat /\ v <= account.pw
      BY <1>1, Times DEF SignInInv, SI!TypeOK
    <2>2. QED
      BY <2>1, <1>1
  <1>7. QED
    BY <1>3, <1>4, <1>5, <1>6 DEF SignInInv

\* One request takes a step, and nothing else but the account and the tickets changes.
LEMMA LoginStep ==
  ASSUME SignInInv, NEW r \in Reqs, NEW q \in LoginTypes, req' = [req EXCEPT ![r] = q],
         account' \in [pw: 0 .. MaxPw, must: BOOLEAN, factor: {"breakglass", "off", "required", "on"}],
         account.pw <= account'.pw,
         account.factor \in {"required", "on"} => account'.factor \in {"required", "on"},
         LoginSound(q)', UNCHANGED <<tickets, results, sessions, revoked>>
  PROVE  SignInInv'
  <1>1. SI!TypeOK /\ SI!OldSessionWasLate
    BY DEF SignInInv
  <1>2. req \in [Reqs -> LoginTypes]
    BY <1>1, SignInTypes
  <1>3. req' \in [Reqs -> LoginTypes] /\ \A x \in Reqs : req'[x] = IF x = r THEN q ELSE req[x]
    BY <1>2
  <1>4. SI!TypeOK'
    BY <1>1, <1>3 DEF SI!TypeOK, LoginTypes
  <1>5. \A x \in Reqs : req'[x] = req[x] \/ LoginSound(req[x])'
    BY <1>3 DEF LoginSound, Rests
  <1>6. SI!OldSessionWasLate'
    BY <1>1 DEF SI!OldSessionWasLate
  <1>7. QED
    BY <1>4, <1>5, <1>6, SignInKept

\* The same, of a step that leaves the account as well.
LEMMA LoginOnly ==
  ASSUME SignInInv, NEW r \in Reqs, NEW q \in LoginTypes, req' = [req EXCEPT ![r] = q],
         LoginSound(q)', UNCHANGED <<account, tickets, results, sessions, revoked>>
  PROVE  SignInInv'
  <1>1. account \in [pw: 0 .. MaxPw, must: BOOLEAN, factor: {"breakglass", "off", "required", "on"}]
    BY SignInTypes DEF SignInInv
  <1>2. account' = account /\ account.pw \in Nat
    BY <1>1, Times
  <1>3. account.pw <= account'.pw
    BY <1>2
  <1>4. account' \in [pw: 0 .. MaxPw, must: BOOLEAN, factor: {"breakglass", "off", "required", "on"}]
    BY <1>1, <1>2
  <1>5. QED
    BY <1>2, <1>3, <1>4, LoginStep

\* The same, of one that changes the password.
LEMMA LoginChange ==
  ASSUME SignInInv, NEW r \in Reqs, NEW q \in LoginTypes, req' = [req EXCEPT ![r] = q],
         account' \in [pw: 0 .. MaxPw, must: BOOLEAN, factor: {"breakglass", "off", "required", "on"}],
         account'.pw = account.pw + 1, account'.factor = account.factor,
         LoginSound(q)', UNCHANGED <<tickets, results, sessions, revoked>>
  PROVE  SignInInv'
  <1>1. account.pw \in Nat
    BY SignInTypes, Times DEF SignInInv
  <1>2. account.pw <= account'.pw
    BY <1>1
  <1>3. QED
    BY <1>2, LoginStep

LEMMA BeginIs ==
  ASSUME SI!TypeOK, NEW r \in Reqs, NEW p \in SI!Proof,
         NEW step \in {"decide", "finish", "set", "enrol", "revoke", "keepOne", "tryRevoke"},
         SI!Begin(r, step, p)
  PROVE  /\ req[r].at = "idle"
         /\ \E q \in LoginTypes : q.at = step /\ q.proof = p /\ req' = [req EXCEPT ![r] = q]
  <1> DEFINE q == [SI!Idle EXCEPT !.at = step, !.proof = p]
  <1>1. q \in LoginTypes /\ q.at = step /\ q.proof = p
    BY IdleTyped DEF LoginTypes
  <1>2. req[r] = SI!Idle /\ req' = [req EXCEPT ![r] = q]
    BY DEF SI!Begin
  <1> HIDE DEF q
  <1>3. QED
    BY <1>1, <1>2, IdleTyped

LEMMA GotoIs ==
  ASSUME SI!TypeOK, NEW r \in Reqs,
         NEW step \in {"decide", "finish", "set", "enrol", "revoke", "keepOne", "tryRevoke"},
         SI!Goto(r, step)
  PROVE  \E q \in LoginTypes : q.at = step /\ q.proof = req[r].proof /\ req' = [req EXCEPT ![r] = q]
  <1> DEFINE q == [req[r] EXCEPT !.at = step]
  <1>0. req[r] \in LoginTypes
    BY SignInTypes
  <1>1. q \in LoginTypes /\ q.at = step /\ q.proof = req[r].proof
    BY <1>0 DEF LoginTypes
  <1>2. req' = [req EXCEPT ![r] = q]
    BY DEF SI!Goto
  <1> HIDE DEF q
  <1>3. QED
    BY <1>1, <1>2

LEMMA IdleSound == ASSUME SI!TypeOK PROVE LoginSound(SI!Idle)
  <1>1. 0 <= account.pw
    BY SignInTypes, Times
  <1>2. QED
    BY <1>1, IdleTyped, NoProofTyped DEF LoginSound, Rests

\* Keep: one comes in.
LEMMA KeepAdds ==
  ASSUME NEW S, NEW x, NEW T \in SI!Keep(S, x) PROVE T \subseteq S \cup {x}
  BY DEF SI!Keep

LEMMA SignInInteraction ==
  ASSUME SignInInv, NEW r \in Reqs, SI!Interaction(r) PROVE SignInInv'
  <1>t. SI!TypeOK /\ SI!OldSessionWasLate /\ LoginSound(req[r]) /\ req[r] \in LoginTypes
        /\ req[r].proof \in SI!Proof
    <2>1. SI!TypeOK /\ SI!OldSessionWasLate /\ LoginSound(req[r])
      BY DEF SignInInv
    <2>2. QED
      BY <2>1, SignInTypes DEF LoginTypes
  <1>a. account \in [pw: 0 .. MaxPw, must: BOOLEAN, factor: {"breakglass", "off", "required", "on"}]
        /\ account.pw \in Nat
    BY <1>t, SignInTypes, Times
  <1>1. CASE SI!Validate(r)
    <2>1. SI!Owed \subseteq SI!Debts
      BY DEF SI!Owed, SI!Debts
    <2>2. PICK p \in SI!Proof : /\ p = [SI!NoProof EXCEPT !.pw = account.pw, !.owes = SI!Owed]
                               /\ p.pw = account.pw /\ p.owes = SI!Owed /\ p.age = 0
      <3> DEFINE v == [SI!NoProof EXCEPT !.pw = account.pw, !.owes = SI!Owed]
      <3>1. v \in SI!Proof /\ v.pw = account.pw /\ v.owes = SI!Owed /\ v.age = 0
        BY <2>1, <1>t, NoProofTyped, SignInTypes DEF SI!Proof
      <3> HIDE DEF v
      <3>2. QED
        BY <3>1 DEF v
    <2>3. SI!Begin(r, "decide", p) /\ UNCHANGED <<account, tickets, results, sessions, revoked>>
      BY <1>1, <2>2 DEF SI!Validate
    <2>4. PICK q \in LoginTypes : q.at = "decide" /\ q.proof = p /\ req' = [req EXCEPT ![r] = q]
      BY <2>3, <1>t, BeginIs
    <2>5. Rests(p)'
      BY <2>2, <2>3, <1>a DEF Rests, SI!Owed
    <2>6. LoginSound(q)'
      BY <2>2, <2>4, <2>5, Times DEF LoginSound
    <2>7. QED
      BY <2>3, <2>4, <2>6, LoginOnly
  <1>2. CASE SI!Decide(r)
    <2>p. PICK p \in SI!Proof : p = req[r].proof
      BY <1>t
    <2>n. PICK next : next = SI!ResolveNext(p)
      OBVIOUS
    <2>1. req[r].at = "decide" /\ UNCHANGED <<account, results, sessions, revoked>>
      BY <1>2 DEF SI!Decide
    <2>2. Rests(p) /\ p.age <= Life /\ ("change" \in p.owes \ p.did => p.age = 0)
      BY <2>1, <2>p, <1>t DEF LoginSound
    <2>3. next \in SI!StageSteps \cup {"done"}
          /\ (next # "change_password" => "change" \notin p.owes \ p.did)
          /\ (next = "done" => account.factor \notin {"on", "required"})
          /\ (next = "change_password" => "change" \in p.owes \ p.did)
      BY <2>n DEF SI!ResolveNext, SI!PostPasswordStep, SI!StageSteps
    <2>4. CASE next = "done"
      <3>1. SI!Goto(r, "finish") /\ UNCHANGED tickets
        BY <1>2, <2>p, <2>n, <2>4 DEF SI!Decide
      <3>2. PICK q \in LoginTypes : q.at = "finish" /\ q.proof = p /\ req' = [req EXCEPT ![r] = q]
        BY <2>p, <3>1, <1>t, GotoIs
      <3>3. p.owes \subseteq p.did
        <4>1. p.owes \subseteq {"change", "factor"}
          BY <1>t DEF SI!Proof, SI!Debts
        <4>2. QED
          BY <4>1, <2>2, <2>3, <2>4 DEF Rests
      <3>4. p.age \in Nat
        BY <1>t, Times DEF SI!Proof, SI!Ages
      <3>5. LoginSound(q)'
        BY <2>1, <2>2, <3>2, <3>3, <3>4, Times DEF LoginSound, Rests
      <3>6. QED
        BY <2>1, <3>1, <3>2, <3>5, LoginOnly
    <2>5. CASE next # "done"
      <3>t. PICK t : t = [step |-> next, age |-> 0, proof |-> p]
        OBVIOUS
      <3>1. tickets' \in SI!Keep(tickets, t) /\ req' = [req EXCEPT ![r] = SI!Idle]
        BY <1>2, <2>5, <2>p, <2>n, <3>t DEF SI!Decide, SI!Done
      <3>2. tickets' \subseteq tickets \cup {t}
        BY <3>1, KeepAdds
      <3>3. t \in [step: SI!StageSteps, age: SI!Ages, proof: SI!Proof]
        BY <2>3, <2>5, <3>t, Times DEF SI!Ages
      <3>4. t.step = next /\ t.age = 0 /\ t.proof = p /\ p.age \in Nat
        BY <3>t, Times DEF SI!Proof, SI!Ages
      <3>5. req' \in [Reqs -> LoginTypes] /\ \A x \in Reqs : req'[x] = IF x = r THEN SI!Idle ELSE req[x]
        BY <3>1, <1>t, SignInTypes, IdleTyped
      <3>6. TicketSound(t)'
        <4>1. next = "change_password" => p.age = 0
          BY <2>2, <2>3
        <4>2. QED
          BY <2>1, <2>2, <2>3, <3>4, <4>1, Times DEF TicketSound, Rests
      <3>7. SI!TypeOK'
        BY <2>1, <3>2, <3>3, <3>5, <1>t DEF SI!TypeOK, LoginTypes
      <3>8. \A x \in Reqs : req'[x] = req[x] \/ LoginSound(req[x])'
        <4>1. LoginSound(SI!Idle)'
          BY <3>7, IdleSound, PTL
        <4>2. QED
          BY <3>5, <4>1
      <3>9. SI!OldSessionWasLate'
        BY <2>1, <1>t DEF SI!OldSessionWasLate
      <3>10. QED
        BY <2>1, <3>2, <3>6, <3>7, <3>8, <3>9, <1>a, SignInKept
    <2>6. QED
      BY <2>4, <2>5
  <1>3. CASE SI!Finish(r)
    <2>w. PICK w : w = [age |-> 0, proof |-> req[r].proof]
      OBVIOUS
    <2>1. req[r].at = "finish" /\ results' \in SI!Keep(results, w) /\ req' = [req EXCEPT ![r] = SI!Idle]
          /\ UNCHANGED <<account, tickets, sessions, revoked>>
      BY <1>3, <2>w DEF SI!Finish, SI!Done
    <2>2. w \in [age: SI!Ages, proof: SI!Proof] /\ w.age = 0 /\ w.proof = req[r].proof
      BY <1>t, <2>w, Times DEF SI!Ages
    <2>3. w.proof.age \in Nat
      BY <2>2, <1>t, Times DEF SI!Proof, SI!Ages
    <2>4. results' \subseteq results \cup {w}
      BY <2>1, KeepAdds
    <2>5. ResultSound(w)'
      BY <2>1, <2>2, <2>3, <1>t, Times DEF ResultSound, LoginSound, Rests
    <2>6. req' \in [Reqs -> LoginTypes] /\ \A x \in Reqs : req'[x] = IF x = r THEN SI!Idle ELSE req[x]
      BY <2>1, <1>t, SignInTypes, IdleTyped
    <2>7. SI!TypeOK'
      BY <2>1, <2>2, <2>4, <2>6, <1>t DEF SI!TypeOK, LoginTypes
    <2>8. \A x \in Reqs : req'[x] = req[x] \/ LoginSound(req[x])'
      <3>1. LoginSound(SI!Idle)'
        BY <2>7, IdleSound, PTL
      <3>2. QED
        BY <2>6, <3>1
    <2>9. SI!OldSessionWasLate'
      BY <2>1, <1>t DEF SI!OldSessionWasLate
    <2>10. QED
      BY <2>1, <2>4, <2>5, <2>7, <2>8, <2>9, <1>a, SignInKept
  <1>4. CASE SI!Enrol(r)
    <2> DEFINE new == [account EXCEPT !.factor = "on"]
    <2>1. req[r].at = "enrol" /\ account' = new /\ SI!Goto(r, "finish")
          /\ UNCHANGED <<tickets, results, sessions, revoked>>
      BY <1>4 DEF SI!Enrol
    <2>2. /\ new \in [pw: 0 .. MaxPw, must: BOOLEAN, factor: {"breakglass", "off", "required", "on"}]
          /\ new.pw = account.pw /\ new.factor = "on"
      BY <1>a
    <2> HIDE DEF new
    <2>3. PICK q \in LoginTypes : q.at = "finish" /\ q.proof = req[r].proof /\ req' = [req EXCEPT ![r] = q]
      BY <2>1, <1>t, GotoIs
    <2>4. LoginSound(q)'
      BY <2>1, <2>2, <2>3, <1>t DEF LoginSound, Rests
    <2>5. QED
      <3>1. account' \in [pw: 0 .. MaxPw, must: BOOLEAN, factor: {"breakglass", "off", "required", "on"}]
        BY <2>1, <2>2
      <3>2. account.pw <= account'.pw /\ account'.factor = "on"
        BY <2>1, <2>2, <1>a
      <3>3. QED
        BY <2>1, <2>3, <2>4, <3>1, <3>2, LoginStep
  <1>5. ASSUME NEW t \in tickets, SI!TakeStep(r, t) PROVE SignInInv'
    <2> DEFINE did == [t.proof EXCEPT !.did = @ \cup {"factor"}]
    <2>1. TicketSound(t) /\ t.proof \in SI!Proof /\ t.age \in Nat /\ t.proof.age \in Nat
      <3>1. TicketSound(t) /\ t.proof \in SI!Proof /\ t.age \in SI!Ages
        BY <1>t, SignInTypes DEF SignInInv
      <3>2. QED
        BY <3>1, Times DEF SI!Ages, SI!Proof
    <2>2. /\ did \in SI!Proof /\ did.pw = t.proof.pw /\ did.owes = t.proof.owes
          /\ did.age = t.proof.age /\ did.did = t.proof.did \cup {"factor"}
      BY <2>1 DEF SI!Proof, SI!Debts
    <2>3. t.age <= Life /\ UNCHANGED <<account, tickets, results, sessions, revoked>>
      BY <1>5 DEF SI!TakeStep, SI!Admits, Life
    <2>4. \/ t.step = "change_password" /\ SI!Begin(r, "set", t.proof)
          \/ t.step = "mfa" /\ SI!Begin(r, "finish", did)
          \/ t.step = "mfa_enroll" /\ SI!Begin(r, "enrol", did)
      BY <1>5 DEF SI!TakeStep, SI!Admits, SI!StageSteps
    <2>5. t.proof.owes \subseteq {"change", "factor"}
      BY <2>1 DEF SI!Proof, SI!Debts
    <2> HIDE DEF did
    <2>6. PICK q \in LoginTypes :
             /\ req' = [req EXCEPT ![r] = q]
             /\ \/ t.step = "change_password" /\ q.at = "set" /\ q.proof = t.proof
                \/ t.step # "change_password" /\ q.at \in {"finish", "enrol"} /\ q.proof = did
      BY <2>1, <2>2, <2>4, <1>t, BeginIs
    <2>7. LoginSound(q)'
      <3>1. CASE q.at = "set"
        BY <2>1, <2>3, <2>6, <3>1, Times DEF LoginSound, TicketSound, Rests
      <3>2. CASE q.at # "set"
        <4>1. q.proof.owes \subseteq q.proof.did
          BY <2>1, <2>2, <2>5, <2>6, <3>2 DEF TicketSound
        <4>2. q.proof.age <= 2 * Life
          BY <2>1, <2>2, <2>3, <2>6, <3>2, Times DEF TicketSound
        <4>3. QED
          BY <2>1, <2>2, <2>3, <2>6, <3>2, <4>1, <4>2 DEF LoginSound, TicketSound, Rests
      <3>3. QED
        BY <3>1, <3>2
    <2>8. QED
      BY <2>3, <2>6, <2>7, LoginOnly
  <1>6. QED
    BY <1>1, <1>2, <1>3, <1>4, <1>5 DEF SI!Interaction

\* A change of the password is the next version.
LEMMA NewPasswordIs ==
  ASSUME SI!TypeOK, NEW must \in BOOLEAN, SI!NewPassword(must)
  PROVE  /\ account' \in [pw: 0 .. MaxPw, must: BOOLEAN, factor: {"breakglass", "off", "required", "on"}]
         /\ account'.pw = account.pw + 1 /\ account'.factor = account.factor
         /\ account.pw \in Nat /\ account.pw + 1 \in 0 .. MaxPw
  <1>1. account \in [pw: 0 .. MaxPw, must: BOOLEAN, factor: {"breakglass", "off", "required", "on"}]
        /\ account.pw < MaxPw /\ account' = [account EXCEPT !.pw = @ + 1, !.must = must]
    BY SignInTypes DEF SI!NewPassword
  <1>2. account.pw \in Nat /\ account.pw + 1 \in 0 .. MaxPw
    BY <1>1, Times
  <1>3. QED
    BY <1>1, <1>2

LEMMA SignInPasswords ==
  ASSUME SignInInv, NEW r \in Reqs, SI!Passwords(r) PROVE SignInInv'
  <1>t. SI!TypeOK /\ SI!OldSessionWasLate /\ LoginSound(req[r]) /\ req[r] \in LoginTypes
        /\ req[r].proof \in SI!Proof
    <2>1. SI!TypeOK /\ SI!OldSessionWasLate /\ LoginSound(req[r])
      BY DEF SignInInv
    <2>2. QED
      BY <2>1, SignInTypes DEF LoginTypes
  <1>a. account \in [pw: 0 .. MaxPw, must: BOOLEAN, factor: {"breakglass", "off", "required", "on"}]
        /\ account.pw \in Nat
    BY <1>t, SignInTypes, Times
  <1>1. CASE SI!SetPassword(r)
    <2> DEFINE p == [req[r].proof EXCEPT !.pw = account.pw + 1, !.did = @ \cup {"change"}]
               v == [req[r] EXCEPT !.at = "revoke", !.proof = p]
    <2>1. req[r].at = "set" /\ SI!NewPassword(FALSE) /\ UNCHANGED <<tickets, results, sessions, revoked>>
      BY <1>1 DEF SI!SetPassword
    <2>2. /\ account' \in [pw: 0 .. MaxPw, must: BOOLEAN, factor: {"breakglass", "off", "required", "on"}]
          /\ account'.pw = account.pw + 1 /\ account'.factor = account.factor
          /\ account.pw \in Nat /\ account.pw + 1 \in 0 .. MaxPw
      BY <2>1, <1>t, NewPasswordIs
    <2>3. p \in SI!Proof /\ p.pw = account.pw + 1 /\ p.age = req[r].proof.age
          /\ p.owes = req[r].proof.owes /\ p.did = req[r].proof.did \cup {"change"}
      BY <2>2, <1>t DEF SI!Proof, SI!Debts
    <2>4. req' = [req EXCEPT ![r] = v]
      BY <1>1, <1>t, SignInTypes DEF SI!SetPassword, LoginTypes, SI!Proof
    <2> HIDE DEF p
    <2>5. v \in LoginTypes /\ v.at = "revoke" /\ v.proof = p
      BY <2>3, <1>t DEF LoginTypes
    <2> HIDE DEF v
    <2>6. PICK q \in LoginTypes : q = v
      BY <2>5
    <2>7. LoginSound(q)'
      BY <2>1, <2>2, <2>3, <2>5, <2>6, <1>t DEF LoginSound, Rests
    <2>8. QED
      BY <2>1, <2>2, <2>4, <2>6, <2>7, LoginChange
  <1>2. CASE SI!SelfChange(r)
    <2> DEFINE v == [SI!NoProof EXCEPT !.pw = account.pw + 1, !.did = {"change"}]
    <2>1. SI!NewPassword(FALSE) /\ SI!Begin(r, "keepOne", v) /\ UNCHANGED <<tickets, results, sessions, revoked>>
      BY <1>2 DEF SI!SelfChange
    <2>2. /\ account' \in [pw: 0 .. MaxPw, must: BOOLEAN, factor: {"breakglass", "off", "required", "on"}]
          /\ account'.pw = account.pw + 1 /\ account'.factor = account.factor
          /\ account.pw \in Nat /\ account.pw + 1 \in 0 .. MaxPw
      BY <2>1, <1>t, NewPasswordIs
    <2>3. v \in SI!Proof /\ v.pw = account.pw + 1 /\ v.owes = {}
      BY <2>2, NoProofTyped DEF SI!Proof, SI!Debts
    <2> HIDE DEF v
    <2>4. PICK q \in LoginTypes : q.at = "keepOne" /\ q.proof = v /\ req' = [req EXCEPT ![r] = q]
      BY <2>1, <2>3, <1>t, BeginIs
    <2>5. LoginSound(q)'
      BY <2>2, <2>3, <2>4 DEF LoginSound, Rests
    <2>6. QED
      BY <2>1, <2>2, <2>4, <2>5, LoginChange
  <1>3. CASE SI!AdminReset(r) \/ SI!Redeem(r)
    <2>1. PICK must \in BOOLEAN : SI!NewPassword(must)
      BY <1>3 DEF SI!AdminReset, SI!Redeem, SI!ManualPassword, SI!TemporaryPassword
    <2>2. PICK step \in {"revoke", "tryRevoke"} : SI!Begin(r, step, SI!NoProof)
      BY <1>3 DEF SI!AdminReset, SI!Redeem
    <2>3. UNCHANGED <<tickets, results, sessions, revoked>>
      BY <1>3 DEF SI!AdminReset, SI!Redeem
    <2>4. /\ account' \in [pw: 0 .. MaxPw, must: BOOLEAN, factor: {"breakglass", "off", "required", "on"}]
          /\ account'.pw = account.pw + 1 /\ account'.factor = account.factor
          /\ account.pw \in Nat
      BY <2>1, <1>t, NewPasswordIs
    <2>5. PICK q \in LoginTypes : q.at = step /\ q.proof = SI!NoProof /\ req' = [req EXCEPT ![r] = q]
      BY <2>2, <1>t, BeginIs, NoProofTyped
    <2>6. LoginSound(q)'
      BY <2>4, <2>5, NoProofTyped DEF LoginSound, Rests
    <2>7. QED
      BY <2>3, <2>4, <2>5, <2>6, LoginChange
  <1>4. CASE SI!RevokeAll(r)
    <2>1. req[r].at \in {"revoke", "tryRevoke"} /\ sessions' = {} /\ revoked' = revoked \cup {account.pw}
          /\ UNCHANGED <<account, tickets, results>>
      BY <1>4 DEF SI!RevokeAll, SI!Survives
    <2>2. PICK q \in LoginTypes :
             /\ req' = [req EXCEPT ![r] = q]
             /\ \/ q = SI!Idle
                \/ q.at = "decide" /\ q.proof = req[r].proof /\ "change" \in req[r].proof.did
      <3>1. CASE "change" \in req[r].proof.did
        BY <1>4, <3>1, <1>t, GotoIs DEF SI!RevokeAll
      <3>2. CASE "change" \notin req[r].proof.did
        BY <1>4, <3>2, IdleTyped DEF SI!RevokeAll, SI!Done
      <3>3. QED
        BY <3>1, <3>2
    <2>3. req' \in [Reqs -> LoginTypes] /\ \A x \in Reqs : req'[x] = IF x = r THEN q ELSE req[x]
      BY <2>2, <1>t, SignInTypes
    <2>4. SI!TypeOK'
      BY <2>1, <2>3, <1>t, <1>a DEF SI!TypeOK, LoginTypes
    <2>5. LoginSound(q)'
      <3>1. CASE q = SI!Idle
        <4>1. LoginSound(SI!Idle)'
          BY <2>4, IdleSound, PTL
        <4>2. q.at = "idle" /\ Rests(q.proof)
          BY <3>1, IdleTyped, NoProofTyped, <1>a DEF Rests
        <4>3. QED
          BY <2>1, <4>2 DEF LoginSound, Rests
      <3>2. CASE q.at = "decide" /\ q.proof = req[r].proof /\ "change" \in req[r].proof.did
        BY <2>1, <3>2, <1>t DEF LoginSound, Rests
      <3>3. QED
        BY <2>2, <3>1, <3>2
    <2>6. \A x \in Reqs : req'[x] = req[x] \/ LoginSound(req[x])'
      BY <2>3, <2>5 DEF LoginSound, Rests
    <2>7. SI!OldSessionWasLate'
      BY <2>1 DEF SI!OldSessionWasLate
    <2>8. \A v \in revoked' : v \in revoked \/ v <= account'.pw
      BY <2>1, <1>a
    <2>9. QED
      BY <2>1, <2>4, <2>6, <2>7, <2>8, <1>a, SignInKept
  <1>5. CASE SI!RevokeOthers(r)
    <2>1. PICK K \in {{}} \cup {{s} : s \in sessions} :
             sessions' = {[s EXCEPT !.pw = IF @ < req[r].proof.pw THEN req[r].proof.pw ELSE @] : s \in K}
      BY <1>5 DEF SI!RevokeOthers
    <2>2. revoked' = revoked \cup {req[r].proof.pw} /\ req' = [req EXCEPT ![r] = SI!Idle]
          /\ UNCHANGED <<account, tickets, results>>
      BY <1>5 DEF SI!RevokeOthers, SI!Done
    <2>3. req[r].proof.pw \in 0 .. MaxPw /\ req[r].proof.pw <= account.pw
      BY <1>t DEF SI!Proof, LoginSound, Rests
    <2>4. ASSUME NEW s \in sessions'
          PROVE  /\ s \in [pw: 0 .. MaxPw, late: BOOLEAN] /\ req[r].proof.pw <= s.pw
                 /\ \E z \in sessions : z.late = s.late /\ z.pw <= s.pw
      <3>1. PICK z \in sessions : s = [z EXCEPT !.pw = IF @ < req[r].proof.pw THEN req[r].proof.pw ELSE @]
        BY <2>1
      <3>2. z \in [pw: 0 .. MaxPw, late: BOOLEAN] /\ z.pw \in 0 .. MaxPw
        BY <1>t, SignInTypes
      <3>3. QED
        BY <3>1, <3>2, <2>3, Times
    <2>5. req' \in [Reqs -> LoginTypes] /\ \A x \in Reqs : req'[x] = IF x = r THEN SI!Idle ELSE req[x]
      BY <2>2, <1>t, SignInTypes, IdleTyped
    <2>6. SI!TypeOK'
      BY <2>2, <2>3, <2>4, <2>5, <1>t DEF SI!TypeOK, LoginTypes
    <2>7. \A x \in Reqs : req'[x] = req[x] \/ LoginSound(req[x])'
      <3>1. LoginSound(SI!Idle)'
        BY <2>6, IdleSound, PTL
      <3>2. QED
        BY <2>5, <3>1
    <2>8. SI!OldSessionWasLate'
      <3> SUFFICES ASSUME NEW s \in sessions', NEW v \in revoked', s.pw < v PROVE s.late
        BY DEF SI!OldSessionWasLate
      <3>1. s.pw \in 0 .. MaxPw /\ req[r].proof.pw <= s.pw
        BY <2>4
      <3>2. v \in revoked /\ v \in 0 .. MaxPw
        BY <2>2, <2>3, <3>1, <1>t, Times, SignInTypes
      <3>3. PICK z \in sessions : z.late = s.late /\ z.pw <= s.pw
        BY <2>4
      <3>4. z.pw \in 0 .. MaxPw
        BY <1>t, SignInTypes
      <3>5. z.pw < v
        BY <3>1, <3>2, <3>3, <3>4, Times
      <3>6. QED
        BY <3>2, <3>3, <3>5, <1>t DEF SI!OldSessionWasLate
    <2>9. \A v \in revoked' : v \in revoked \/ v <= account'.pw
      BY <2>2, <2>3
    <2>10. QED
      BY <2>2, <2>6, <2>7, <2>8, <2>9, <1>a, SignInKept
  <1>6. QED
    BY <1>1, <1>2, <1>3, <1>4, <1>5 DEF SI!Passwords

LEMMA SignInAbort == ASSUME SignInInv, NEW r \in Reqs, SI!Abort(r) PROVE SignInInv'
  <1>1. SI!TypeOK /\ req' = [req EXCEPT ![r] = SI!Idle]
        /\ UNCHANGED <<account, tickets, results, sessions, revoked>>
    BY DEF SI!Abort, SI!Done, SignInInv
  <1>2. PICK q \in LoginTypes : q = SI!Idle
    BY IdleTyped
  <1>3. LoginSound(q)'
    BY <1>1, <1>2, IdleTyped, IdleSound DEF LoginSound, Rests
  <1>4. QED
    BY <1>1, <1>2, <1>3, LoginOnly

LEMMA SignInResume == ASSUME SignInInv, NEW w \in results, SI!Resume(w) PROVE SignInInv'
  <1>t. SI!TypeOK /\ SI!OldSessionWasLate /\ ResultSound(w) /\ \A v \in revoked : v <= account.pw
    BY DEF SignInInv
  <1>1. PICK s : s = [pw |-> w.proof.pw, late |-> w.proof.pw # account.pw]
    OBVIOUS
  <1>2. results' = results \ {w} /\ sessions' \in SI!Keep(sessions, s)
        /\ UNCHANGED <<account, tickets, req, revoked>>
    BY <1>1 DEF SI!Resume
  <1>3. sessions' \subseteq sessions \cup {s}
    BY <1>2, KeepAdds
  <1>4. s \in [pw: 0 .. MaxPw, late: BOOLEAN] /\ (~s.late => s.pw = account.pw)
    BY <1>1, <1>t, SignInTypes DEF SI!Proof
  <1>5. account.pw \in Nat /\ \A v \in revoked : v \in Nat
    BY <1>t, SignInTypes, Times
  <1>6. SI!TypeOK'
    BY <1>2, <1>3, <1>4, <1>t DEF SI!TypeOK
  <1>7. SI!OldSessionWasLate'
    BY <1>2, <1>3, <1>4, <1>5, <1>t DEF SI!OldSessionWasLate
  <1>8. QED
    BY <1>2, <1>5, <1>6, <1>7, SignInKept

\* Time goes by.
LEMMA SignInTick == ASSUME SignInInv, SI!Tick PROVE SignInInv'
  <1> DEFINE Top == 2 * TicketTTL + InteractionTTL
  <1>t. SI!TypeOK /\ SI!OldSessionWasLate
    BY DEF SignInInv
  <1>m. Top \in Nat /\ SI!Ages = 0 .. Top + 1
    BY Times DEF SI!Ages
  <1>1. ASSUME NEW t \in tickets,
               NEW u, u = [t EXCEPT !.age = SI!Older(@, TicketTTL), !.proof.age = SI!Older(@, Top)]
        PROVE  u \in [step: SI!StageSteps, age: SI!Ages, proof: SI!Proof] /\ TicketSound(u)
    <2>1. t \in [step: SI!StageSteps, age: SI!Ages, proof: SI!Proof] /\ TicketSound(t)
      BY <1>t, SignInTypes DEF SignInInv
    <2>2. t.age \in Nat /\ t.age <= Top + 1 /\ t.proof \in SI!Proof
          /\ t.proof.age \in Nat /\ t.proof.age <= Top + 1
      BY <2>1, <1>m DEF SI!Proof
    <2> HIDE DEF Top
    <2>3. SI!Older(t.proof.age, Top) \in SI!Ages /\ SI!Older(t.age, TicketTTL) \in SI!Ages
      <3>1. TicketTTL <= Top
        BY Times DEF Top
      <3>2. SI!Older(t.age, TicketTTL) \in Nat /\ SI!Older(t.age, TicketTTL) <= Top + 1
        BY <2>2, <3>1, Times, <1>m DEF SI!Older
      <3>3. SI!Older(t.proof.age, Top) \in Nat /\ SI!Older(t.proof.age, Top) <= Top + 1
        BY <2>2, <1>m DEF SI!Older
      <3>4. QED
        BY <3>2, <3>3, <1>m
    <2>4. /\ u.step = t.step /\ u.age = SI!Older(t.age, TicketTTL)
          /\ u.proof = [t.proof EXCEPT !.age = SI!Older(@, Top)]
          /\ u \in [step: SI!StageSteps, age: SI!Ages, proof: SI!Proof]
      BY <1>1, <2>1, <2>2, <2>3 DEF SI!Proof
    <2>5. /\ u.proof.pw = t.proof.pw /\ u.proof.owes = t.proof.owes /\ u.proof.did = t.proof.did
          /\ u.proof.age = SI!Older(t.proof.age, Top)
      BY <2>2, <2>4 DEF SI!Proof
    <2>6. /\ u.age \in Nat /\ u.proof.age \in Nat
          /\ u.age <= Life => u.age = t.age + 1 /\ t.age <= Life
          /\ u.proof.age <= t.proof.age + 1
      BY <2>2, <2>4, <2>5, <1>m, Times DEF SI!Older
    <2>7. TicketSound(u)
      <3>1. Rests(u.proof)
        BY <2>1, <2>5 DEF TicketSound, Rests
      <3>2. QED
        BY <2>1, <2>2, <2>4, <2>5, <2>6, <3>1, Times DEF TicketSound
    <2>8. QED
      BY <2>4, <2>7
  <1>2. ASSUME NEW w \in results,
               NEW u, u = [w EXCEPT !.age = SI!Older(@, InteractionTTL), !.proof.age = SI!Older(@, Top)]
        PROVE  u \in [age: SI!Ages, proof: SI!Proof] /\ ResultSound(u)
    <2>1. w \in [age: SI!Ages, proof: SI!Proof] /\ ResultSound(w)
      BY <1>t, SignInTypes DEF SignInInv
    <2>2. w.age \in Nat /\ w.age <= Top + 1 /\ w.proof \in SI!Proof
          /\ w.proof.age \in Nat /\ w.proof.age <= Top + 1
      BY <2>1, <1>m DEF SI!Proof
    <2> HIDE DEF Top
    <2>3. SI!Older(w.proof.age, Top) \in SI!Ages /\ SI!Older(w.age, InteractionTTL) \in SI!Ages
      <3>1. InteractionTTL <= Top
        BY Times DEF Top
      <3>2. SI!Older(w.age, InteractionTTL) \in Nat /\ SI!Older(w.age, InteractionTTL) <= Top + 1
        BY <2>2, <3>1, Times, <1>m DEF SI!Older
      <3>3. SI!Older(w.proof.age, Top) \in Nat /\ SI!Older(w.proof.age, Top) <= Top + 1
        BY <2>2, <1>m DEF SI!Older
      <3>4. QED
        BY <3>2, <3>3, <1>m
    <2>4. /\ u.age = SI!Older(w.age, InteractionTTL)
          /\ u.proof = [w.proof EXCEPT !.age = SI!Older(@, Top)]
          /\ u \in [age: SI!Ages, proof: SI!Proof]
      BY <1>2, <2>1, <2>2, <2>3 DEF SI!Proof
    <2>5. /\ u.proof.pw = w.proof.pw /\ u.proof.owes = w.proof.owes /\ u.proof.did = w.proof.did
          /\ u.proof.age = SI!Older(w.proof.age, Top)
      BY <2>2, <2>4 DEF SI!Proof
    <2>6. /\ u.age \in Nat /\ u.proof.age \in Nat
          /\ u.age <= InteractionTTL => u.age = w.age + 1 /\ w.age <= InteractionTTL
          /\ u.proof.age <= w.proof.age + 1
      BY <2>2, <2>4, <2>5, <1>m, Times DEF SI!Older
    <2>7. ResultSound(u)
      <3>1. Rests(u.proof)
        BY <2>1, <2>5 DEF ResultSound, Rests
      <3>2. QED
        BY <2>1, <2>2, <2>5, <2>6, <3>1, Times DEF ResultSound
    <2>8. QED
      BY <2>4, <2>7
  <1>3. UNCHANGED <<account, sessions, req, revoked>>
    BY DEF SI!Tick
  <1>4. \A u \in tickets' : u \in [step: SI!StageSteps, age: SI!Ages, proof: SI!Proof] /\ TicketSound(u)
    BY <1>1 DEF SI!Tick
  <1>5. \A u \in results' : u \in [age: SI!Ages, proof: SI!Proof] /\ ResultSound(u)
    BY <1>2 DEF SI!Tick
  <1> HIDE DEF Top
  <1>6. SI!TypeOK'
    BY <1>3, <1>4, <1>5, <1>t DEF SI!TypeOK
  <1>7. (\A u \in tickets' : TicketSound(u)') /\ (\A u \in results' : ResultSound(u)')
    BY <1>3, <1>4, <1>5 DEF TicketSound, ResultSound, Rests
  <1>8. SI!OldSessionWasLate'
    BY <1>3, <1>t DEF SI!OldSessionWasLate
  <1>9. account.pw \in Nat
    BY <1>t, SignInTypes, Times
  <1>10. QED
    BY <1>3, <1>6, <1>7, <1>8, <1>9, SignInKept

LEMMA SignInAge == ASSUME SignInInv, SI!Age PROVE SignInInv'
  <1>1. account' = [account EXCEPT !.must = TRUE] /\ UNCHANGED <<tickets, results, sessions, req, revoked>>
    BY DEF SI!Age
  <1>2. account \in [pw: 0 .. MaxPw, must: BOOLEAN, factor: {"breakglass", "off", "required", "on"}]
        /\ account.pw \in Nat /\ SI!TypeOK /\ SI!OldSessionWasLate
    BY SignInTypes, Times DEF SignInInv
  <1>3. account' \in [pw: 0 .. MaxPw, must: BOOLEAN, factor: {"breakglass", "off", "required", "on"}]
        /\ account'.pw = account.pw /\ account'.factor = account.factor
    BY <1>1, <1>2
  <1>4. SI!TypeOK' /\ SI!OldSessionWasLate'
    BY <1>1, <1>2, <1>3 DEF SI!TypeOK, SI!OldSessionWasLate
  <1>5. QED
    BY <1>1, <1>2, <1>3, <1>4, SignInKept

LEMMA SignInInvKept == SignInInv /\ UNCHANGED signInVars => SignInInv'
  BY DEF signInVars, SignInInv, SI!TypeOK, TicketSound, LoginSound, ResultSound, Rests, Life,
     SI!OldSessionWasLate
-----------------------------------------------------------------------------
(* Reset links. *)

LEMMA SameCardinality == \A S : RL!Cardinality(S) = Cardinality(S)
  BY DEF RL!Cardinality, Cardinality

\* A request that redeems has locked one live link, which is nobody else's.
LinkLocked ==
  /\ \A x \in Clients : doing[x].at = "redeem" =>
       \E l \in Links : doing[x].link = {l} /\ links[l] = "live"
  /\ \A x, y \in Clients :
       doing[x].at = "redeem" /\ doing[y].at = "redeem" /\ doing[x].link = doing[y].link => x = y
\* A link that is not used up has set no password; those a request saw when it
\* disabled are used up.
UsedUp ==
  /\ \A l \in Links : uses[l] <= 1 /\ (links[l] # "used" => uses[l] = 0)
  /\ \A x \in Clients : doing[x].at = "insert" => \A l \in doing[x].seen : links[l] = "used"

LinkInv == RL!TypeOK /\ LinkLocked /\ UsedUp /\ RL!OldLinksDisabled

LEMMA LinkInvInit == RL!Init => LinkInv
  <1> SUFFICES ASSUME RL!Init PROVE LinkInv
    OBVIOUS
  <1>1. Cardinality(Clients) \in Nat
    BY AccountAssumption, FS_CardinalityType
  <1>2. RL!Resting.at = "idle" /\ RL!Resting.link = {} /\ RL!Resting.seen = {}
        /\ RL!Resting \in [at: {"idle", "disable", "insert", "redeem"}, link: SUBSET Links, seen: SUBSET Links]
    BY DEF RL!Resting
  <1>3. RL!TypeOK
    <2>1. 0 \in 0 .. RL!Cardinality(Clients)
      BY <1>1, SameCardinality
    <2>2. uses \in [Links -> 0 .. RL!Cardinality(Clients)]
      BY <2>1 DEF RL!Init
    <2>3. doing \in [Clients -> [at: {"idle", "disable", "insert", "redeem"}, link: SUBSET Links, seen: SUBSET Links]]
      <3> HIDE DEF RL!Resting
      <3>1. QED
        BY <1>2 DEF RL!Init
    <2>4. QED
      BY <2>2, <2>3 DEF RL!Init, RL!TypeOK
  <1>4. LinkLocked /\ UsedUp /\ RL!OldLinksDisabled
    BY <1>2 DEF RL!Init, LinkLocked, UsedUp, RL!OldLinksDisabled
  <1>5. QED
    BY <1>3, <1>4 DEF LinkInv

LEMMA LinkInvStep == LinkInv /\ RL!Next => LinkInv'
  <1> SUFFICES ASSUME LinkInv, RL!Next PROVE LinkInv'
    OBVIOUS
  <1> DEFINE Doing == [at: {"idle", "disable", "insert", "redeem"}, link: SUBSET Links, seen: SUBSET Links]
  <1>t. RL!TypeOK /\ LinkLocked /\ UsedUp /\ RL!OldLinksDisabled
    BY DEF LinkInv
  <1>n. Cardinality(Clients) \in Nat /\ RL!Cardinality(Clients) = Cardinality(Clients)
    BY AccountAssumption, FS_CardinalityType, SameCardinality
  <1>k. /\ links \in [Links -> {"none", "live", "used"}] /\ gone \in BOOLEAN
        /\ doing \in [Clients -> Doing]
        /\ uses \in [Links -> 0 .. Cardinality(Clients)] /\ newer \in [Links -> SUBSET Links]
    BY <1>t, <1>n DEF RL!TypeOK
  <1>r. RL!Resting \in Doing /\ RL!Resting.at = "idle"
    BY DEF RL!Resting
  <1>l. ASSUME NEW x \in Clients, doing[x].at = "redeem", NEW l \in doing[x].link
        PROVE  l \in Links /\ links[l] = "live" /\ doing[x].link = {l} /\ RL!RowLocked(l)
    BY <1>l, <1>t DEF LinkLocked, RL!RowLocked, RL!Redeeming
  \* A request that takes a step which leaves the links as they are.
  <1>a. ASSUME NEW x \in Clients, NEW d \in Doing, doing' = [doing EXCEPT ![x] = d],
               d.at \in {"idle", "disable"}, UNCHANGED <<links, uses, newer>>, gone' \in BOOLEAN
        PROVE  LinkInv'
    <2>1. \A y \in Clients : doing'[y] = IF y = x THEN d ELSE doing[y]
      BY <1>a, <1>k
    <2>2. RL!TypeOK'
      BY <1>a, <1>k, <1>n DEF RL!TypeOK
    <2> HIDE DEF Doing
    <2>3. LinkLocked'
      BY <1>a, <1>t, <2>1 DEF LinkLocked
    <2>4. UsedUp' /\ RL!OldLinksDisabled'
      BY <1>a, <1>t, <2>1 DEF UsedUp, RL!OldLinksDisabled
    <2>5. QED
      BY <2>2, <2>3, <2>4 DEF LinkInv
  <1>1. ASSUME NEW x \in Clients, RL!Ask(x) PROVE LinkInv'
    <2> DEFINE d == [doing[x] EXCEPT !.at = "disable"]
    <2>1. d \in Doing /\ d.at = "disable" /\ doing' = [doing EXCEPT ![x] = d]
      BY <1>1, <1>k DEF RL!Ask
    <2> HIDE DEF d, Doing
    <2>2. QED
      BY <1>1, <2>1, <1>a, <1>k DEF RL!Ask
  <1>2. ASSUME NEW x \in Clients, RL!DisableOld(x) PROVE LinkInv'
    <2> DEFINE d == [doing[x] EXCEPT !.at = "insert", !.seen = {l \in Links : links[l] # "none"}]
    <2>1. d \in Doing /\ d.at = "insert" /\ doing' = [doing EXCEPT ![x] = d]
          /\ d.seen = {l \in Links : links[l] # "none"}
      BY <1>2, <1>k DEF RL!DisableOld
    <2> HIDE DEF d
    <2>2. UNCHANGED <<gone, uses, newer>> /\ \A l \in Links : links[l] = "live" => ~RL!RowLocked(l)
      BY <1>2 DEF RL!DisableOld
    <2>3. links' \in [Links -> {"none", "live", "used"}]
          /\ \A l \in Links : links'[l] = IF links[l] = "live" THEN "used" ELSE links[l]
      BY <1>2, <1>k DEF RL!DisableOld, RL!Disabled
    <2>4. RL!TypeOK'
      BY <2>1, <2>2, <2>3, <1>k, <1>n DEF RL!TypeOK
    <2>5. \A y \in Clients : doing'[y] = IF y = x THEN d ELSE doing[y]
      BY <2>1, <1>k
    <2>6. \A y \in Clients : doing[y].at # "redeem"
      <3> SUFFICES ASSUME NEW y \in Clients, doing[y].at = "redeem" PROVE FALSE
        OBVIOUS
      <3>1. PICK l \in Links : doing[y].link = {l} /\ links[l] = "live"
        BY <1>t DEF LinkLocked
      <3>2. QED
        BY <3>1, <2>2 DEF RL!RowLocked, RL!Redeeming
    <2> HIDE DEF Doing
    <2>7. LinkLocked'
      BY <2>1, <2>5, <2>6 DEF LinkLocked
    <2>8. \A y \in Clients : doing[y].seen \subseteq Links
      BY <1>k DEF Doing
    <2>9. UsedUp'
      BY <2>1, <2>2, <2>3, <2>5, <2>8, <1>k, <1>t DEF UsedUp
    <2>10. RL!OldLinksDisabled'
      BY <2>2, <2>3, <1>t DEF RL!OldLinksDisabled
    <2>11. QED
      BY <2>4, <2>7, <2>9, <2>10 DEF LinkInv
  <1>3. ASSUME NEW x \in Clients, RL!InsertLink(x) PROVE LinkInv'
    <2>1. PICK l \in Links :
             /\ links[l] = "none" /\ links' = [links EXCEPT ![l] = "live"]
             /\ newer' = [k \in Links |-> IF k \in doing[x].seen THEN newer[k] \cup {l} ELSE newer[k]]
      BY <1>3 DEF RL!InsertLink
    <2>2. doing[x].at = "insert" /\ doing' = [doing EXCEPT ![x] = RL!Resting] /\ UNCHANGED <<gone, uses>>
      BY <1>3 DEF RL!InsertLink
    <2>3. newer' \in [Links -> SUBSET Links]
      BY <2>1, <1>k
    <2>4. RL!TypeOK'
      BY <2>1, <2>2, <2>3, <1>r, <1>k, <1>n DEF RL!TypeOK
    <2>5. \A y \in Clients : doing'[y] = IF y = x THEN RL!Resting ELSE doing[y]
      BY <2>2, <1>k
    <2>6. \A k \in Links : links'[k] = IF k = l THEN "live" ELSE links[k]
      BY <2>1, <1>k
    <2>7. \A y \in Clients : doing[y].seen \subseteq Links
      BY <1>k
    <2> HIDE DEF Doing
    <2>8. LinkLocked'
      BY <2>1, <2>5, <2>6, <1>r, <1>t DEF LinkLocked
    <2>9. UsedUp'
      BY <2>1, <2>2, <2>5, <2>6, <2>7, <1>r, <1>t DEF UsedUp
    <2>10. RL!OldLinksDisabled'
      <3> SUFFICES ASSUME NEW k \in Links, newer'[k] # {} PROVE links'[k] = "used"
        BY DEF RL!OldLinksDisabled
      <3>1. CASE k \in doing[x].seen
        BY <2>1, <2>2, <2>6, <3>1, <1>t DEF UsedUp
      <3>2. CASE k \notin doing[x].seen
        BY <2>1, <2>6, <3>2, <1>t DEF RL!OldLinksDisabled
      <3>3. QED
        BY <3>1, <3>2
    <2>11. QED
      BY <2>4, <2>8, <2>9, <2>10 DEF LinkInv
  <1>4. ASSUME NEW x \in Clients, NEW l \in Links, RL!TakeLink(x, l) PROVE LinkInv'
    <2> DEFINE d == [doing[x] EXCEPT !.at = "redeem", !.link = {l}]
    <2>1. d \in Doing /\ d.at = "redeem" /\ d.link = {l} /\ doing' = [doing EXCEPT ![x] = d]
      BY <1>4, <1>k DEF RL!TakeLink
    <2> HIDE DEF d
    <2>2. UNCHANGED <<links, gone, uses, newer>> /\ links[l] = "live" /\ ~RL!RowLocked(l)
      BY <1>4 DEF RL!TakeLink
    <2>3. RL!TypeOK'
      BY <2>1, <2>2, <1>k, <1>n DEF RL!TypeOK
    <2>4. \A y \in Clients : doing'[y] = IF y = x THEN d ELSE doing[y]
      BY <2>1, <1>k
    <2> HIDE DEF Doing
    <2>5. \A y \in Clients : doing[y].at = "redeem" => doing[y].link # {l}
      BY <2>2 DEF RL!RowLocked, RL!Redeeming
    <2>6. LinkLocked'
      BY <2>1, <2>2, <2>4, <2>5, <1>t DEF LinkLocked
    <2>7. UsedUp' /\ RL!OldLinksDisabled'
      BY <2>1, <2>2, <2>4, <1>t DEF UsedUp, RL!OldLinksDisabled
    <2>8. QED
      BY <2>3, <2>6, <2>7 DEF LinkInv
  <1>5. ASSUME NEW x \in Clients, RL!Redeem(x) PROVE LinkInv'
    <2>1. PICK l \in doing[x].link :
             /\ links' = [links EXCEPT ![l] = "used"]
             /\ uses' = [uses EXCEPT ![l] = IF @ < RL!Cardinality(Clients) THEN @ + 1 ELSE @]
      BY <1>5 DEF RL!Redeem, RL!MarkUsed
    <2>2. doing[x].at = "redeem" /\ doing' = [doing EXCEPT ![x] = RL!Resting] /\ UNCHANGED <<gone, newer>>
      BY <1>5 DEF RL!Redeem
    <2>3. l \in Links /\ links[l] = "live" /\ doing[x].link = {l}
      BY <2>1, <2>2, <1>l
    <2>4. uses[l] = 0 /\ uses'[l] \in 0 .. Cardinality(Clients) /\ uses'[l] <= 1
      BY <2>1, <2>3, <1>k, <1>n, <1>t DEF UsedUp
    <2>5. uses' \in [Links -> 0 .. Cardinality(Clients)]
          /\ \A k \in Links : k # l => uses'[k] = uses[k]
      BY <2>1, <2>3, <2>4, <1>k
    <2>6. RL!TypeOK'
      BY <2>1, <2>2, <2>3, <2>5, <1>r, <1>k, <1>n DEF RL!TypeOK
    <2>7. \A y \in Clients : doing'[y] = IF y = x THEN RL!Resting ELSE doing[y]
      BY <2>2, <1>k
    <2>8. \A k \in Links : links'[k] = IF k = l THEN "used" ELSE links[k]
      BY <2>1, <1>k
    <2>9. \A y \in Clients : doing[y].seen \subseteq Links
      BY <1>k
    <2> HIDE DEF Doing
    <2>10. LinkLocked'
      <3>1. ASSUME NEW y \in Clients, doing'[y].at = "redeem"
            PROVE  y # x /\ \E k \in Links : doing'[y].link = {k} /\ links'[k] = "live"
        <4>1. y # x /\ doing'[y] = doing[y]
          BY <3>1, <2>7, <1>r
        <4>2. doing[y].link # {l}
          BY <3>1, <4>1, <2>2, <2>3, <1>t DEF LinkLocked
        <4>3. PICK k \in Links : doing[y].link = {k} /\ links[k] = "live"
          BY <3>1, <4>1, <1>t DEF LinkLocked
        <4>4. QED
          BY <4>1, <4>2, <4>3, <2>8
      <3>2. QED
        BY <3>1, <2>7, <1>t DEF LinkLocked
    <2>11. UsedUp'
      BY <2>4, <2>5, <2>7, <2>8, <2>9, <1>r, <1>t DEF UsedUp
    <2>12. RL!OldLinksDisabled'
      BY <2>2, <2>8, <1>t DEF RL!OldLinksDisabled
    <2>13. QED
      BY <2>6, <2>10, <2>11, <2>12 DEF LinkInv
  <1>6. ASSUME NEW x \in Clients, RL!Abort(x) PROVE LinkInv'
    <2> HIDE DEF Doing
    <2>1. QED
      BY <1>6, <1>a, <1>r, <1>k DEF RL!Abort
  <1>7. ASSUME NEW l \in Links, RL!Expire(l) PROVE LinkInv'
    <2>1. links[l] = "live" /\ ~RL!RowLocked(l) /\ links' = [links EXCEPT ![l] = "used"]
          /\ UNCHANGED <<gone, doing, uses, newer>>
      BY <1>7 DEF RL!Expire
    <2>2. RL!TypeOK'
      BY <2>1, <1>k, <1>n DEF RL!TypeOK
    <2>3. \A k \in Links : links'[k] = IF k = l THEN "used" ELSE links[k]
      BY <2>1, <1>k
    <2>4. \A y \in Clients : doing[y].seen \subseteq Links
      BY <1>k
    <2> HIDE DEF Doing
    <2>5. LinkLocked'
      BY <2>1, <2>3, <1>t DEF LinkLocked, RL!RowLocked, RL!Redeeming
    <2>6. UsedUp' /\ RL!OldLinksDisabled'
      BY <2>1, <2>3, <2>4, <1>t DEF UsedUp, RL!OldLinksDisabled
    <2>7. QED
      BY <2>2, <2>5, <2>6 DEF LinkInv
  <1>8. CASE RL!Toggle
    BY <1>8, <1>k, <1>n, <1>t DEF RL!Toggle, LinkInv, RL!TypeOK, LinkLocked, UsedUp, RL!OldLinksDisabled
  <1>9. QED
    BY <1>1, <1>2, <1>3, <1>4, <1>5, <1>6, <1>7, <1>8 DEF RL!Next

LEMMA LinkInvKept == LinkInv /\ UNCHANGED linkVars => LinkInv'
  BY DEF linkVars, LinkInv, RL!TypeOK, LinkLocked, UsedUp, RL!OldLinksDisabled

LEMMA LinksAreSound == LinkInv => RL!LinksSound
  BY DEF LinkInv, UsedUp, RL!LinksSound, RL!LinkOnce
-----------------------------------------------------------------------------
(* Waits. *)

Attempts == [who: Accounts, ok: BOOLEAN, age: 0 .. Window - 1]

LEMMA WaitBounds == Cap \in Nat /\ Window \in Nat /\ Window >= 1
  BY AccountAssumption

LEMMA RowsAre ==
  ASSUME NEW n \in Nat, NEW s \in [1 .. n -> Attempts]
  PROVE  s \in Seq(Attempts) /\ Len(s) = n
  OBVIOUS

LEMMA WaitTypesInit == BO!Init => BO!TypeOK
  <1> SUFFICES ASSUME BO!Init PROVE BO!TypeOK
    OBVIOUS
  <1>1. attempts = <<>> /\ Len(attempts) = 0 /\ attempts \in Seq(Attempts)
    BY DEF BO!Init
  <1>2. QED
    BY <1>1, WaitBounds DEF BO!Init, BO!TypeOK, Attempts

LEMMA WaitTypesStep == BO!TypeOK /\ BO!Next => BO!TypeOK'
  <1> SUFFICES ASSUME BO!TypeOK, BO!Next PROVE BO!TypeOK'
    OBVIOUS
  <1>t. /\ attempts \in Seq(Attempts) /\ Len(attempts) \in Nat /\ Len(attempts) <= Cap
        /\ DOMAIN attempts = 1 .. Len(attempts)
        /\ trying \in [Reqs -> {{}} \cup {{a} : a \in Accounts}] /\ halfway \subseteq Reqs
    BY LenProperties DEF BO!TypeOK, Attempts
  <1>1. ASSUME NEW r \in Reqs, NEW a \in Accounts, BO!AskAddress(r, a) \/ BO!AskAccount(r, a)
        PROVE  BO!TypeOK'
    BY <1>1 DEF BO!AskAddress, BO!AskAccount, BO!TypeOK
  <1>d. ASSUME NEW r \in Reqs, BO!Drop(r) PROVE BO!TypeOK'
    BY <1>d DEF BO!Drop, BO!TypeOK
  <1>2. ASSUME NEW r \in Reqs, NEW ok \in BOOLEAN, BO!Record(r, ok) PROVE BO!TypeOK'
    <2>1. PICK a \in trying[r] : attempts' = Append(attempts, [who |-> a, ok |-> ok, age |-> 0])
      BY <1>2 DEF BO!Record
    <2>2. PICK x \in Attempts : x = [who |-> a, ok |-> ok, age |-> 0]
      <3>1. a \in Accounts
        BY <1>t, <2>1
      <3>2. 0 \in 0 .. Window - 1
        BY WaitBounds
      <3>3. [who |-> a, ok |-> ok, age |-> 0] \in Attempts
        BY <3>1, <3>2 DEF Attempts
      <3>4. QED
        BY <3>3
    <2>3. attempts' = Append(attempts, x) /\ Len(attempts) < Cap
      BY <1>2, <2>1, <2>2 DEF BO!Record
    <2>4. attempts' \in Seq(Attempts) /\ Len(attempts') = Len(attempts) + 1
      BY <1>t, <2>3, AppendProperties
    <2>5. Len(attempts') <= Cap
      BY <1>t, <2>3, <2>4, WaitBounds
    <2>6. trying' \in [Reqs -> {{}} \cup {{b} : b \in Accounts}] /\ halfway' \subseteq Reqs
      BY <1>2, <1>t DEF BO!Record
    <2>7. QED
      BY <2>4, <2>5, <2>6 DEF BO!TypeOK, Attempts
  <1>3. CASE BO!Tick
    <2>1. PICK n \in 0 .. Len(attempts) :
             /\ \A i \in DOMAIN attempts : i <= n <=> attempts[i].age + 1 >= Window
             /\ attempts' = [i \in 1 .. Len(attempts) - n |-> [attempts[n + i] EXCEPT !.age = @ + 1]]
      BY <1>3 DEF BO!Tick
    <2>2. PICK m \in Nat : m = Len(attempts) - n
      <3>1. Len(attempts) - n \in Nat
        BY <1>t, <2>1
      <3>2. QED
        BY <3>1
    <2>3. ASSUME NEW i \in 1 .. m PROVE [attempts[n + i] EXCEPT !.age = @ + 1] \in Attempts
      <3>1. n + i \in 1 .. Len(attempts) /\ ~(n + i <= n)
        BY <1>t, <2>2
      <3>2. PICK x \in Attempts : x = attempts[n + i]
        BY <1>t, <3>1
      <3>3. ~(x.age + 1 >= Window) /\ x.age \in 0 .. Window - 1
        BY <1>t, <2>1, <3>1, <3>2 DEF Attempts
      <3>4. x.age + 1 \in 0 .. Window - 1
        BY <3>3, WaitBounds
      <3>5. [x EXCEPT !.age = @ + 1] \in Attempts
        BY <3>4 DEF Attempts
      <3>6. QED
        BY <3>2, <3>5
    <2>4. attempts' \in [1 .. m -> Attempts]
      BY <2>1, <2>2, <2>3
    <2>5. attempts' \in Seq(Attempts) /\ Len(attempts') = m
      BY <2>4, RowsAre
    <2>6. m <= Cap
      BY <1>t, <2>2, WaitBounds
    <2>7. QED
      BY <1>3, <1>t, <2>5, <2>6 DEF BO!Tick, BO!TypeOK, Attempts
  <1>4. QED
    BY <1>1, <1>d, <1>2, <1>3 DEF BO!Next

\* An empty set has one part, and a set of n + 1 more parts than one of n: the delays grow.
LEMMA PowersGrow ==
  ASSUME NEW m \in Nat, NEW n \in Nat, m <= n
  PROVE  2^m \in Nat /\ 2^n \in Nat /\ 2^m <= 2^n
  <1>1. /\ IsFiniteSet(1 .. m) /\ Cardinality(1 .. m) = m
        /\ IsFiniteSet(1 .. n) /\ Cardinality(1 .. n) = n
    <2>1. \A b \in Int : IsFiniteSet(1 .. b) /\ Cardinality(1 .. b) = IF 1 > b THEN 0 ELSE b - 1 + 1
      BY FS_Interval
    <2>2. QED
      BY <2>1
  <1>2. /\ IsFiniteSet(SUBSET (1 .. m)) /\ Cardinality(SUBSET (1 .. m)) = 2^m
        /\ IsFiniteSet(SUBSET (1 .. n)) /\ Cardinality(SUBSET (1 .. n)) = 2^n
    BY <1>1, FS_SUBSET
  <1>3. SUBSET (1 .. m) \subseteq SUBSET (1 .. n)
    <2>1. 1 .. m \subseteq 1 .. n
      OBVIOUS
    <2>2. QED
      BY <2>1
  <1>4. 2^m \in Nat /\ 2^n \in Nat
    BY <1>2, FS_CardinalityType
  <1>5. Cardinality(SUBSET (1 .. m)) <= Cardinality(SUBSET (1 .. n))
    BY <1>2, <1>3, FS_Subset
  <1>6. QED
    BY <1>2, <1>4, <1>5

LEMMA DelayGrows ==
  ASSUME NEW t \in Nat, NEW m \in Nat, NEW n \in Nat, m <= n
  PROVE  /\ BO!Delay(m, t) \in Nat /\ BO!Delay(n, t) \in Nat
         /\ BO!Delay(m, t) <= BO!Delay(n, t)
  <1>0. MaxDelay \in Nat
    BY AccountAssumption
  <1>1. CASE n < t
    BY <1>1 DEF BO!Delay
  <1>2. CASE ~ (n < t) /\ m < t
    <2>1. PICK p \in Nat : p = n - t
      BY <1>2
    <2>2. 2^p \in Nat
      BY PowersGrow
    <2>3. QED
      BY <1>0, <1>2, <2>1, <2>2 DEF BO!Delay
  <1>3. CASE ~ (m < t)
    <2>1. PICK p \in Nat, q \in Nat : p = m - t /\ q = n - t
      BY <1>3
    <2>2. 2^p \in Nat /\ 2^q \in Nat /\ 2^p <= 2^q
      BY <2>1, PowersGrow
    <2>3. ~ (n < t)
      BY <1>3
    <2>4. QED
      BY <1>0, <1>3, <2>1, <2>2, <2>3 DEF BO!Delay
  <1>4. QED
    BY <1>1, <1>2, <1>3

LEMMA SameMembers == \A S : BO!Cardinality(S) = Cardinality(S)
  BY DEF BO!Cardinality, Cardinality

\* Of a log, the rows of one kind, those that are counted for their delay, and the threshold:
\* what was recorded after row i before its delay was over.  Only the requests that were in
\* flight with it can do that, which are fewer than all; and while the delay is not over, those
\* that are left could.
Due(counted, i, t)              == BO!Delay(Cardinality(BO!UpTo(counted, i)), t)
Early(log, kind, counted, i, t) ==
  {k \in kind : i < k /\ log[i].age - log[k].age < Due(counted, i, t)}
Slots(log, flight, kind, counted, t) ==
  \A i \in kind :
    /\ Cardinality(Early(log, kind, counted, i, t)) < Cardinality(Reqs)
    /\ log[i].age < Due(counted, i, t) =>
         Cardinality(Early(log, kind, counted, i, t)) + flight < Cardinality(Reqs)
Sorted(log) == \A i, j \in DOMAIN log : i <= j => log[j].age <= log[i].age

LEMMA LogTypes ==
  ASSUME NEW log \in Seq(Attempts)
  PROVE  /\ Len(log) \in Nat /\ DOMAIN log = 1 .. Len(log)
         /\ \A i \in DOMAIN log : /\ log[i] \in Attempts /\ log[i].age \in Nat
                                  /\ log[i].age < Window
  <1>1. Len(log) \in Nat /\ DOMAIN log = 1 .. Len(log)
    BY LenProperties
  <1>2. \A i \in DOMAIN log : log[i] \in Attempts
    BY <1>1
  <1>3. QED
    BY <1>1, <1>2, WaitBounds DEF Attempts

LEMMA RowFacts ==
  ASSUME NEW log \in Seq(Attempts), NEW kind \in SUBSET DOMAIN log,
         NEW counted \in SUBSET DOMAIN log, NEW t \in Nat
  PROVE  /\ kind \subseteq Nat /\ IsFiniteSet(kind) /\ Cardinality(kind) \in Nat
         /\ \A i \in Nat :
              /\ IsFiniteSet(BO!UpTo(counted, i)) /\ Cardinality(BO!UpTo(counted, i)) \in Nat
              /\ Due(counted, i, t) \in Nat
              /\ Due(counted, i, t) <= BO!Delay(Cardinality(counted), t)
              /\ IsFiniteSet(Early(log, kind, counted, i, t))
              /\ Cardinality(Early(log, kind, counted, i, t)) \in Nat
  <1>1. /\ kind \subseteq 1 .. Len(log) /\ counted \subseteq 1 .. Len(log) /\ Len(log) \in Nat
    BY LogTypes
  <1>2. IsFiniteSet(1 .. Len(log))
    <2>1. \A b \in Int : IsFiniteSet(1 .. b)
      BY FS_Interval
    <2>2. QED
      BY <1>1, <2>1
  <1>3. /\ kind \subseteq Nat /\ IsFiniteSet(kind) /\ Cardinality(kind) \in Nat
        /\ IsFiniteSet(counted) /\ Cardinality(counted) \in Nat
    BY <1>1, <1>2, FS_Subset, FS_CardinalityType
  <1>4. ASSUME NEW i \in Nat
        PROVE  /\ IsFiniteSet(BO!UpTo(counted, i)) /\ Cardinality(BO!UpTo(counted, i)) \in Nat
               /\ Due(counted, i, t) \in Nat
               /\ Due(counted, i, t) <= BO!Delay(Cardinality(counted), t)
               /\ IsFiniteSet(Early(log, kind, counted, i, t))
               /\ Cardinality(Early(log, kind, counted, i, t)) \in Nat
    <2>1. BO!UpTo(counted, i) \subseteq counted /\ Early(log, kind, counted, i, t) \subseteq kind
      BY DEF BO!UpTo, Early
    <2>2. /\ IsFiniteSet(BO!UpTo(counted, i)) /\ Cardinality(BO!UpTo(counted, i)) \in Nat
          /\ Cardinality(BO!UpTo(counted, i)) <= Cardinality(counted)
          /\ IsFiniteSet(Early(log, kind, counted, i, t))
          /\ Cardinality(Early(log, kind, counted, i, t)) \in Nat
      BY <2>1, <1>3, FS_Subset, FS_CardinalityType
    <2>3. QED
      BY <2>2, <1>3, DelayGrows DEF Due
  <1>5. QED
    BY <1>3, <1>4

LEMMA RequestsCount == IsFiniteSet(Reqs) /\ Cardinality(Reqs) \in Nat
  BY FactorAssumption, FS_CardinalityType

\* Who passes finds every delay over.
LEMMA SlotsPassed ==
  ASSUME NEW log \in Seq(Attempts), NEW counted \in SUBSET DOMAIN log, NEW kind \in SUBSET counted,
         NEW t \in Nat, NEW f, NEW g, Slots(log, f, kind, counted, t), Sorted(log),
         counted # {} => BO!Delay(Cardinality(counted), t) <= log[BO!Newest(counted)].age
  PROVE  Slots(log, g, kind, counted, t)
  <1> SUFFICES ASSUME NEW i \in kind PROVE ~ (log[i].age < Due(counted, i, t))
    BY DEF Slots
  <1>0. i \in counted /\ i \in DOMAIN log
    OBVIOUS
  <1>1. PICK n \in counted : \A j \in counted : j <= n
    BY <1>0, RowFacts, GreatestExists
  <1>2. BO!Newest(counted) \in counted /\ \A j \in counted : j <= BO!Newest(counted)
    BY <1>1 DEF BO!Newest
  <1>3. log[BO!Newest(counted)].age <= log[i].age
    BY <1>0, <1>2 DEF Sorted
  <1>4. log[BO!Newest(counted)].age \in Nat /\ log[i].age \in Nat
    BY <1>0, <1>2, LogTypes
  <1>5. i \in Nat
    BY <1>0, RowFacts
  <1>6. Due(counted, i, t) \in Nat /\ Due(counted, i, t) <= BO!Delay(Cardinality(counted), t)
    BY <1>5, RowFacts
  <1>7. BO!Delay(Cardinality(counted), t) \in Nat
    <2>1. Cardinality(counted) \in Nat /\ Cardinality(counted) <= Cardinality(counted)
      BY RowFacts
    <2>2. QED
      BY <2>1, DelayGrows
  <1>8. QED
    BY <1>0, <1>3, <1>4, <1>6, <1>7

LEMMA SlotsFewer ==
  ASSUME NEW log \in Seq(Attempts), NEW kind \in SUBSET DOMAIN log,
         NEW counted \in SUBSET DOMAIN log, NEW t \in Nat,
         NEW f \in Nat, NEW g \in Nat, g <= f, Slots(log, f, kind, counted, t)
  PROVE  Slots(log, g, kind, counted, t)
  <1> SUFFICES ASSUME NEW i \in kind, log[i].age < Due(counted, i, t)
               PROVE  Cardinality(Early(log, kind, counted, i, t)) + g < Cardinality(Reqs)
    BY DEF Slots
  <1>1. Cardinality(Early(log, kind, counted, i, t)) + f < Cardinality(Reqs)
    BY DEF Slots
  <1>2. Cardinality(Early(log, kind, counted, i, t)) \in Nat
    BY RowFacts
  <1>3. QED
    BY <1>1, <1>2, RequestsCount

\* Rows of another kind are recorded, whether they are counted or not.
LEMMA SlotsSame ==
  ASSUME NEW log \in Seq(Attempts), NEW kind \in SUBSET DOMAIN log,
         NEW counted \in SUBSET DOMAIN log, NEW t \in Nat, NEW f,
         NEW x \in Attempts, Slots(log, f, kind, counted, t)
  PROVE  /\ Slots(Append(log, x), f, kind, counted, t)
         /\ Slots(Append(log, x), f, kind, counted \cup {Len(log) + 1}, t)
  <1> SUFFICES ASSUME NEW more \in {counted, counted \cup {Len(log) + 1}}
               PROVE  Slots(Append(log, x), f, kind, more, t)
    OBVIOUS
  <1>1. \A i \in kind : Append(log, x)[i] = log[i]
    BY LogTypes, AppendProperties
  <1>2. \A i \in kind : BO!UpTo(more, i) = BO!UpTo(counted, i)
    <2>1. \A i \in kind : i \in Nat /\ ~ (Len(log) + 1 <= i)
      BY LogTypes
    <2>2. QED
      BY <2>1 DEF BO!UpTo
  <1>3. \A i \in kind : Due(more, i, t) = Due(counted, i, t)
    BY <1>2 DEF Due
  <1>4. \A i \in kind : Early(Append(log, x), kind, more, i, t) = Early(log, kind, counted, i, t)
    BY <1>1, <1>3 DEF Early
  <1>5. QED
    BY <1>1, <1>3, <1>4 DEF Slots

\* One that was in flight is recorded: it is early for a row if there was room for it.
LEMMA SlotsAppend ==
  ASSUME NEW log \in Seq(Attempts), NEW kind \in SUBSET DOMAIN log,
         NEW counted \in SUBSET DOMAIN log, NEW t \in Nat,
         NEW f \in Nat, f < Cardinality(Reqs),
         NEW x \in Attempts, x.age = 0, Slots(log, f + 1, kind, counted, t)
  PROVE  Slots(Append(log, x), f, kind \cup {Len(log) + 1}, counted \cup {Len(log) + 1}, t)
  <1> DEFINE n    == Len(log) + 1
             more == kind \cup {n}
             all  == counted \cup {n}
             new  == Append(log, x)
  <1>1. /\ Len(log) \in Nat /\ DOMAIN log = 1 .. Len(log) /\ kind \subseteq 1 .. Len(log)
        /\ counted \subseteq 1 .. Len(log)
        /\ new \in Seq(Attempts) /\ DOMAIN new = 1 .. n /\ more \subseteq DOMAIN new
        /\ all \subseteq DOMAIN new
    <2>1. Len(log) \in Nat /\ DOMAIN log = 1 .. Len(log)
      BY LogTypes
    <2>2. new \in Seq(Attempts) /\ Len(new) = n
      BY AppendProperties
    <2>3. DOMAIN new = 1 .. n
      BY <2>2, LogTypes
    <2>4. QED
      BY <2>1, <2>2, <2>3
  <1>2. (\A i \in kind : new[i] = log[i]) /\ new[n].age = 0
    BY <1>1, AppendProperties
  <1>r. Cardinality(Reqs) \in Nat
    BY RequestsCount
  <1> HIDE DEF new
  <1>3. ASSUME NEW i \in kind
        PROVE  /\ Cardinality(Early(new, more, all, i, t)) < Cardinality(Reqs)
               /\ new[i].age < Due(all, i, t) =>
                    Cardinality(Early(new, more, all, i, t)) + f < Cardinality(Reqs)
    <2>0. i \in Nat /\ i < n /\ ~ (n <= i) /\ log[i].age \in Nat
      BY <1>1, LogTypes
    <2>1. BO!UpTo(all, i) = BO!UpTo(counted, i)
      BY <2>0 DEF BO!UpTo
    <2>2. Due(all, i, t) = Due(counted, i, t) /\ Due(counted, i, t) \in Nat
      BY <2>0, <2>1, RowFacts DEF Due
    <2>3. /\ IsFiniteSet(Early(log, kind, counted, i, t)) /\ Cardinality(Early(log, kind, counted, i, t)) \in Nat
          /\ Cardinality(Early(log, kind, counted, i, t)) < Cardinality(Reqs)
          /\ log[i].age < Due(counted, i, t) =>
               Cardinality(Early(log, kind, counted, i, t)) + (f + 1) < Cardinality(Reqs)
      BY <2>0, RowFacts DEF Slots
    <2>4. n \notin Early(log, kind, counted, i, t)
      BY <1>1 DEF Early
    <2>5. CASE log[i].age < Due(counted, i, t)
      <3>1. Early(new, more, all, i, t) \subseteq Early(log, kind, counted, i, t) \cup {n}
        BY <1>2, <2>2 DEF Early
      <3>2. /\ IsFiniteSet(Early(log, kind, counted, i, t) \cup {n})
            /\ Cardinality(Early(log, kind, counted, i, t) \cup {n}) = Cardinality(Early(log, kind, counted, i, t)) + 1
        BY <2>3, <2>4, FS_AddElement
      <3>3. /\ Cardinality(Early(new, more, all, i, t)) <= Cardinality(Early(log, kind, counted, i, t) \cup {n})
            /\ IsFiniteSet(Early(new, more, all, i, t))
        BY <3>1, <3>2, FS_Subset
      <3>5. Cardinality(Early(new, more, all, i, t)) \in Nat
        BY <3>3, FS_CardinalityType
      <3>4. QED
        BY <1>2, <2>2, <2>3, <2>5, <3>2, <3>3, <3>5, <1>r
    <2>6. CASE ~ (log[i].age < Due(counted, i, t))
      <3>1. Early(new, more, all, i, t) = Early(log, kind, counted, i, t)
        <4>1. n \notin Early(new, more, all, i, t)
          BY <1>2, <2>0, <2>2, <2>6 DEF Early
        <4>2. QED
          BY <1>2, <2>2, <4>1 DEF Early
      <3>2. QED
        BY <1>2, <2>2, <2>3, <2>6, <3>1
    <2>7. QED
      BY <2>5, <2>6
  <1>4. /\ Cardinality(Early(new, more, all, n, t)) = 0
    <2>1. Early(new, more, all, n, t) = {}
      BY <1>1 DEF Early
    <2>2. QED
      BY <2>1, FS_EmptySet
  <1>5. \A i \in more :
           /\ Cardinality(Early(new, more, all, i, t)) < Cardinality(Reqs)
           /\ new[i].age < Due(all, i, t) =>
                Cardinality(Early(new, more, all, i, t)) + f < Cardinality(Reqs)
    <2>1. ASSUME NEW i \in more
          PROVE  /\ Cardinality(Early(new, more, all, i, t)) < Cardinality(Reqs)
                 /\ new[i].age < Due(all, i, t) =>
                      Cardinality(Early(new, more, all, i, t)) + f < Cardinality(Reqs)
      <3>1. CASE i \in kind
        BY <3>1, <1>3
      <3>2. CASE i = n
        BY <3>2, <1>4, <1>r
      <3>3. QED
        BY <3>1, <3>2
    <2>2. QED
      BY <2>1
  <1>6. QED
    BY <1>5 DEF Slots, new

LEMMA ShiftCount ==
  ASSUME NEW S, S \subseteq Nat, IsFiniteSet(S), NEW T, T \subseteq Nat, NEW n \in Nat,
         \A x \in T : n + x \in S
  PROVE  IsFiniteSet(T) /\ Cardinality(T) <= Cardinality(S)
  <1> DEFINE f == [x \in T |-> n + x]
  <1>1. f \in Injection(T, S)
    <2>1. f \in [T -> S]
      OBVIOUS
    <2>2. ASSUME NEW x \in T, NEW y \in T, f[x] = f[y] PROVE x = y
      <3>1. x \in Nat /\ y \in Nat /\ n + x = n + y
        BY <2>2
      <3>2. QED
        BY <3>1
    <2> HIDE DEF f
    <2>3. QED
      BY <2>1, <2>2 DEF Injection, IsInjective
  <1> HIDE DEF f
  <1>2. QED
    BY <1>1, FS_Injection

LEMMA StillApart ==
  ASSUME NEW p \in Nat, NEW q \in Nat, NEW d \in Nat, NEW e \in Nat,
         NEW pp, NEW qq, pp = p + 1, qq = q + 1, pp - qq < d, d <= e
  PROVE  p - q < e
  OBVIOUS

\* A second passes: rows that leave the window take their part of the delays along, the others
\* are as far apart as before.
LEMMA SlotsShift ==
  ASSUME NEW log \in Seq(Attempts), NEW kind \in SUBSET DOMAIN log,
         NEW counted \in SUBSET DOMAIN log, NEW t \in Nat, NEW f \in Nat,
         Slots(log, f, kind, counted, t), NEW n \in Nat, NEW new \in Seq(Attempts),
         NEW left \in SUBSET DOMAIN new, NEW still \in SUBSET DOMAIN new,
         \A i \in left : n + i \in kind /\ new[i].age = log[n + i].age + 1,
         \A i \in still : n + i \in counted
  PROVE  Slots(new, f, left, still, t)
  <1> SUFFICES ASSUME NEW i \in left
               PROVE  /\ Cardinality(Early(new, left, still, i, t)) < Cardinality(Reqs)
                      /\ new[i].age < Due(still, i, t) =>
                           Cardinality(Early(new, left, still, i, t)) + f < Cardinality(Reqs)
    BY DEF Slots
  <1>1. /\ left \subseteq Nat /\ kind \subseteq Nat /\ still \subseteq Nat
        /\ counted \subseteq Nat /\ i \in Nat /\ n + i \in Nat /\ n + i \in kind
        /\ IsFiniteSet(kind) /\ IsFiniteSet(left)
    BY RowFacts
  <1>2. /\ IsFiniteSet(BO!UpTo(counted, n + i)) /\ Cardinality(BO!UpTo(counted, n + i)) \in Nat
        /\ Due(counted, n + i, t) \in Nat
        /\ IsFiniteSet(Early(log, kind, counted, n + i, t)) /\ Cardinality(Early(log, kind, counted, n + i, t)) \in Nat
    BY <1>1, RowFacts
  <1>3. /\ IsFiniteSet(BO!UpTo(still, i)) /\ Cardinality(BO!UpTo(still, i)) \in Nat
        /\ Due(still, i, t) \in Nat
        /\ IsFiniteSet(Early(new, left, still, i, t)) /\ Cardinality(Early(new, left, still, i, t)) \in Nat
    BY <1>1, RowFacts
  <1>4. Cardinality(BO!UpTo(still, i)) <= Cardinality(BO!UpTo(counted, n + i))
    <2>1. \A k \in BO!UpTo(still, i) : n + k \in BO!UpTo(counted, n + i)
      BY <1>1 DEF BO!UpTo
    <2>2. BO!UpTo(still, i) \subseteq Nat /\ BO!UpTo(counted, n + i) \subseteq Nat
      BY <1>1 DEF BO!UpTo
    <2>3. QED
      BY <1>2, <2>1, <2>2, ShiftCount
  <1>5. Due(still, i, t) <= Due(counted, n + i, t)
    BY <1>2, <1>3, <1>4, DelayGrows DEF Due
  <1>6. \A k \in left : log[n + k].age \in Nat /\ new[k].age = log[n + k].age + 1
    BY LogTypes
  <1>7. Cardinality(Early(new, left, still, i, t)) <= Cardinality(Early(log, kind, counted, n + i, t))
    <2>1. ASSUME NEW k \in Early(new, left, still, i, t) PROVE n + k \in Early(log, kind, counted, n + i, t)
      <3>1. k \in left /\ i < k /\ new[i].age - new[k].age < Due(still, i, t)
        BY DEF Early
      <3>2. /\ k \in Nat /\ n + k \in kind
            /\ log[n + k].age \in Nat /\ new[k].age = log[n + k].age + 1
            /\ log[n + i].age \in Nat /\ new[i].age = log[n + i].age + 1
        BY <3>1, <1>1, <1>6
      <3>5. log[n + i].age - log[n + k].age < Due(counted, n + i, t)
        BY <3>1, <3>2, <1>2, <1>3, <1>5, StillApart
      <3>3. n + i < n + k /\ log[n + i].age - log[n + k].age < Due(counted, n + i, t)
        BY <3>1, <3>2, <3>5, <1>1
      <3>4. QED
        BY <3>2, <3>3 DEF Early
    <2>2. Early(new, left, still, i, t) \subseteq Nat /\ Early(log, kind, counted, n + i, t) \subseteq Nat
      BY <1>1 DEF Early
    <2>3. QED
      BY <1>2, <2>1, <2>2, ShiftCount
  <1>8. /\ Cardinality(Early(log, kind, counted, n + i, t)) < Cardinality(Reqs)
        /\ log[n + i].age < Due(counted, n + i, t) =>
             Cardinality(Early(log, kind, counted, n + i, t)) + f < Cardinality(Reqs)
    BY <1>1 DEF Slots
  <1>9. new[i].age < Due(still, i, t) => log[n + i].age < Due(counted, n + i, t)
    BY <1>2, <1>3, <1>5, <1>6
  <1>10. QED
    BY <1>2, <1>3, <1>7, <1>8, <1>9, RequestsCount

\* What the slots are for.
LEMMA SlotsAreSpaced ==
  ASSUME NEW kind \in SUBSET DOMAIN attempts, NEW counted \in SUBSET DOMAIN attempts,
         NEW t \in Nat, NEW f \in Nat,
         attempts \in Seq(Attempts), Slots(attempts, f, kind, counted, t), Sorted(attempts)
  PROVE  BO!Spaced(kind, counted, t)
  <1> SUFFICES ASSUME NEW i \in kind, NEW j \in kind,
                      Cardinality(BO!Between(kind, i, j)) >= Cardinality(Reqs),
                      ~ (attempts[i].age - attempts[j].age >= Due(counted, i, t))
               PROVE  FALSE
    BY SameMembers DEF BO!Spaced, Due
  <1>1. i \in Nat /\ j \in Nat /\ \A k \in kind : attempts[k].age \in Nat
    BY RowFacts, LogTypes
  <1>2. /\ Due(counted, i, t) \in Nat
        /\ IsFiniteSet(Early(attempts, kind, counted, i, t)) /\ Cardinality(Early(attempts, kind, counted, i, t)) \in Nat
    BY <1>1, RowFacts
  <1>3. BO!Between(kind, i, j) \subseteq Early(attempts, kind, counted, i, t)
    <2> SUFFICES ASSUME NEW k \in kind, i < k, k <= j
                 PROVE  attempts[i].age - attempts[k].age < Due(counted, i, t)
      BY DEF BO!Between, Early
    <2>1. attempts[j].age <= attempts[k].age
      BY DEF Sorted
    <2>2. QED
      BY <1>1, <1>2, <2>1
  <1>4. /\ Cardinality(BO!Between(kind, i, j)) <= Cardinality(Early(attempts, kind, counted, i, t))
        /\ IsFiniteSet(BO!Between(kind, i, j))
    BY <1>2, <1>3, FS_Subset
  <1>5. Cardinality(BO!Between(kind, i, j)) \in Nat
    BY <1>4, FS_CardinalityType
  <1>6. Cardinality(Early(attempts, kind, counted, i, t)) < Cardinality(Reqs)
    BY DEF Slots
  <1>7. QED
    BY <1>2, <1>4, <1>5, <1>6, RequestsCount

\* Within a delay that is as long as the window everything is early.
LEMMA SlotsAreFew ==
  ASSUME NEW kind \in SUBSET DOMAIN attempts, NEW counted \in SUBSET DOMAIN attempts,
         NEW t \in Nat, NEW f \in Nat,
         attempts \in Seq(Attempts), Slots(attempts, f, kind, counted, t)
  PROVE  BO!Few(kind, counted, t)
  <1> SUFFICES ASSUME NEW n \in 1 .. Cap, BO!Delay(n, t) >= Window
               PROVE  Cardinality({i \in kind : Cardinality(BO!UpTo(counted, i)) >= n})
                        <= Cardinality(Reqs)
    BY SameMembers DEF BO!Few
  <1> DEFINE L == {i \in kind : Cardinality(BO!UpTo(counted, i)) >= n}
  <1>1. /\ n \in Nat /\ Window \in Nat /\ Cardinality(Reqs) \in Nat
        /\ kind \subseteq Nat /\ IsFiniteSet(kind)
    <2>1. kind \subseteq Nat /\ IsFiniteSet(kind)
      <3> HIDE DEF L
      <3>1. QED
        BY RowFacts
    <2>2. QED
      BY <2>1, WaitBounds, RequestsCount
  <1>2. IsFiniteSet(L) /\ L \subseteq Nat /\ L \subseteq kind
    <2>1. L \subseteq kind
      OBVIOUS
    <2>2. QED
      BY <1>1, <2>1, FS_Subset
  <1>3. CASE L = {}
    <2>1. Cardinality(L) = 0
      BY <1>3, FS_EmptySet
    <2>2. QED
      BY <2>1, <1>1
  <1>4. CASE L # {}
    <2>1. PICK i \in L : \A k \in L : i <= k
      <3> HIDE DEF L
      <3>1. QED
        BY <1>2, <1>4, LeastExists
    <2>2. i \in kind /\ i \in Nat /\ Cardinality(BO!UpTo(counted, i)) >= n
      BY <1>2, <2>1
    <2>3. /\ Cardinality(BO!UpTo(counted, i)) \in Nat /\ Due(counted, i, t) \in Nat
          /\ IsFiniteSet(Early(attempts, kind, counted, i, t))
          /\ Cardinality(Early(attempts, kind, counted, i, t)) \in Nat
          /\ Cardinality(Early(attempts, kind, counted, i, t)) < Cardinality(Reqs)
      BY <2>2, RowFacts DEF Slots
    <2>4. Due(counted, i, t) >= Window
      <3>1. BO!Delay(n, t) \in Nat /\ BO!Delay(n, t) <= Due(counted, i, t)
        BY <1>1, <2>2, <2>3, DelayGrows DEF Due
      <3>2. QED
        BY <3>1, <2>3, <1>1
    <2>5. L \ {i} \subseteq Early(attempts, kind, counted, i, t)
      <3> SUFFICES ASSUME NEW k \in L, k # i
                   PROVE  k \in kind /\ i < k /\ attempts[i].age - attempts[k].age < Due(counted, i, t)
        BY DEF Early
      <3>1. k \in Nat /\ k \in kind /\ i <= k
        BY <1>2, <2>1
      <3>2. attempts[i].age \in Nat /\ attempts[i].age < Window /\ attempts[k].age \in Nat
        BY <2>2, <3>1, LogTypes
      <3>3. QED
        BY <1>1, <2>2, <2>3, <2>4, <3>1, <3>2
    <2>6. Cardinality(L \ {i}) <= Cardinality(Early(attempts, kind, counted, i, t))
      BY <2>3, <2>5, FS_Subset
    <2>7. IsFiniteSet(L \ {i}) /\ Cardinality(L \ {i}) = Cardinality(L) - 1
      <3> HIDE DEF L
      <3>1. QED
        BY <1>2, <2>1, FS_RemoveElement
    <2>8. Cardinality(L) \in Nat
      BY <1>2, FS_CardinalityType
    <2>9. Cardinality(L) <= Cardinality(Reqs)
      <3> HIDE DEF L
      <3>1. QED
        BY <1>1, <2>3, <2>6, <2>7, <2>8
    <2>10. QED
      BY <2>9
  <1>5. QED
    BY <1>3, <1>4

\* Requests that are on their way with an account of A; those that both waits let through.
InFlight(A) == {r \in Reqs : trying[r] \cap A # {}}
Cleared(A)  == InFlight(A) \ halfway

WaitsInv ==
  /\ BO!TypeOK /\ Sorted(attempts)
  /\ \A a \in Accounts :
       Slots(attempts, Cardinality(Cleared({a})), BO!Consecutive(a), BO!Consecutive(a), Threshold)
  /\ Slots(attempts, Cardinality(InFlight(Emails)), BO!Passwords, BO!Failures, IpThreshold)

LEMMA WaitTypes ==
  ASSUME BO!TypeOK
  PROVE  /\ attempts \in Seq(Attempts) /\ Len(attempts) \in Nat /\ DOMAIN attempts = 1 .. Len(attempts)
         /\ trying \in [Reqs -> {{}} \cup {{a} : a \in Accounts}]
         /\ Threshold \in Nat /\ IpThreshold \in Nat
         /\ BO!Failures \subseteq DOMAIN attempts /\ \A a : BO!Consecutive(a) \subseteq DOMAIN attempts
         /\ BO!Passwords \subseteq BO!Failures
  <1>1. attempts \in Seq(Attempts)
    BY DEF BO!TypeOK, Attempts
  <1>2. QED
    BY <1>1, LogTypes, AccountAssumption DEF BO!TypeOK, BO!Failures, BO!Consecutive, BO!Passwords

LEMMA InFlightCount ==
  \A A : /\ IsFiniteSet(InFlight(A)) /\ Cardinality(InFlight(A)) \in Nat
         /\ IsFiniteSet(Cleared(A)) /\ Cardinality(Cleared(A)) \in Nat
  <1>1. \A A : InFlight(A) \subseteq Reqs /\ Cleared(A) \subseteq Reqs
    BY DEF InFlight, Cleared
  <1>2. QED
    BY <1>1, RequestsCount, FS_Subset, FS_CardinalityType

LEMMA WaitsInvInit == BO!Init => WaitsInv
  <1> SUFFICES ASSUME BO!Init PROVE WaitsInv
    OBVIOUS
  <1>1. BO!TypeOK
    BY WaitTypesInit
  <1>2. attempts = <<>> /\ DOMAIN attempts = {}
    BY DEF BO!Init
  <1>3. BO!Failures = {} /\ BO!Passwords = {} /\ \A a : BO!Consecutive(a) = {}
    BY <1>2 DEF BO!Failures, BO!Consecutive, BO!Passwords
  <1>4. QED
    BY <1>1, <1>2, <1>3 DEF WaitsInv, Sorted, Slots

LEMMA AddressKeepsSlots ==
  ASSUME WaitsInv, NEW r \in Reqs, NEW a \in Accounts, BO!AskAddress(r, a), BO!TypeOK'
  PROVE  WaitsInv'
  <1>t. BO!TypeOK
    BY DEF WaitsInv
  <1>1. /\ attempts' = attempts /\ BO!Failures' = BO!Failures /\ BO!Passwords' = BO!Passwords
        /\ \A c \in Accounts : BO!Consecutive(c)' = BO!Consecutive(c)
    BY DEF BO!AskAddress, BO!Failures, BO!Consecutive, BO!Passwords
  <1>2. Slots(attempts, Cardinality(InFlight(Emails)'), BO!Passwords, BO!Failures, IpThreshold)
    BY <1>t, WaitTypes, SlotsPassed, SameMembers DEF WaitsInv, BO!AskAddress, BO!Passes
  <1>3. \A c : Cleared({c})' = Cleared({c})
    BY <1>t, WaitTypes DEF BO!AskAddress, InFlight, Cleared
  <1>4. Sorted(attempts)
    BY DEF WaitsInv
  <1>5. QED
    BY <1>1, <1>2, <1>3, <1>4 DEF WaitsInv

LEMMA AccountKeepsSlots ==
  ASSUME WaitsInv, NEW r \in Reqs, NEW a \in Accounts, BO!AskAccount(r, a), BO!TypeOK'
  PROVE  WaitsInv'
  <1>t. BO!TypeOK
    BY DEF WaitsInv
  <1>1. /\ attempts' = attempts /\ BO!Failures' = BO!Failures /\ BO!Passwords' = BO!Passwords
        /\ \A c \in Accounts : BO!Consecutive(c)' = BO!Consecutive(c)
    BY DEF BO!AskAccount, BO!Failures, BO!Consecutive, BO!Passwords
  <1>2. InFlight(Emails)' = InFlight(Emails)
    <2>1. CASE a \in Emails
      BY <2>1, <1>t, WaitTypes DEF BO!AskAccount, InFlight
    <2>2. CASE a \notin Emails
      BY <2>2, <1>t, WaitTypes DEF BO!AskAccount, InFlight
    <2>3. QED
      BY <2>1, <2>2
  <1>3. ASSUME NEW c \in Accounts
        PROVE  Slots(attempts, Cardinality(Cleared({c})'), BO!Consecutive(c), BO!Consecutive(c), Threshold)
    <2>1. CASE c = a
      BY <2>1, <1>t, WaitTypes, SlotsPassed, SameMembers DEF WaitsInv, BO!AskAccount, BO!Passes
    <2>2. CASE c # a
      <3>1. trying[r] = {} \/ trying[r] = {a}
        BY <1>t, WaitTypes DEF BO!AskAccount
      <3>2. Cleared({c})' = Cleared({c})
        BY <2>2, <3>1, <1>t, WaitTypes DEF BO!AskAccount, InFlight, Cleared
      <3>3. QED
        BY <3>2 DEF WaitsInv
    <2>3. QED
      BY <2>1, <2>2
  <1>4. Sorted(attempts)
    BY DEF WaitsInv
  <1>5. QED
    BY <1>1, <1>2, <1>3, <1>4 DEF WaitsInv

LEMMA DropKeepsSlots ==
  ASSUME WaitsInv, NEW r \in Reqs, BO!Drop(r), BO!TypeOK'
  PROVE  WaitsInv'
  <1>t. /\ BO!TypeOK /\ attempts \in Seq(Attempts) /\ Threshold \in Nat /\ IpThreshold \in Nat
        /\ BO!Failures \subseteq DOMAIN attempts /\ BO!Passwords \subseteq DOMAIN attempts
        /\ \A c : BO!Consecutive(c) \subseteq DOMAIN attempts
    BY WaitTypes DEF WaitsInv
  <1>1. /\ attempts' = attempts /\ BO!Failures' = BO!Failures /\ BO!Passwords' = BO!Passwords
        /\ \A c \in Accounts : BO!Consecutive(c)' = BO!Consecutive(c)
    BY DEF BO!Drop, BO!Failures, BO!Consecutive, BO!Passwords
  <1>2. \A A : InFlight(A)' \subseteq InFlight(A) /\ Cleared(A)' \subseteq Cleared(A)
    BY <1>t, WaitTypes DEF BO!Drop, InFlight, Cleared
  <1>3. \A A : /\ Cardinality(InFlight(A)') <= Cardinality(InFlight(A))
               /\ Cardinality(InFlight(A)') \in Nat
               /\ Cardinality(Cleared(A)') <= Cardinality(Cleared(A))
               /\ Cardinality(Cleared(A)') \in Nat
    BY <1>2, InFlightCount, FS_Subset, FS_CardinalityType
  <1>4. Slots(attempts, Cardinality(InFlight(Emails)'), BO!Passwords, BO!Failures, IpThreshold)
    BY <1>t, <1>3, InFlightCount, SlotsFewer DEF WaitsInv
  <1>5. \A c \in Accounts :
          Slots(attempts, Cardinality(Cleared({c})'), BO!Consecutive(c), BO!Consecutive(c), Threshold)
    BY <1>t, <1>3, InFlightCount, SlotsFewer DEF WaitsInv
  <1>6. Sorted(attempts)
    BY DEF WaitsInv
  <1>7. QED
    BY <1>1, <1>4, <1>5, <1>6 DEF WaitsInv

\* A request that records is no longer in flight.
LEMMA Landed ==
  ASSUME NEW F \in SUBSET Reqs, NEW r \in F
  PROVE  /\ Cardinality(F) = Cardinality(F \ {r}) + 1
         /\ Cardinality(F \ {r}) < Cardinality(Reqs)
         /\ Cardinality(F \ {r}) \in Nat
  <1>1. /\ IsFiniteSet(F) /\ Cardinality(F) \in Nat /\ Cardinality(F) <= Cardinality(Reqs)
        /\ Cardinality(Reqs) \in Nat
    BY RequestsCount, FS_Subset, FS_CardinalityType
  <1>2. IsFiniteSet(F \ {r}) /\ Cardinality(F \ {r}) = Cardinality(F) - 1
    BY <1>1, FS_RemoveElement
  <1>3. Cardinality(F \ {r}) \in Nat
    BY <1>2, FS_CardinalityType
  <1>4. QED
    BY <1>1, <1>2, <1>3

LEMMA RecordKeepsSlots ==
  ASSUME WaitsInv, NEW r \in Reqs, NEW ok \in BOOLEAN, BO!Record(r, ok), BO!TypeOK'
  PROVE  WaitsInv'
  <1> DEFINE n == Len(attempts) + 1
  <1>t. /\ BO!TypeOK /\ Sorted(attempts)
        /\ attempts \in Seq(Attempts) /\ Len(attempts) \in Nat /\ DOMAIN attempts = 1 .. Len(attempts)
        /\ trying \in [Reqs -> {{}} \cup {{c} : c \in Accounts}]
        /\ Threshold \in Nat /\ IpThreshold \in Nat
        /\ BO!Failures \subseteq DOMAIN attempts /\ \A c : BO!Consecutive(c) \subseteq DOMAIN attempts
        /\ BO!Passwords \subseteq BO!Failures
    BY WaitTypes DEF WaitsInv
  <1>1. PICK a \in trying[r] : attempts' = Append(attempts, [who |-> a, ok |-> ok, age |-> 0])
    BY DEF BO!Record
  <1>2. /\ a \in Accounts /\ trying[r] = {a} /\ trying' = [trying EXCEPT ![r] = {}]
        /\ r \notin halfway /\ halfway' = halfway
    BY <1>t, <1>1 DEF BO!Record
  <1>f. /\ \A A : InFlight(A)' = InFlight(A) \ {r} /\ Cleared(A)' = Cleared(A) \ {r}
        /\ \A A : InFlight(A) \subseteq Reqs /\ Cleared(A) \subseteq Reqs
        /\ \A A : a \in A => r \in InFlight(A) /\ r \in Cleared(A)
        /\ \A A : a \notin A => r \notin InFlight(A) /\ r \notin Cleared(A)
    BY <1>t, <1>2 DEF InFlight, Cleared
  <1>3. PICK x \in Attempts : x = [who |-> a, ok |-> ok, age |-> 0]
    <2>1. 0 \in 0 .. Window - 1
      BY WaitBounds
    <2>2. [who |-> a, ok |-> ok, age |-> 0] \in Attempts
      BY <1>2, <2>1 DEF Attempts
    <2>3. QED
      BY <2>2
  <1>4. x.who = a /\ x.ok = ok /\ x.age = 0
    BY <1>3
  <1>5. /\ attempts' = Append(attempts, x) /\ attempts' \in Seq(Attempts)
        /\ DOMAIN attempts' = 1 .. n /\ n \in Nat
        /\ (\A i \in 1 .. Len(attempts) : attempts'[i] = attempts[i]) /\ attempts'[n] = x
    <2>1. attempts' = Append(attempts, x)
      BY <1>1, <1>3
    <2>2. /\ Append(attempts, x) \in Seq(Attempts) /\ Len(Append(attempts, x)) = n
          /\ \A i \in 1 .. Len(attempts) : Append(attempts, x)[i] = attempts[i]
          /\ Append(attempts, x)[n] = x
      BY <1>t, AppendProperties
    <2>3. DOMAIN Append(attempts, x) = 1 .. n
      BY <2>2, LogTypes
    <2>4. QED
      BY <1>t, <2>1, <2>2, <2>3
  <1>6. DOMAIN attempts' = DOMAIN attempts \cup {n} /\ \A i \in DOMAIN attempts : i < n
    BY <1>t, <1>5
  <1> HIDE DEF n
  <1>7. BO!Failures' = IF ok THEN BO!Failures ELSE BO!Failures \cup {n}
    BY <1>t, <1>4, <1>5, <1>6 DEF BO!Failures
  <1>p. BO!Passwords' = IF ok \/ a \notin Emails THEN BO!Passwords ELSE BO!Passwords \cup {n}
    BY <1>t, <1>4, <1>5, <1>6, <1>7 DEF BO!Passwords, BO!Failures
  <1>8. Sorted(attempts')
    <2> SUFFICES ASSUME NEW i \in DOMAIN attempts', NEW j \in DOMAIN attempts', i <= j
                 PROVE  attempts'[j].age <= attempts'[i].age
      BY DEF Sorted
    <2>1. attempts'[i].age \in Nat
      BY <1>5, LogTypes
    <2>2. CASE j = n
      BY <2>1, <2>2, <1>4, <1>5
    <2>3. CASE j # n
      <3>1. i \in DOMAIN attempts /\ j \in DOMAIN attempts
        BY <1>t, <1>5, <1>6, <2>3
      <3>2. QED
        BY <3>1, <1>t, <1>5 DEF Sorted
    <2>4. QED
      BY <2>2, <2>3
  <1>9. ASSUME NEW counted \in SUBSET DOMAIN attempts, NEW kind \in SUBSET counted, NEW t \in Nat,
               NEW F \in SUBSET Reqs, r \in F, Slots(attempts, Cardinality(F), kind, counted, t)
        PROVE  /\ Slots(attempts', Cardinality(F \ {r}), kind \cup {n}, counted \cup {n}, t)
               /\ Slots(attempts', Cardinality(F \ {r}), kind, counted, t)
    <2>1. PICK f \in Nat : f = Cardinality(F \ {r})
      BY <1>9, Landed
    <2>2. Slots(attempts, f + 1, kind, counted, t) /\ f < Cardinality(Reqs)
      <3>1. Cardinality(F) = f + 1 /\ f < Cardinality(Reqs)
        BY <1>9, <2>1, Landed
      <3>2. QED
        BY <1>9, <3>1
    <2>3. kind \subseteq DOMAIN attempts
      OBVIOUS
    <2>4. Slots(attempts', f, kind \cup {n}, counted \cup {n}, t)
      BY <1>t, <1>4, <1>5, <2>2, <2>3, SlotsAppend DEF n
    <2>5. Slots(attempts, f, kind, counted, t)
      BY <1>t, <2>2, <2>3, SlotsFewer
    <2>6. Slots(attempts', f, kind, counted, t)
      BY <1>t, <1>5, <2>3, <2>5, SlotsSame
    <2>7. QED
      BY <2>1, <2>4, <2>6
  <1>10. Slots(attempts', Cardinality(InFlight(Emails)'), BO!Passwords', BO!Failures', IpThreshold)
    <2>1. /\ BO!Passwords \subseteq DOMAIN attempts
          /\ Slots(attempts, Cardinality(InFlight(Emails)), BO!Passwords, BO!Failures, IpThreshold)
      BY <1>t DEF WaitsInv
    <2>2. CASE a \in Emails
      BY <2>1, <2>2, <1>t, <1>f, <1>7, <1>p, <1>9
    <2>3. CASE a \notin Emails
      <3>1. InFlight(Emails)' = InFlight(Emails) /\ BO!Passwords' = BO!Passwords
        BY <2>3, <1>f, <1>p
      <3>2. PICK more \in {BO!Failures, BO!Failures \cup {Len(attempts) + 1}} : BO!Failures' = more
        BY <1>7 DEF n
      <3>3. PICK f : f = Cardinality(InFlight(Emails))
        OBVIOUS
      <3>4. PICK kind \in SUBSET DOMAIN attempts : kind = BO!Passwords
        BY <2>1
      <3>5. Slots(attempts, f, kind, BO!Failures, IpThreshold)
        BY <2>1, <3>3, <3>4
      <3>6. Slots(Append(attempts, x), f, kind, more, IpThreshold)
        <4>1. PICK counted \in SUBSET DOMAIN attempts : counted = BO!Failures
          BY <1>t
        <4>2. /\ Slots(attempts, f, kind, counted, IpThreshold) /\ attempts \in Seq(Attempts)
              /\ IpThreshold \in Nat /\ more \in {counted, counted \cup {Len(attempts) + 1}}
          BY <3>5, <4>1, <1>t
        <4>3. /\ Slots(Append(attempts, x), f, kind, counted, IpThreshold)
              /\ Slots(Append(attempts, x), f, kind, counted \cup {Len(attempts) + 1}, IpThreshold)
          BY <4>2, SlotsSame
        <4>4. QED
          BY <4>2, <4>3
      <3>7. QED
        BY <3>1, <3>2, <3>3, <3>4, <3>6, <1>5
    <2>4. QED
      BY <2>2, <2>3
  <1>11. ASSUME NEW c \in Accounts
         PROVE  Slots(attempts', Cardinality(Cleared({c})'), BO!Consecutive(c)', BO!Consecutive(c)', Threshold)
    <2>1. CASE c # a
      <3>1. BO!Consecutive(c)' = BO!Consecutive(c)
        BY <2>1, <1>t, <1>4, <1>5, <1>6, <1>7 DEF BO!Consecutive, BO!Failures
      <3>2. Cleared({c})' = Cleared({c})
        BY <2>1, <1>f
      <3>3. Slots(attempts', Cardinality(Cleared({c})), BO!Consecutive(c), BO!Consecutive(c), Threshold)
        BY <1>t, <1>5, SlotsSame DEF WaitsInv
      <3>4. QED
        BY <3>1, <3>2, <3>3
    <2>2. CASE c = a /\ ok
      <3>1. BO!Consecutive(c)' = {}
        <4> SUFFICES ASSUME NEW i \in BO!Consecutive(c)' PROVE FALSE
          OBVIOUS
        <4>1. /\ i \in DOMAIN attempts' /\ ~ attempts'[i].ok
              /\ \A j \in DOMAIN attempts' : i < j /\ attempts'[j].who = c => ~ attempts'[j].ok
          BY DEF BO!Consecutive, BO!Failures
        <4>2. i # n /\ i < n
          BY <4>1, <2>2, <1>4, <1>5, <1>6
        <4>3. QED
          BY <4>1, <4>2, <2>2, <1>4, <1>5, <1>6
      <3>2. QED
        BY <3>1 DEF Slots
    <2>3. CASE c = a /\ ~ ok
      <3>1. BO!Consecutive(c)' = BO!Consecutive(c) \cup {n}
        <4>1. ASSUME NEW i \in DOMAIN attempts
              PROVE  i \in BO!Consecutive(c)' <=> i \in BO!Consecutive(c)
          BY <2>3, <1>t, <1>4, <1>5, <1>6 DEF BO!Consecutive, BO!Failures
        <4>2. n \in BO!Consecutive(c)'
          <5>1. \A j \in DOMAIN attempts' : ~ (n < j)
            BY <1>5, <1>6
          <5>2. QED
            BY <5>1, <2>3, <1>4, <1>5, <1>6 DEF BO!Consecutive, BO!Failures
        <4>3. BO!Consecutive(c)' \subseteq DOMAIN attempts'
          BY DEF BO!Consecutive, BO!Failures
        <4>4. QED
          BY <4>1, <4>2, <4>3, <1>t, <1>6
      <3>2. /\ Slots(attempts, Cardinality(Cleared({c})), BO!Consecutive(c), BO!Consecutive(c), Threshold)
            /\ r \in Cleared({c}) /\ Cleared({c})' = Cleared({c}) \ {r} /\ Cleared({c}) \subseteq Reqs
        BY <2>3, <1>f DEF WaitsInv
      <3>3. PICK F \in SUBSET Reqs : F = Cleared({c})
        BY <3>2
      <3>4. PICK kind \in SUBSET DOMAIN attempts : kind = BO!Consecutive(c)
        BY <1>t
      <3>5. Slots(attempts', Cardinality(F \ {r}), kind \cup {n}, kind \cup {n}, Threshold)
        <4>1. Slots(attempts, Cardinality(F), kind, kind, Threshold) /\ r \in F
          BY <3>2, <3>3, <3>4
        <4>2. QED
          BY <4>1, <1>t, <1>9
      <3>6. QED
        BY <3>1, <3>2, <3>3, <3>4, <3>5
    <2>4. QED
      BY <2>1, <2>2, <2>3
  <1>12. QED
    BY <1>8, <1>10, <1>11 DEF WaitsInv

LEMMA TickKeepsSlots ==
  ASSUME WaitsInv, BO!Tick, BO!TypeOK'
  PROVE  WaitsInv'
  <1>t. /\ BO!TypeOK /\ Sorted(attempts)
        /\ attempts \in Seq(Attempts) /\ Len(attempts) \in Nat /\ DOMAIN attempts = 1 .. Len(attempts)
        /\ Threshold \in Nat /\ IpThreshold \in Nat
        /\ BO!Failures \subseteq DOMAIN attempts /\ \A c : BO!Consecutive(c) \subseteq DOMAIN attempts
        /\ BO!Passwords \subseteq DOMAIN attempts
    BY WaitTypes DEF WaitsInv
  <1>u. /\ attempts' \in Seq(Attempts)
        /\ BO!Failures' \subseteq DOMAIN attempts' /\ \A c : BO!Consecutive(c)' \subseteq DOMAIN attempts'
        /\ BO!Passwords' \subseteq DOMAIN attempts'
    BY DEF BO!TypeOK, Attempts, BO!Failures, BO!Consecutive, BO!Passwords
  <1>1. PICK n \in 0 .. Len(attempts) :
           attempts' = [i \in 1 .. Len(attempts) - n |-> [attempts[n + i] EXCEPT !.age = @ + 1]]
    BY DEF BO!Tick
  <1>2. PICK m \in Nat : m = Len(attempts) - n
    BY <1>t, <1>1
  <1>3. DOMAIN attempts' = 1 .. m /\ n \in Nat
    BY <1>1, <1>2
  <1>4. ASSUME NEW i \in 1 .. m
        PROVE  /\ n + i \in DOMAIN attempts
               /\ attempts'[i].age = attempts[n + i].age + 1
               /\ attempts'[i].who = attempts[n + i].who /\ attempts'[i].ok = attempts[n + i].ok
    <2>1. n + i \in DOMAIN attempts
      BY <1>t, <1>2, <1>3
    <2>2. PICK x \in Attempts : x = attempts[n + i]
      BY <1>t, <2>1, LogTypes
    <2>3. attempts'[i] = [x EXCEPT !.age = @ + 1]
      BY <1>1, <1>2, <2>2
    <2>4. QED
      BY <2>1, <2>2, <2>3 DEF Attempts
  <1>5. \A j \in DOMAIN attempts : j > n => \E i \in 1 .. m : j = n + i
    <2> SUFFICES ASSUME NEW j \in DOMAIN attempts, j > n PROVE j - n \in 1 .. m /\ j = n + (j - n)
      OBVIOUS
    <2>1. QED
      BY <1>t, <1>1, <1>2
  <1>6. \A i \in BO!Failures' : n + i \in BO!Failures
    BY <1>3, <1>4 DEF BO!Failures
  <1>p. \A i \in BO!Passwords' : n + i \in BO!Passwords
    BY <1>3, <1>4, <1>6 DEF BO!Passwords, BO!Failures
  <1>7. ASSUME NEW c, NEW i \in BO!Consecutive(c)' PROVE n + i \in BO!Consecutive(c)
    <2>1. /\ i \in 1 .. m /\ i \in BO!Failures' /\ attempts'[i].who = c
          /\ \A j \in 1 .. m : i < j /\ attempts'[j].who = c => ~ attempts'[j].ok
      BY <1>3 DEF BO!Consecutive, BO!Failures
    <2>2. n + i \in BO!Failures /\ attempts[n + i].who = c
      BY <1>4, <1>6, <2>1
    <2>3. ASSUME NEW j \in DOMAIN attempts, n + i < j, attempts[j].who = c PROVE ~ attempts[j].ok
      <3>1. j > n
        BY <1>3, <1>t, <2>1, <2>3
      <3>2. PICK k \in 1 .. m : j = n + k
        BY <1>5, <3>1
      <3>3. i < k /\ attempts'[k].who = c /\ attempts'[k].ok = attempts[j].ok
        BY <1>3, <1>4, <2>1, <2>3, <3>2
      <3>4. QED
        BY <2>1, <3>3
    <2>4. QED
      BY <2>2, <2>3 DEF BO!Consecutive
  <1>8. Sorted(attempts')
    <2> SUFFICES ASSUME NEW i \in 1 .. m, NEW j \in 1 .. m, i <= j
                 PROVE  attempts'[j].age <= attempts'[i].age
      BY <1>3 DEF Sorted
    <2>1. /\ n + i \in DOMAIN attempts /\ n + j \in DOMAIN attempts /\ n + i <= n + j
          /\ attempts'[i].age = attempts[n + i].age + 1 /\ attempts'[j].age = attempts[n + j].age + 1
      BY <1>3, <1>4
    <2>2. attempts[n + j].age <= attempts[n + i].age
      BY <1>t, <2>1 DEF Sorted
    <2>3. attempts[n + j].age \in Nat /\ attempts[n + i].age \in Nat
      BY <1>t, <2>1, LogTypes
    <2>4. QED
      BY <2>1, <2>2, <2>3
  <1>9. ASSUME NEW kind \in SUBSET DOMAIN attempts, NEW left \in SUBSET DOMAIN attempts',
               NEW counted \in SUBSET DOMAIN attempts, NEW still \in SUBSET DOMAIN attempts',
               NEW t \in Nat, NEW f \in Nat, Slots(attempts, f, kind, counted, t),
               \A i \in left : n + i \in kind, \A i \in still : n + i \in counted
        PROVE  Slots(attempts', f, left, still, t)
    <2>1. \A i \in left : n + i \in kind /\ attempts'[i].age = attempts[n + i].age + 1
      BY <1>3, <1>4, <1>9
    <2>2. QED
      BY <1>t, <1>u, <1>3, <1>9, <2>1, SlotsShift
  <1>f. \A A : InFlight(A)' = InFlight(A) /\ Cleared(A)' = Cleared(A)
    BY DEF BO!Tick, InFlight, Cleared
  <1>10. Slots(attempts', Cardinality(InFlight(Emails)'), BO!Passwords', BO!Failures', IpThreshold)
    <2>1. Slots(attempts, Cardinality(InFlight(Emails)), BO!Passwords, BO!Failures, IpThreshold)
      BY DEF WaitsInv
    <2>2. Slots(attempts', Cardinality(InFlight(Emails)), BO!Passwords', BO!Failures', IpThreshold)
      BY <2>1, <1>t, <1>u, <1>6, <1>p, <1>9, InFlightCount
    <2>3. QED
      BY <2>2, <1>f
  <1>11. ASSUME NEW c \in Accounts
         PROVE  Slots(attempts', Cardinality(Cleared({c})'), BO!Consecutive(c)', BO!Consecutive(c)', Threshold)
    <2>1. Slots(attempts, Cardinality(Cleared({c})), BO!Consecutive(c), BO!Consecutive(c), Threshold)
      BY DEF WaitsInv
    <2>2. Slots(attempts', Cardinality(Cleared({c})), BO!Consecutive(c)', BO!Consecutive(c)', Threshold)
      BY <2>1, <1>t, <1>u, <1>7, <1>9, InFlightCount
    <2>3. QED
      BY <2>2, <1>f
  <1>12. QED
    BY <1>8, <1>10, <1>11 DEF WaitsInv

LEMMA WaitsAreSound == WaitsInv => BO!GuessesBounded
  <1> SUFFICES ASSUME WaitsInv PROVE BO!GuessesBounded
    OBVIOUS
  <1>t. /\ BO!TypeOK /\ Sorted(attempts) /\ attempts \in Seq(Attempts)
        /\ Threshold \in Nat /\ IpThreshold \in Nat
        /\ BO!Failures \subseteq DOMAIN attempts /\ \A c : BO!Consecutive(c) \subseteq DOMAIN attempts
        /\ BO!Passwords \subseteq DOMAIN attempts
    BY WaitTypes DEF WaitsInv
  <1>1. /\ BO!Spaced(BO!Passwords, BO!Failures, IpThreshold)
        /\ BO!Few(BO!Passwords, BO!Failures, IpThreshold)
    BY <1>t, InFlightCount, SlotsAreSpaced, SlotsAreFew DEF WaitsInv
  <1>2. ASSUME NEW a \in Accounts
        PROVE  /\ BO!Spaced(BO!Consecutive(a), BO!Consecutive(a), Threshold)
               /\ BO!Few(BO!Consecutive(a), BO!Consecutive(a), Threshold)
    BY <1>t, InFlightCount, SlotsAreSpaced, SlotsAreFew DEF WaitsInv
  <1>3. QED
    BY <1>1, <1>2 DEF BO!GuessesBounded

LEMMA WaitsInvStep == WaitsInv /\ BO!Next => WaitsInv'
  <1> SUFFICES ASSUME WaitsInv, BO!Next PROVE WaitsInv'
    OBVIOUS
  <1>1. BO!TypeOK'
    BY WaitTypesStep DEF WaitsInv
  <1>2. QED
    BY <1>1, AddressKeepsSlots, AccountKeepsSlots, DropKeepsSlots, RecordKeepsSlots, TickKeepsSlots
       DEF BO!Next

LEMMA WaitsInvKept == WaitsInv /\ UNCHANGED waitVars => WaitsInv'
  <1> SUFFICES ASSUME WaitsInv, UNCHANGED waitVars PROVE WaitsInv'
    OBVIOUS
  <1>1. attempts' = attempts /\ trying' = trying /\ halfway' = halfway
    BY DEF waitVars
  <1>2. BO!TypeOK' /\ Sorted(attempts')
    BY <1>1 DEF WaitsInv, BO!TypeOK
  <1>3. /\ BO!Failures' = BO!Failures /\ \A a \in Accounts : BO!Consecutive(a)' = BO!Consecutive(a)
        /\ BO!Passwords' = BO!Passwords
        /\ \A A : InFlight(A)' = InFlight(A) /\ Cleared(A)' = Cleared(A)
    BY <1>1 DEF BO!Failures, BO!Consecutive, BO!Passwords, InFlight, Cleared
  <1>4. QED
    BY <1>1, <1>2, <1>3 DEF WaitsInv
-----------------------------------------------------------------------------
(* The portal. *)

Pages    == {"closed", "app", "leaving", "away", "callback"}
Stores   == [at: {None} \cup [of: PO!Logins, fresh: BOOLEAN],
             rt: {None} \cup [of: PO!Logins, gen: PO!Gens],
             state: {None} \cup PO!Logins, used: {None} \cup PO!Logins]
Asked    == [kind: {"code", "refresh"}, of: PO!Logins, gen: PO!Gens, reply: {"none", "bad", "ok"}]
Lineages == [gen: PO!Gens, dead: BOOLEAN, revoked: BOOLEAN]
Calls    == [PO!Logins -> 0 .. MaxCalls]
PortalTypes ==
  /\ page \in [Tabs -> Pages] /\ store \in [Tabs -> Stores]
  /\ url \in [Tabs -> {None} \cup PO!Logins] /\ calls \in [Tabs -> Calls]
  /\ asked \in [Tabs -> SUBSET Asked]
  /\ logins \in 0 .. MaxLogins /\ lineage \in [PO!Logins -> Lineages]
  /\ forked \subseteq PO!Logins /\ wiped \subseteq Tabs /\ needless \in BOOLEAN

\* The page has gone, or goes, to the provider.
OnItsWay(i) == page[i] \in {"leaving", "away", "callback"}
\* What a tab asks for is what its page needs, one answer at a time.
OneAsked(i) ==
  /\ \A e, f \in asked[i] : e = f
  /\ page[i] = "away" => asked[i] = {}
  /\ page[i] \in {"away", "callback"} => \A g \in PO!Logins : calls[i][g] = 0
  /\ \A e \in asked[i] :
       /\ e.kind = "code" <=> page[i] = "callback"
       /\ page[i] = "callback" => e.of = url[i] /\ e.gen = 1 /\ store[i].used = url[i]
       /\ e.of \in 1 .. logins /\ e.gen \in 1 .. MaxRefreshes + 1
\* A tab on its way knows the login it went for, unless that was wiped.
StateKept(i) ==
  /\ OnItsWay(i) => url[i] \in 1 .. logins /\ (i \in wiped \/ store[i].state = url[i])
  /\ store[i].at # None => store[i].rt # None
  /\ store[i].rt # None => store[i].rt.of \in 1 .. logins /\ store[i].rt.gen >= 1
TabSound(i) == OneAsked(i) /\ StateKept(i)

\* A lineage of which every token is in one place, and which is alive.
Whole(g) == g \notin forked /\ ~lineage[g].dead
\* The token a tab holds, asks with or was just given is the newest of its lineage.
CodeNewest(i) ==
  page[i] = "callback" =>
    /\ lineage[url[i]].gen >= 1
    /\ store[i].used # url[i] /\ Whole(url[i]) => lineage[url[i]].gen = 1
HeldNewest(i) ==
  store[i].rt # None =>
    /\ lineage[store[i].rt.of].gen >= 1
    /\ Whole(store[i].rt.of) /\ (\A e \in asked[i] : e.of = store[i].rt.of => e.reply # "ok")
         => store[i].rt.gen = lineage[store[i].rt.of].gen
AskedNewest(i) ==
  \A e \in asked[i] :
    /\ lineage[e.of].gen >= 1
    /\ Whole(e.of) /\ e.reply = "none" => e.gen = lineage[e.of].gen
    /\ Whole(e.of) /\ e.reply = "ok" => e.gen + 1 = lineage[e.of].gen
Newest(i) == CodeNewest(i) /\ HeldNewest(i) /\ AskedNewest(i)

\* Only one tab has anything of a lineage that is not forked.
Holds(i, g) ==
  \/ store[i].rt # None /\ store[i].rt.of = g
  \/ \E e \in asked[i] : e.of = g
  \/ OnItsWay(i) /\ url[i] = g
OneHolder ==
  \A g \in PO!Logins \ forked : \A i, j \in Tabs : Holds(i, g) /\ Holds(j, g) => i = j

PortalInv ==
  /\ PortalTypes /\ (\A i \in Tabs : TabSound(i) /\ Newest(i)) /\ OneHolder /\ ~needless

LEMMA PortalBounds ==
  /\ MaxLogins \in Nat /\ MaxRefreshes \in Nat /\ MaxCalls \in Nat
  /\ PO!Logins = 1 .. MaxLogins /\ PO!Gens = 0 .. MaxRefreshes + 2
  /\ None \notin Nat /\ None \notin PO!Logins /\ None \notin [of: PO!Logins, gen: PO!Gens]
  /\ None \notin [of: PO!Logins, fresh: BOOLEAN]
  BY AccountAssumption DEF PO!Logins, PO!Gens

LEMMA BlankIs ==
  /\ PO!Blank \in Stores /\ PO!Blank.at = None /\ PO!Blank.rt = None
  /\ PO!Blank.state = None /\ PO!Blank.used = None
  BY DEF PO!Blank, Stores

LEMMA FreshIs == PO!Fresh \in Lineages /\ PO!Fresh.gen = 0
  BY PortalBounds DEF PO!Fresh, Lineages

LEMMA PortalInvInit == PO!Init => PortalInv
  <1> SUFFICES ASSUME PO!Init PROVE PortalInv
    OBVIOUS
  <1>1. PortalTypes
    <2>1. 0 \in 0 .. MaxLogins /\ 0 \in 0 .. MaxCalls
      BY PortalBounds
    <2>2. calls \in [Tabs -> Calls] /\ asked \in [Tabs -> SUBSET Asked]
      BY <2>1 DEF PO!Init, Calls
    <2>3. page \in [Tabs -> Pages] /\ store \in [Tabs -> Stores]
      BY BlankIs DEF PO!Init, Pages
    <2>4. url \in [Tabs -> {None} \cup PO!Logins] /\ lineage \in [PO!Logins -> Lineages]
      BY FreshIs DEF PO!Init
    <2>5. QED
      BY <2>1, <2>2, <2>3, <2>4 DEF PO!Init, PortalTypes
  <1>2. \A i \in Tabs : page[i] = "closed" /\ store[i] = PO!Blank /\ asked[i] = {} /\ ~needless
    BY DEF PO!Init
  <1>3. ASSUME NEW i \in Tabs PROVE TabSound(i) /\ Newest(i) /\ \A g : ~Holds(i, g)
    BY <1>2, BlankIs DEF TabSound, OneAsked, StateKept, OnItsWay, Newest, CodeNewest,
       HeldNewest, AskedNewest, Holds
  <1>4. QED
    BY <1>1, <1>2, <1>3 DEF PortalInv, OneHolder, PO!Init

LEMMA PortalTyped == PortalInv => PO!TypeOK
  BY DEF PortalInv, PortalTypes, PO!TypeOK, Pages, Stores, Asked, Lineages, Calls

\* A lineage loses its life, its revoked mark comes, no token.
LineageKept ==
  \A g \in PO!Logins : lineage'[g].gen = lineage[g].gen /\ (lineage[g].dead => lineage'[g].dead)
TabKept(j) ==
  /\ page'[j] = page[j] /\ store'[j] = store[j] /\ url'[j] = url[j] /\ calls'[j] = calls[j]
  /\ asked'[j] = asked[j] /\ (j \in wiped => j \in wiped')

LEMMA KeptTab ==
  ASSUME PortalInv, NEW j \in Tabs, TabKept(j), LineageKept, forked \subseteq forked',
         logins \in Nat, logins' \in Nat, logins <= logins'
  PROVE  TabSound(j)' /\ Newest(j)' /\ \A g : Holds(j, g)' <=> Holds(j, g)
  <1>1. TabSound(j) /\ Newest(j) /\ PortalTypes
    BY DEF PortalInv
  <1>2. 1 .. logins \subseteq 1 .. logins' /\ 1 .. logins \subseteq PO!Logins
    BY <1>1, PortalBounds DEF PortalTypes
  <1>3. TabSound(j)'
    BY <1>1, <1>2 DEF TabKept, TabSound, OneAsked, StateKept, OnItsWay
  <1>4. \A g \in PO!Logins : Whole(g)' => Whole(g)
    BY DEF Whole, LineageKept
  <1>5. CodeNewest(j)'
    BY <1>1, <1>2, <1>4 DEF TabKept, Newest, CodeNewest, LineageKept, TabSound, StateKept, OnItsWay
  <1>6. HeldNewest(j)'
    BY <1>1, <1>2, <1>4 DEF TabKept, Newest, HeldNewest, LineageKept, TabSound, StateKept
  <1>7. AskedNewest(j)'
    BY <1>1, <1>2, <1>4 DEF TabKept, Newest, AskedNewest, LineageKept, TabSound, OneAsked
  <1>8. \A g : Holds(j, g)' <=> Holds(j, g)
    BY DEF TabKept, Holds, OnItsWay
  <1>9. QED
    BY <1>3, <1>5, <1>6, <1>7, <1>8 DEF Newest

\* What a tab has anything of is a login that was begun.
LEMMA HeldBegan ==
  ASSUME PortalInv, NEW i \in Tabs, NEW g, Holds(i, g)
  PROVE  g \in 1 .. logins
  BY DEF PortalInv, TabSound, OneAsked, StateKept, Holds

\* A step of one tab that makes no token.
LEMMA TabStep ==
  ASSUME PortalInv, PortalTypes', NEW i \in Tabs,
         \A j \in Tabs : j # i => TabKept(j),
         LineageKept, forked \subseteq forked', logins <= logins',
         TabSound(i)', Newest(i)', ~needless',
         \A g : Holds(i, g)' => Holds(i, g) \/ g \notin 1 .. logins \/ g \in forked'
  PROVE  PortalInv'
  <1>1. logins \in Nat /\ logins' \in Nat
    BY PortalBounds DEF PortalInv, PortalTypes
  <1>2. ASSUME NEW j \in Tabs, j # i
        PROVE  TabSound(j)' /\ Newest(j)' /\ \A g : Holds(j, g)' <=> Holds(j, g)
    BY <1>1, <1>2, KeptTab
  <1>3. ASSUME NEW g \in PO!Logins \ forked', NEW j \in Tabs, NEW k \in Tabs, Holds(j, g)', Holds(k, g)'
        PROVE  j = k
    <2>1. ASSUME NEW x \in Tabs, Holds(x, g)', x # i PROVE Holds(x, g) /\ g \in 1 .. logins
      BY <2>1, <1>2, HeldBegan
    <2>2. ASSUME Holds(i, g)', g \in 1 .. logins PROVE Holds(i, g)
      BY <2>2, <1>3
    <2>3. QED
      BY <1>3, <2>1, <2>2 DEF PortalInv, OneHolder
  <1>4. OneHolder'
    BY <1>3 DEF OneHolder
  <1>5. QED
    BY <1>2, <1>4 DEF PortalInv
\* What login() leaves behind, whether it goes, was going or may go no more.
Left(i, kept) ==
  /\ page' \in [Tabs -> Pages] /\ store' \in [Tabs -> Stores]
  /\ url' \in [Tabs -> {None} \cup PO!Logins]
  /\ logins' \in 0 .. MaxLogins /\ logins <= logins' /\ wiped' \subseteq Tabs
  /\ \A j \in Tabs : j # i => /\ page'[j] = page[j] /\ store'[j] = store[j] /\ url'[j] = url[j]
                              /\ j \in wiped => j \in wiped'
  /\ \/ page'[i] = "closed" /\ store'[i] = PO!Blank
     \/ /\ page'[i] = "leaving" /\ url'[i] = logins + 1 /\ logins' = logins + 1
        /\ store'[i].state = logins + 1 /\ store'[i].at = kept.at /\ store'[i].rt = kept.rt
     \/ /\ page'[i] = "leaving" /\ page[i] = "leaving" /\ url'[i] = url[i]
        /\ store'[i] = PO!Blank /\ i \in wiped'

LEMMA GoLeft ==
  ASSUME PortalTypes, NEW i \in Tabs, NEW kept \in Stores, PO!Go(i, kept)
  PROVE  Left(i, kept)
  <1>t. /\ page \in [Tabs -> Pages] /\ store \in [Tabs -> Stores] /\ wiped \subseteq Tabs
        /\ url \in [Tabs -> {None} \cup PO!Logins] /\ logins \in 0 .. MaxLogins
    BY DEF PortalTypes
  <1>1. CASE logins = MaxLogins
    <2>1. /\ page' = [page EXCEPT ![i] = "closed"] /\ store' = [store EXCEPT ![i] = PO!Blank]
          /\ wiped' = wiped \ {i} /\ url' = url /\ logins' = logins
      BY <1>1 DEF PO!Go
    <2>2. logins <= logins'
      BY <1>t, <2>1, PortalBounds
    <2>3. QED
      BY <1>t, <2>1, <2>2, BlankIs DEF Left, Pages
  <1>2. CASE logins # MaxLogins
    <2> DEFINE s == [kept EXCEPT !.state = logins + 1]
    <2>1. /\ page' = [page EXCEPT ![i] = "leaving"] /\ store' = [store EXCEPT ![i] = s]
          /\ url' = [url EXCEPT ![i] = logins + 1] /\ wiped' = wiped \ {i} /\ logins' = logins + 1
      BY <1>2 DEF PO!Go
    <2>2. logins + 1 \in 0 .. MaxLogins /\ logins <= logins + 1 /\ logins + 1 \in PO!Logins
      BY <1>t, <1>2, PortalBounds
    <2>3. s \in Stores /\ s.state = logins + 1 /\ s.at = kept.at /\ s.rt = kept.rt
      BY <2>2 DEF Stores
    <2> HIDE DEF s
    <2>4. QED
      BY <1>t, <2>1, <2>2, <2>3 DEF Left, Pages
  <1>3. QED
    BY <1>1, <1>2

LEMMA ClearLeft ==
  ASSUME PortalTypes, NEW i \in Tabs, PO!ClearAndLogin(i)
  PROVE  Left(i, PO!Blank)
  <1>t. /\ page \in [Tabs -> Pages] /\ store \in [Tabs -> Stores] /\ wiped \subseteq Tabs
        /\ url \in [Tabs -> {None} \cup PO!Logins] /\ logins \in 0 .. MaxLogins
    BY DEF PortalTypes
  <1>1. CASE page[i] = "leaving"
    <2>1. /\ store' = [store EXCEPT ![i] = PO!Blank] /\ wiped' = wiped \cup {i}
          /\ page' = page /\ url' = url /\ logins' = logins
      BY <1>1 DEF PO!ClearAndLogin
    <2>2. logins <= logins'
      BY <1>t, <2>1, PortalBounds
    <2>3. QED
      BY <1>t, <1>1, <2>1, <2>2, BlankIs DEF Left, Pages
  <1>2. CASE page[i] # "leaving"
    BY <1>2, GoLeft, BlankIs DEF PO!ClearAndLogin
  <1>3. QED
    BY <1>1, <1>2

\* A tab that goes to log in keeps what it asked for, or it is forked, or its
\* tokens are gone.
LEMMA LeftSound ==
  ASSUME PortalInv, NEW i \in Tabs, NEW kept \in {PO!Blank, store[i]}, Left(i, kept),
         NEW A \in SUBSET asked[i], asked' = [asked EXCEPT ![i] = A],
         page[i] = "callback" => A = {},
         calls' \in [Tabs -> Calls], \A j \in Tabs : j # i => calls'[j] = calls[j],
         lineage' \in [PO!Logins -> Lineages], LineageKept,
         forked' \subseteq PO!Logins, forked \subseteq forked',
         needless' \in BOOLEAN, ~needless',
         kept.rt # None => \A e \in asked[i] \ A : e.of \in forked'
  PROVE  PortalInv'
  <1>t. PortalTypes /\ TabSound(i) /\ Newest(i)
    BY DEF PortalInv
  <1>m. asked \in [Tabs -> SUBSET Asked] /\ asked'[i] = A /\ \A j \in Tabs : j # i => asked'[j] = asked[j]
    BY <1>t DEF PortalTypes
  <1>p. PortalTypes'
    <2>1. asked' \in [Tabs -> SUBSET Asked]
      BY <1>m
    <2>2. QED
      BY <2>1 DEF Left, PortalTypes
  <1>l. logins \in Nat /\ logins' \in Nat /\ 1 .. logins \subseteq 1 .. logins'
    BY <1>t, PortalBounds DEF PortalTypes, Left
  <1>1. \A j \in Tabs : j # i => TabKept(j)
    BY <1>m DEF Left, TabKept
  <1>2. store'[i].rt = kept.rt \/ store'[i].rt = None
    BY BlankIs DEF Left
  <1>3. store'[i].at = kept.at \/ store'[i].at = None
    BY BlankIs DEF Left
  <1>k. store'[i].rt # None => store'[i].rt = store[i].rt /\ kept.rt # None
    BY <1>2, BlankIs
  <1>4. page'[i] \in {"closed", "leaving"}
    BY DEF Left
  <1>5. OneAsked(i)'
    BY <1>t, <1>m, <1>l, <1>4 DEF TabSound, OneAsked
  <1>6. StateKept(i)'
    <2>1. OnItsWay(i)' => url'[i] \in 1 .. logins' /\ (i \in wiped' \/ store'[i].state = url'[i])
      <3>1. logins + 1 \in 1 .. (logins + 1)
        BY <1>l
      <3>2. page[i] = "leaving" => url[i] \in 1 .. logins
        BY <1>t DEF TabSound, StateKept, OnItsWay
      <3>3. QED
        BY <1>l, <3>1, <3>2 DEF Left, OnItsWay
    <2>2. store'[i].at # None => store'[i].rt # None
      <3>1. \/ store'[i] = PO!Blank
            \/ store'[i].at = kept.at /\ store'[i].rt = kept.rt
        BY DEF Left
      <3>2. QED
        BY <3>1, <1>t, BlankIs DEF TabSound, StateKept
    <2>3. QED
      BY <1>t, <1>l, <1>k, <2>1, <2>2 DEF StateKept, TabSound
  <1>7. \A g \in PO!Logins : Whole(g)' => Whole(g)
    BY DEF Whole, LineageKept
  <1>o. /\ store[i].rt # None => store[i].rt.of \in PO!Logins
        /\ \A e \in asked[i] : e.of \in PO!Logins
    BY <1>t, PortalBounds DEF PortalTypes, Stores, Asked
  <1>8. HeldNewest(i)'
    <2> SUFFICES ASSUME store'[i].rt # None PROVE HeldNewest(i)'
      BY DEF HeldNewest
    <2>1. store'[i].rt = store[i].rt /\ kept.rt # None /\ HeldNewest(i)
      BY <1>k, <1>t DEF Newest
    <2>2. PICK g \in PO!Logins : g = store[i].rt.of
      BY <1>o, <2>1
    <2>3. lineage'[g].gen = lineage[g].gen /\ lineage[g].gen >= 1
      BY <2>1, <2>2 DEF LineageKept, HeldNewest
    <2>4. ASSUME Whole(g)', \A e \in A : e.of = g => e.reply # "ok"
          PROVE  store[i].rt.gen = lineage[g].gen
      <3>1. Whole(g) /\ \A e \in asked[i] : e.of = g => e \in A
        BY <1>7, <2>1, <2>4 DEF Whole
      <3>2. QED
        BY <2>1, <2>2, <2>4, <3>1 DEF HeldNewest
    <2>5. QED
      BY <1>m, <2>1, <2>2, <2>3, <2>4 DEF HeldNewest
  <1>9. AskedNewest(i)'
    BY <1>t, <1>m, <1>7, <1>o DEF Newest, AskedNewest, LineageKept
  <1>10. Newest(i)'
    BY <1>4, <1>8, <1>9 DEF Newest, CodeNewest
  <1>11. ASSUME NEW g, Holds(i, g)' PROVE Holds(i, g) \/ g \notin 1 .. logins
    <2>1. CASE store'[i].rt # None /\ store'[i].rt.of = g
      BY <1>k, <2>1 DEF Holds
    <2>2. CASE \E e \in asked'[i] : e.of = g
      BY <1>m, <2>2 DEF Holds
    <2>3. CASE OnItsWay(i)' /\ url'[i] = g
      <3>1. logins + 1 \notin 1 .. logins
        BY <1>l
      <3>2. QED
        BY <2>3, <3>1 DEF Left, OnItsWay, Holds
    <2>4. QED
      BY <1>11, <2>1, <2>2, <2>3 DEF Holds
  <1>12. logins <= logins'
    BY DEF Left
  <1>13. TabSound(i)'
    BY <1>5, <1>6 DEF TabSound
  <1>14. QED
    BY <1>p, <1>1, <1>10, <1>11, <1>12, <1>13, TabStep
LEMMA PortalFacts ==
  ASSUME PortalInv, NEW i \in Tabs
  PROVE  /\ PortalTypes /\ TabSound(i) /\ Newest(i) /\ needless \in BOOLEAN /\ ~needless
         /\ page \in [Tabs -> Pages] /\ store \in [Tabs -> Stores]
         /\ url \in [Tabs -> {None} \cup PO!Logins] /\ calls \in [Tabs -> Calls]
         /\ asked \in [Tabs -> SUBSET Asked]
         /\ asked[i] \subseteq Asked /\ store[i] \in Stores
         /\ asked = [asked EXCEPT ![i] = asked[i]]
         /\ logins \in Nat /\ logins <= logins /\ logins \in 0 .. MaxLogins
         /\ lineage \in [PO!Logins -> Lineages] /\ forked \subseteq PO!Logins /\ wiped \subseteq Tabs
  BY PortalBounds DEF PortalInv, PortalTypes

LEMMA SameLineage == lineage' = lineage => LineageKept
  BY DEF LineageKept

LEMMA UnloadIs ==
  ASSUME PortalTypes, NEW i \in Tabs, PO!Unload(i)
  PROVE  /\ asked' = [asked EXCEPT ![i] = {}] /\ asked'[i] = {} /\ asked' \in [Tabs -> SUBSET Asked]
         /\ calls' \in [Tabs -> Calls] /\ \A g \in PO!Logins : calls'[i][g] = 0
         /\ \A j \in Tabs : j # i => calls'[j] = calls[j] /\ asked'[j] = asked[j]
  <1> DEFINE none == [g \in PO!Logins |-> 0]
  <1>1. none \in Calls /\ \A g \in PO!Logins : none[g] = 0
    BY PortalBounds DEF Calls
  <1>2. asked' = [asked EXCEPT ![i] = {}] /\ calls' = [calls EXCEPT ![i] = none]
    BY DEF PO!Unload
  <1> HIDE DEF none
  <1>3. QED
    BY <1>1, <1>2 DEF PortalTypes

LEMMA RevokedIs ==
  ASSUME PortalTypes, lineage' = PO!Revoked
  PROVE  lineage' \in [PO!Logins -> Lineages] /\ LineageKept
  <1>1. lineage \in [PO!Logins -> Lineages]
    BY DEF PortalTypes
  <1>2. ASSUME NEW g \in PO!Logins
        PROVE  /\ lineage'[g] \in Lineages /\ lineage'[g].gen = lineage[g].gen
               /\ lineage[g].dead => lineage'[g].dead
    <2>1. lineage'[g] = IF lineage[g].gen = 0 THEN lineage[g]
                        ELSE [lineage[g] EXCEPT !.dead = TRUE, !.revoked = TRUE]
      BY DEF PO!Revoked
    <2>2. lineage[g] \in Lineages
      BY <1>1
    <2>3. QED
      BY <2>1, <2>2 DEF Lineages
  <1>3. lineage' = [g \in PO!Logins |-> lineage'[g]]
    BY DEF PO!Revoked
  <1>4. QED
    BY <1>2, <1>3 DEF LineageKept

LEMMA PortalOpen == ASSUME PortalInv, NEW i \in Tabs, PO!Open(i) PROVE PortalInv'
  <1>1. /\ page[i] = "closed" /\ PO!Go(i, PO!Blank)
        /\ UNCHANGED <<calls, asked, lineage, forked, needless>>
    BY DEF PO!Open, PO!Opens
  <1>2. Left(i, PO!Blank)
    BY <1>1, BlankIs, GoLeft, PortalFacts
  <1>3. PICK A \in SUBSET asked[i] : A = asked[i]
    OBVIOUS
  <1>4. asked' = [asked EXCEPT ![i] = A]
    BY <1>1, <1>3, PortalFacts
  <1>5. page[i] # "callback"
    BY <1>1
  <1>6. QED
    BY <1>1, <1>2, <1>4, <1>5, BlankIs, SameLineage, PortalFacts, LeftSound

LEMMA PortalReload == ASSUME PortalInv, NEW i \in Tabs, PO!Reload(i) PROVE PortalInv'
  <1>t. /\ PortalTypes /\ TabSound(i) /\ Newest(i) /\ store[i] \in Stores
        /\ page \in [Tabs -> Pages] /\ logins \in Nat /\ logins <= logins
        /\ forked \subseteq PO!Logins /\ asked[i] \subseteq Asked
    BY PortalFacts
  <1>1. forked' = forked \cup {e.of : e \in asked[i]} /\ PO!Unload(i) /\ UNCHANGED <<lineage, needless>>
    BY DEF PO!Reload, PO!Dropped
  <1>2. forked' \subseteq PO!Logins /\ forked \subseteq forked' /\ \A e \in asked[i] : e.of \in forked'
    BY <1>1, <1>t DEF Asked
  <1>3. CASE store[i].at = None
    <2>1. Left(i, store[i])
      BY <1>3, <1>t, GoLeft DEF PO!Reload
    <2>2. PICK A \in SUBSET asked[i] : A = {}
      OBVIOUS
    <2>3. asked' = [asked EXCEPT ![i] = A] /\ calls' \in [Tabs -> Calls]
          /\ \A j \in Tabs : j # i => calls'[j] = calls[j]
      BY <1>1, <1>t, <2>2, UnloadIs
    <2>4. \A e \in asked[i] \ A : e.of \in forked'
      BY <1>2
    <2>5. QED
      BY <1>1, <1>2, <2>1, <2>2, <2>3, <2>4, SameLineage, PortalFacts, LeftSound
  <1>4. CASE store[i].at # None
    <2>1. page' = [page EXCEPT ![i] = "app"] /\ UNCHANGED <<store, url, logins, wiped>>
      BY <1>4 DEF PO!Reload
    <2>2. /\ asked'[i] = {} /\ asked' \in [Tabs -> SUBSET Asked] /\ calls' \in [Tabs -> Calls]
          /\ \A j \in Tabs : j # i => calls'[j] = calls[j] /\ asked'[j] = asked[j]
      BY <1>1, <1>t, UnloadIs
    <2>3. page' \in [Tabs -> Pages] /\ page'[i] = "app" /\ \A j \in Tabs : j # i => page'[j] = page[j]
      BY <1>t, <2>1 DEF Pages
    <2>4. PortalTypes'
      BY <1>1, <1>2, <1>t, <2>1, <2>2, <2>3 DEF PortalTypes
    <2>5. \A j \in Tabs : j # i => TabKept(j)
      BY <2>1, <2>2, <2>3 DEF TabKept
    <2>6. TabSound(i)'
      BY <1>t, <2>1, <2>2, <2>3 DEF TabSound, OneAsked, StateKept, OnItsWay
    <2>7. HeldNewest(i)'
      BY <1>t, <1>1, <1>2, <2>1 DEF Newest, HeldNewest, Whole
    <2>8. Newest(i)'
      BY <2>2, <2>3, <2>7 DEF Newest, CodeNewest, AskedNewest
    <2>9. \A g : Holds(i, g)' => Holds(i, g)
      BY <2>1, <2>2, <2>3 DEF Holds, OnItsWay
    <2>10. QED
      BY <1>1, <1>2, <1>t, <2>1, <2>4, <2>5, <2>6, <2>8, <2>9, SameLineage, PortalFacts, TabStep
  <1>5. QED
    BY <1>3, <1>4

LEMMA PortalClose == ASSUME PortalInv, NEW i \in Tabs, PO!Close(i) PROVE PortalInv'
  <1>t. /\ PortalTypes /\ store \in [Tabs -> Stores]
        /\ page \in [Tabs -> Pages] /\ logins \in Nat /\ logins <= logins
    BY PortalFacts
  <1>1. /\ page' = [page EXCEPT ![i] = "closed"] /\ store' = [store EXCEPT ![i] = PO!Blank]
        /\ wiped' = wiped \ {i} /\ PO!Unload(i) /\ UNCHANGED <<url, logins, lineage, forked, needless>>
    BY DEF PO!Close
  <1>2. /\ asked'[i] = {} /\ asked' \in [Tabs -> SUBSET Asked] /\ calls' \in [Tabs -> Calls]
        /\ \A j \in Tabs : j # i => calls'[j] = calls[j] /\ asked'[j] = asked[j]
    BY <1>1, <1>t, UnloadIs
  <1>3. /\ page' \in [Tabs -> Pages] /\ page'[i] = "closed"
        /\ store' \in [Tabs -> Stores] /\ store'[i] = PO!Blank
        /\ \A j \in Tabs : j # i => page'[j] = page[j] /\ store'[j] = store[j]
    BY <1>t, <1>1, BlankIs DEF Pages
  <1>4. PortalTypes'
    BY <1>1, <1>t, <1>2, <1>3 DEF PortalTypes
  <1>5. \A j \in Tabs : j # i => TabKept(j)
    BY <1>1, <1>2, <1>3 DEF TabKept
  <1>6. TabSound(i)' /\ Newest(i)' /\ \A g : ~Holds(i, g)'
    BY <1>2, <1>3, BlankIs DEF TabSound, OneAsked, StateKept, OnItsWay, Newest, CodeNewest,
       HeldNewest, AskedNewest, Holds
  <1>7. QED
    BY <1>1, <1>t, <1>4, <1>5, <1>6, SameLineage, PortalFacts, TabStep

LEMMA PortalLeave == ASSUME PortalInv, NEW i \in Tabs, PO!Leave(i) PROVE PortalInv'
  <1>t. /\ PortalTypes /\ TabSound(i) /\ Newest(i) /\ store[i] \in Stores
        /\ page \in [Tabs -> Pages] /\ logins \in Nat /\ logins <= logins
        /\ forked \subseteq PO!Logins /\ asked[i] \subseteq Asked
    BY PortalFacts
  <1>1. /\ page[i] = "leaving" /\ page' = [page EXCEPT ![i] = "away"]
        /\ forked' = forked \cup {e.of : e \in asked[i]} /\ PO!Unload(i)
        /\ UNCHANGED <<store, url, logins, lineage, wiped, needless>>
    BY DEF PO!Leave, PO!Dropped
  <1>2. forked' \subseteq PO!Logins /\ forked \subseteq forked' /\ \A e \in asked[i] : e.of \in forked'
    BY <1>1, <1>t DEF Asked
  <1>3. /\ asked'[i] = {} /\ asked' \in [Tabs -> SUBSET Asked] /\ calls' \in [Tabs -> Calls]
        /\ \A g \in PO!Logins : calls'[i][g] = 0
        /\ \A j \in Tabs : j # i => calls'[j] = calls[j] /\ asked'[j] = asked[j]
    BY <1>1, <1>t, UnloadIs
  <1>4. page' \in [Tabs -> Pages] /\ page'[i] = "away" /\ \A j \in Tabs : j # i => page'[j] = page[j]
    BY <1>t, <1>1 DEF Pages
  <1>5. PortalTypes'
    BY <1>1, <1>2, <1>t, <1>3, <1>4 DEF PortalTypes
  <1>6. \A j \in Tabs : j # i => TabKept(j)
    BY <1>1, <1>3, <1>4 DEF TabKept
  <1>7. TabSound(i)'
    BY <1>t, <1>1, <1>3, <1>4 DEF TabSound, OneAsked, StateKept, OnItsWay
  <1>8. HeldNewest(i)'
    BY <1>t, <1>1, <1>2 DEF Newest, HeldNewest, Whole
  <1>9. Newest(i)'
    BY <1>3, <1>4, <1>8 DEF Newest, CodeNewest, AskedNewest
  <1>10. \A g : Holds(i, g)' => Holds(i, g)
    BY <1>1, <1>3, <1>4 DEF Holds, OnItsWay
  <1>11. QED
    BY <1>1, <1>2, <1>t, <1>5, <1>6, <1>7, <1>9, <1>10, SameLineage, PortalFacts, TabStep
LEMMA PortalHandleCallback == ASSUME PortalInv, NEW i \in Tabs, PO!HandleCallback(i) PROVE PortalInv'
  <1>t. /\ PortalTypes /\ TabSound(i) /\ Newest(i) /\ store[i] \in Stores /\ store \in [Tabs -> Stores]
        /\ url \in [Tabs -> {None} \cup PO!Logins] /\ asked \in [Tabs -> SUBSET Asked]
        /\ logins \in Nat /\ logins <= logins /\ logins \in 0 .. MaxLogins
        /\ needless \in BOOLEAN /\ ~needless
    BY PortalFacts
  <1>1. page[i] = "callback" /\ store[i].used # url[i] /\ UNCHANGED <<calls, lineage, forked>>
    BY DEF PO!HandleCallback
  <1>2. asked[i] = {} /\ url[i] \in 1 .. logins /\ (i \in wiped \/ store[i].state = url[i])
    BY <1>1, <1>t DEF TabSound, OneAsked, StateKept, OnItsWay
  <1>3. CASE store[i].state = url[i]
    <2>1. PICK g \in PO!Logins : g = url[i] /\ g \in 1 .. logins
      BY <1>2, <1>t, PortalBounds
    <2>2. PICK e : e = [kind |-> "code", of |-> g, gen |-> 1, reply |-> "none"]
      OBVIOUS
    <2>3. /\ e \in Asked /\ e.kind = "code" /\ e.of = g /\ e.gen = 1 /\ e.reply = "none"
          /\ 1 \in 1 .. MaxRefreshes + 1
      BY <2>2, PortalBounds DEF Asked
    <2>4. PICK s \in Stores : s.used = g /\ s.rt = store[i].rt /\ s.at = store[i].at
                              /\ s.state = store[i].state /\ s = [store[i] EXCEPT !.used = g]
      <3>1. [store[i] EXCEPT !.used = g] \in Stores
        BY <1>t DEF Stores
      <3>2. QED
        BY <3>1, <1>t DEF Stores
    <2>5. /\ store' = [store EXCEPT ![i] = s] /\ asked' = [asked EXCEPT ![i] = {e}]
          /\ UNCHANGED <<page, url, logins, wiped, needless>>
      BY <1>2, <1>3, <1>t, <2>1, <2>2, <2>4 DEF PO!HandleCallback
    <2>6. /\ store' \in [Tabs -> Stores] /\ store'[i] = s /\ asked'[i] = {e}
          /\ asked' \in [Tabs -> SUBSET Asked]
          /\ \A j \in Tabs : j # i => store'[j] = store[j] /\ asked'[j] = asked[j]
      BY <1>t, <2>3, <2>5
    <2>7. PortalTypes'
      BY <1>1, <1>t, <2>5, <2>6 DEF PortalTypes
    <2>8. \A j \in Tabs : j # i => TabKept(j)
      BY <1>1, <2>5, <2>6 DEF TabKept
    <2>9. OneAsked(i)'
      BY <1>1, <1>t, <2>1, <2>3, <2>4, <2>5, <2>6 DEF TabSound, OneAsked
    <2>10. StateKept(i)'
      BY <1>t, <2>4, <2>5, <2>6 DEF TabSound, StateKept, OnItsWay
    <2>11. lineage[g].gen >= 1 /\ (Whole(g) => lineage[g].gen = 1)
      BY <1>1, <1>t, <2>1 DEF Newest, CodeNewest
    <2>12. CodeNewest(i)' /\ AskedNewest(i)'
      BY <1>1, <2>1, <2>3, <2>4, <2>5, <2>6, <2>11 DEF CodeNewest, AskedNewest, Whole
    <2>13. HeldNewest(i)'
      BY <1>1, <1>2, <1>t, <2>4, <2>6 DEF Newest, HeldNewest, Whole
    <2>14. \A h : Holds(i, h)' => Holds(i, h)
      BY <1>1, <2>1, <2>3, <2>4, <2>5, <2>6 DEF Holds, OnItsWay
    <2>15. QED
      BY <1>1, <1>t, <2>5, <2>7, <2>8, <2>9, <2>10, <2>12, <2>13, <2>14, SameLineage, TabStep
         DEF TabSound, Newest
  <1>4. CASE store[i].state # url[i]
    <2>1. PO!ClearAndLogin(i) /\ needless' = (needless \/ i \notin wiped) /\ asked' = asked
      BY <1>4 DEF PO!HandleCallback
    <2>2. needless' \in BOOLEAN /\ ~needless'
      BY <1>2, <1>4, <1>t, <2>1
    <2>3. Left(i, PO!Blank)
      BY <1>t, <2>1, ClearLeft
    <2>4. PICK A \in SUBSET asked[i] : A = {} /\ asked' = [asked EXCEPT ![i] = A]
      BY <1>2, <1>t, <2>1
    <2>5. QED
      BY <1>1, <2>2, <2>3, <2>4, BlankIs, SameLineage, PortalFacts, LeftSound
  <1>5. QED
    BY <1>3, <1>4

\* A tab whose page and storage stay as they are, but for the age of its access token.
LEMMA StillThere ==
  ASSUME PortalInv, NEW i \in Tabs, page[i] = "app",
         UNCHANGED <<page, url, logins, lineage, forked, wiped, needless>>,
         store' \in [Tabs -> Stores], store'[i].rt = store[i].rt,
         store'[i].at = None <=> store[i].at = None,
         \A j \in Tabs : j # i => store'[j] = store[j] /\ calls'[j] = calls[j] /\ asked'[j] = asked[j],
         calls' \in [Tabs -> Calls], asked' \in [Tabs -> SUBSET Asked],
         OneAsked(i)', AskedNewest(i)',
         \/ asked'[i] = asked[i]
         \/ asked[i] = {} /\ \A e \in asked'[i] : e.reply = "none" /\ store[i].rt # None /\ e.of = store[i].rt.of
  PROVE  PortalInv'
  <1>t. /\ PortalTypes /\ TabSound(i) /\ Newest(i) /\ logins <= logins /\ ~needless
    BY PortalFacts
  <1>1. PortalTypes'
    BY <1>t DEF PortalTypes
  <1>2. \A j \in Tabs : j # i => TabKept(j)
    BY DEF TabKept
  <1>3. StateKept(i)'
    BY <1>t DEF TabSound, StateKept, OnItsWay
  <1>4. HeldNewest(i)'
    BY <1>t DEF Newest, HeldNewest, Whole
  <1>5. CodeNewest(i)'
    BY DEF CodeNewest
  <1>6. \A g : Holds(i, g)' => Holds(i, g)
    BY DEF Holds, OnItsWay
  <1>7. QED
    BY <1>t, <1>1, <1>2, <1>3, <1>4, <1>5, <1>6, SameLineage, TabStep DEF TabSound, Newest

LEMMA PortalRefresh == ASSUME PortalInv, NEW i \in Tabs, PO!Refresh(i) PROVE PortalInv'
  <1>t. /\ PortalTypes /\ TabSound(i) /\ Newest(i) /\ store[i] \in Stores /\ store \in [Tabs -> Stores]
        /\ asked \in [Tabs -> SUBSET Asked] /\ calls \in [Tabs -> Calls]
    BY PortalFacts
  <1>1. /\ page[i] = "app" /\ asked[i] = {} /\ store[i].at # None /\ store[i].rt.gen <= MaxRefreshes + 1
        /\ UNCHANGED <<page, store, url, calls, logins, lineage, forked, wiped, needless>>
    BY DEF PO!Refresh, PO!MayRefresh
  <1>2. /\ store[i].rt # None /\ store[i].rt.of \in 1 .. logins /\ store[i].rt.of \in PO!Logins
        /\ store[i].rt.gen \in PO!Gens /\ store[i].rt.gen \in 1 .. MaxRefreshes + 1
    <2>1. store[i].rt # None /\ store[i].rt.of \in 1 .. logins /\ store[i].rt.gen >= 1
      BY <1>1, <1>t DEF TabSound, StateKept
    <2>2. store[i].rt \in [of: PO!Logins, gen: PO!Gens]
      BY <2>1, <1>t DEF Stores
    <2>3. QED
      BY <1>1, <2>1, <2>2, PortalBounds
  <1>3. PICK e : e = [kind |-> "refresh", of |-> store[i].rt.of, gen |-> store[i].rt.gen, reply |-> "none"]
    OBVIOUS
  <1>4. /\ e \in Asked /\ e.kind = "refresh" /\ e.of = store[i].rt.of /\ e.gen = store[i].rt.gen
        /\ e.reply = "none"
    BY <1>2, <1>3 DEF Asked
  <1>5. asked' = [asked EXCEPT ![i] = {e}]
    BY <1>1, <1>3, <1>t DEF PO!Refresh
  <1>6. /\ asked'[i] = {e} /\ asked' \in [Tabs -> SUBSET Asked]
        /\ \A j \in Tabs : j # i => asked'[j] = asked[j]
    BY <1>t, <1>4, <1>5
  <1>7. OneAsked(i)'
    BY <1>1, <1>2, <1>4, <1>6 DEF OneAsked
  <1>8. HeldNewest(i)
    BY <1>t DEF Newest
  <1>9. AskedNewest(i)'
    BY <1>1, <1>2, <1>4, <1>6, <1>8 DEF AskedNewest, HeldNewest, Whole
  <1>10. QED
    BY <1>1, <1>2, <1>4, <1>6, <1>7, <1>9, <1>t, StillThere

LEMMA PortalExpire == ASSUME PortalInv, NEW i \in Tabs, PO!Expire(i) PROVE PortalInv'
  <1>t. /\ PortalTypes /\ TabSound(i) /\ Newest(i) /\ store[i] \in Stores /\ store \in [Tabs -> Stores]
        /\ asked \in [Tabs -> SUBSET Asked] /\ calls \in [Tabs -> Calls]
    BY PortalFacts
  <1>1. /\ page[i] = "app" /\ store[i].at # None /\ store[i].at.fresh
        /\ store' = [store EXCEPT ![i].at.fresh = FALSE]
        /\ UNCHANGED <<page, url, calls, asked, logins, lineage, forked, wiped, needless>>
    BY DEF PO!Expire
  <1>2. PICK s \in Stores : /\ s.rt = store[i].rt /\ s.at # None
                            /\ store' = [store EXCEPT ![i] = s]
    <2>1. PICK c \in Stores : c = store[i]
      BY <1>t
    <2>2. PICK a \in [of: PO!Logins, fresh: BOOLEAN] : a = c.at /\ a # None
      BY <1>1, <2>1 DEF Stores
    <2>3. [a EXCEPT !.fresh = FALSE] \in [of: PO!Logins, fresh: BOOLEAN]
      OBVIOUS
    <2>4. PICK b \in [of: PO!Logins, fresh: BOOLEAN] : b = [a EXCEPT !.fresh = FALSE]
      BY <2>3
    <2>5. PICK s : s = [c EXCEPT !.at = b]
      OBVIOUS
    <2>6. s \in Stores /\ s.rt = c.rt /\ s.at = b
      BY <2>5 DEF Stores
    <2>7. store' = [store EXCEPT ![i] = s]
      BY <1>1, <1>t, <2>1, <2>2, <2>4, <2>5
    <2>8. QED
      BY <2>1, <2>6, <2>7, PortalBounds
  <1>3. /\ store' \in [Tabs -> Stores] /\ store'[i] = s /\ \A j \in Tabs : j # i => store'[j] = store[j]
    BY <1>t, <1>2
  <1>4. OneAsked(i)' /\ AskedNewest(i)'
    BY <1>1, <1>t DEF TabSound, OneAsked, Newest, AskedNewest, Whole
  <1>5. QED
    BY <1>1, <1>2, <1>3, <1>4, <1>t, StillThere

LEMMA PortalCall == ASSUME PortalInv, NEW i \in Tabs, PO!Call(i) PROVE PortalInv'
  <1>t. /\ PortalTypes /\ TabSound(i) /\ Newest(i) /\ store[i] \in Stores /\ store \in [Tabs -> Stores]
        /\ asked \in [Tabs -> SUBSET Asked] /\ calls \in [Tabs -> Calls]
    BY PortalFacts
  <1>1. /\ page[i] = "app" /\ store[i].at # None /\ calls[i][store[i].at.of] < MaxCalls
        /\ calls' = [calls EXCEPT ![i][store[i].at.of] = @ + 1]
        /\ UNCHANGED <<page, store, url, asked, logins, lineage, forked, wiped, needless>>
    BY DEF PO!Call
  <1>2. PICK c \in Calls : c = calls[i]
    BY <1>t
  <1>3. PICK g \in PO!Logins : g = store[i].at.of
    BY <1>1, <1>t DEF Stores
  <1>4. [c EXCEPT ![g] = @ + 1] \in Calls
    <2>1. c[g] \in 0 .. MaxCalls /\ c[g] < MaxCalls
      BY <1>1, <1>2, <1>3 DEF Calls
    <2>2. c[g] + 1 \in 0 .. MaxCalls
      BY <2>1, PortalBounds
    <2>3. QED
      BY <2>2 DEF Calls
  <1>5. calls' = [calls EXCEPT ![i] = [c EXCEPT ![g] = @ + 1]]
    BY <1>1, <1>2, <1>3
  <1>6. calls' \in [Tabs -> Calls] /\ \A j \in Tabs : j # i => calls'[j] = calls[j]
    BY <1>t, <1>4, <1>5
  <1>7. OneAsked(i)' /\ AskedNewest(i)'
    BY <1>1, <1>t DEF TabSound, OneAsked, Newest, AskedNewest, Whole
  <1>8. QED
    BY <1>1, <1>6, <1>7, <1>t, StillThere
LEMMA PortalAnswer ==
  ASSUME PortalInv, NEW i \in Tabs, NEW g \in PO!Logins, PO!Answer(i, g) PROVE PortalInv'
  <1>t. /\ PortalTypes /\ TabSound(i) /\ Newest(i) /\ needless \in BOOLEAN /\ ~needless
        /\ calls \in [Tabs -> Calls] /\ logins \in Nat /\ logins <= logins
        /\ forked \subseteq PO!Logins /\ lineage \in [PO!Logins -> Lineages]
    BY PortalFacts
  <1>1. /\ PO!Running(i) /\ calls[i][g] > 0 /\ calls' = [calls EXCEPT ![i][g] = @ - 1]
        /\ UNCHANGED <<asked, lineage, forked, needless>>
        /\ PO!ClearAndLogin(i) \/ UNCHANGED <<page, store, url, logins, wiped>>
    BY DEF PO!Answer
  <1>2. PICK c \in Calls : c = calls[i]
    BY <1>t
  <1>3. [c EXCEPT ![g] = @ - 1] \in Calls
    <2>1. c[g] \in 0 .. MaxCalls /\ c[g] > 0
      BY <1>1, <1>2 DEF Calls
    <2>2. c[g] - 1 \in 0 .. MaxCalls
      BY <2>1, PortalBounds
    <2>3. QED
      BY <2>2 DEF Calls
  <1>4. calls' = [calls EXCEPT ![i] = [c EXCEPT ![g] = @ - 1]]
    BY <1>1, <1>2
  <1>5. calls' \in [Tabs -> Calls] /\ \A j \in Tabs : j # i => calls'[j] = calls[j]
    BY <1>t, <1>3, <1>4
  <1>6. page[i] \notin {"away", "callback"}
    BY <1>1, <1>t DEF TabSound, OneAsked
  <1>7. CASE PO!ClearAndLogin(i)
    <2>1. Left(i, PO!Blank)
      BY <1>t, <1>7, ClearLeft
    <2>2. PICK A \in SUBSET asked[i] : A = asked[i]
      OBVIOUS
    <2>3. asked' = [asked EXCEPT ![i] = A]
      BY <1>1, <2>2, PortalFacts
    <2>4. QED
      BY <1>1, <1>5, <1>6, <1>t, <2>1, <2>3, BlankIs, SameLineage, LeftSound
  <1>8. CASE UNCHANGED <<page, store, url, logins, wiped>>
    <2>1. PortalTypes'
      BY <1>1, <1>5, <1>8, <1>t DEF PortalTypes
    <2>2. \A j \in Tabs : j # i => TabKept(j)
      BY <1>1, <1>5, <1>8 DEF TabKept
    <2>3. TabSound(i)'
      BY <1>1, <1>6, <1>8, <1>t DEF TabSound, OneAsked, StateKept, OnItsWay
    <2>4. Newest(i)'
      BY <1>1, <1>8, <1>t DEF Newest, CodeNewest, HeldNewest, AskedNewest, Whole
    <2>5. \A h : Holds(i, h)' => Holds(i, h)
      BY <1>1, <1>8 DEF Holds, OnItsWay
    <2>6. QED
      BY <1>1, <1>8, <1>t, <2>1, <2>2, <2>3, <2>4, <2>5, SameLineage, TabStep
  <1>9. QED
    BY <1>1, <1>7, <1>8

LEMMA PortalLogout == ASSUME PortalInv, NEW i \in Tabs, PO!Logout(i) PROVE PortalInv'
  <1>t. /\ PortalTypes /\ needless \in BOOLEAN /\ ~needless /\ forked \subseteq PO!Logins
    BY PortalFacts
  <1>1. /\ page[i] = "app" /\ lineage' = PO!Revoked /\ PO!Unload(i) /\ PO!ClearAndLogin(i)
        /\ UNCHANGED <<forked, needless>>
    BY DEF PO!Logout
  <1>2. Left(i, PO!Blank) /\ lineage' \in [PO!Logins -> Lineages] /\ LineageKept
    BY <1>1, <1>t, ClearLeft, RevokedIs
  <1>3. PICK A \in SUBSET asked[i] : A = {}
    OBVIOUS
  <1>4. asked' = [asked EXCEPT ![i] = A] /\ calls' \in [Tabs -> Calls]
        /\ \A j \in Tabs : j # i => calls'[j] = calls[j]
    BY <1>1, <1>t, <1>3, UnloadIs
  <1>5. QED
    BY <1>1, <1>2, <1>3, <1>4, <1>t, BlankIs, LeftSound

LEMMA PortalRevokeAll == ASSUME PortalInv, PO!RevokeAll PROVE PortalInv'
  <1>t. PortalTypes /\ logins \in Nat /\ logins' \in Nat /\ logins <= logins'
    BY PortalBounds DEF PortalInv, PortalTypes, PO!RevokeAll
  <1>1. /\ lineage' = PO!Revoked
        /\ UNCHANGED <<page, store, url, calls, asked, logins, forked, wiped, needless>>
    BY DEF PO!RevokeAll
  <1>2. lineage' \in [PO!Logins -> Lineages] /\ LineageKept
    BY <1>1, <1>t, RevokedIs
  <1>3. PortalTypes'
    BY <1>1, <1>2, <1>t DEF PortalTypes
  <1>4. ASSUME NEW j \in Tabs PROVE TabSound(j)' /\ Newest(j)' /\ \A g : Holds(j, g)' <=> Holds(j, g)
    <2>1. TabKept(j) /\ forked \subseteq forked'
      BY <1>1 DEF TabKept
    <2>2. QED
      BY <1>2, <1>t, <2>1, KeptTab
  <1>5. OneHolder'
    BY <1>1, <1>4 DEF OneHolder, PortalInv
  <1>6. QED
    BY <1>1, <1>3, <1>4, <1>5 DEF PortalInv

LEMMA PortalDuplicate ==
  ASSUME PortalInv, NEW i \in Tabs, NEW j \in Tabs, PO!Duplicate(i, j) PROVE PortalInv'
  <1>t. /\ PortalTypes /\ TabSound(i) /\ Newest(i) /\ store[i] \in Stores /\ store \in [Tabs -> Stores]
        /\ page \in [Tabs -> Pages] /\ logins \in Nat /\ logins <= logins
        /\ forked \subseteq PO!Logins /\ ~needless
    BY PortalFacts
  <1>u. TabSound(j) /\ Newest(j)
    BY DEF PortalInv
  <1>1. /\ page[j] = "closed" /\ page' = [page EXCEPT ![j] = "app"]
        /\ store' = [store EXCEPT ![j] = store[i]]
        /\ forked' = IF store[i].rt = None THEN forked ELSE forked \cup {store[i].rt.of}
        /\ UNCHANGED <<url, calls, asked, logins, lineage, wiped, needless>>
    BY DEF PO!Duplicate, PO!Opens
  <1>2. forked' \subseteq PO!Logins /\ forked \subseteq forked'
        /\ (store[i].rt # None => store[i].rt.of \in forked')
    BY <1>1, <1>t DEF Stores
  <1>3. /\ page' \in [Tabs -> Pages] /\ page'[j] = "app"
        /\ store' \in [Tabs -> Stores] /\ store'[j] = store[i]
        /\ \A k \in Tabs : k # j => page'[k] = page[k] /\ store'[k] = store[k]
    BY <1>1, <1>t DEF Pages
  <1>4. PortalTypes'
    BY <1>1, <1>2, <1>3, <1>t DEF PortalTypes
  <1>5. \A k \in Tabs : k # j => TabKept(k)
    BY <1>1, <1>3 DEF TabKept
  <1>6. TabSound(j)'
    BY <1>1, <1>3, <1>t, <1>u DEF TabSound, OneAsked, StateKept, OnItsWay
  <1>7. CodeNewest(j)' /\ HeldNewest(j)'
    BY <1>1, <1>2, <1>3, <1>t DEF Newest, CodeNewest, HeldNewest, Whole
  <1>8. AskedNewest(j)'
    BY <1>1, <1>2, <1>u DEF Newest, AskedNewest, Whole
  <1>9. ASSUME NEW g, Holds(j, g)' PROVE Holds(j, g) \/ g \in forked'
    BY <1>1, <1>2, <1>3, <1>9 DEF Holds, OnItsWay
  <1>10. QED
    BY <1>1, <1>2, <1>4, <1>5, <1>6, <1>7, <1>8, <1>9, <1>t, SameLineage, TabStep DEF Newest

LEMMA PortalTokenLost ==
  ASSUME PortalInv, NEW i \in Tabs, NEW e \in asked[i], PO!TokenLost(i, e) PROVE PortalInv'
  <1>t. /\ PortalTypes /\ TabSound(i) /\ Newest(i) /\ asked \in [Tabs -> SUBSET Asked]
        /\ asked[i] \subseteq Asked /\ logins \in Nat /\ logins <= logins
        /\ forked \subseteq PO!Logins /\ ~needless
    BY PortalFacts
  <1>1. /\ asked' = [asked EXCEPT ![i] = @ \ {e}] /\ forked' = forked \cup {e.of}
        /\ UNCHANGED <<page, store, url, calls, logins, lineage, wiped, needless>>
    BY DEF PO!TokenLost
  <1>2. asked[i] = {e}
    BY <1>t DEF TabSound, OneAsked
  <1>3. /\ asked' \in [Tabs -> SUBSET Asked] /\ asked'[i] = {}
        /\ \A j \in Tabs : j # i => asked'[j] = asked[j]
    BY <1>1, <1>2, <1>t
  <1>4. forked' \subseteq PO!Logins /\ forked \subseteq forked' /\ e.of \in forked'
    BY <1>1, <1>t DEF Asked
  <1>5. PortalTypes'
    BY <1>1, <1>3, <1>4, <1>t DEF PortalTypes
  <1>6. \A j \in Tabs : j # i => TabKept(j)
    BY <1>1, <1>3 DEF TabKept
  <1>7. TabSound(i)'
    BY <1>1, <1>3, <1>t DEF TabSound, OneAsked, StateKept, OnItsWay
  <1>8. CodeNewest(i)' /\ AskedNewest(i)'
    BY <1>1, <1>3, <1>4, <1>t DEF Newest, CodeNewest, AskedNewest, Whole
  <1>9. HeldNewest(i)'
    BY <1>1, <1>2, <1>3, <1>4, <1>t DEF Newest, HeldNewest, Whole
  <1>10. \A g : Holds(i, g)' => Holds(i, g)
    BY <1>1, <1>3 DEF Holds, OnItsWay
  <1>11. QED
    BY <1>1, <1>4, <1>5, <1>6, <1>7, <1>8, <1>9, <1>10, <1>t, SameLineage, TabStep DEF Newest
LEMMA PortalTokenAnswer ==
  ASSUME PortalInv, NEW i \in Tabs, NEW e \in asked[i], PO!TokenAnswer(i, e) PROVE PortalInv'
  <1>t. /\ PortalTypes /\ TabSound(i) /\ Newest(i) /\ asked \in [Tabs -> SUBSET Asked]
        /\ page \in [Tabs -> Pages] /\ store \in [Tabs -> Stores] /\ store[i] \in Stores
        /\ calls \in [Tabs -> Calls] /\ asked[i] \subseteq Asked /\ logins \in Nat /\ logins <= logins
        /\ needless \in BOOLEAN /\ ~needless
    BY PortalFacts
  <1>1. /\ PO!Running(i) /\ e.reply # "none" /\ asked' = [asked EXCEPT ![i] = @ \ {e}]
        /\ UNCHANGED <<calls, lineage, forked, needless>>
    BY DEF PO!TokenAnswer
  <1>2. asked[i] = {e} /\ e \in Asked
    BY <1>t DEF TabSound, OneAsked
  <1>3. /\ asked' = [asked EXCEPT ![i] = {}] /\ asked' \in [Tabs -> SUBSET Asked] /\ asked'[i] = {}
        /\ \A j \in Tabs : j # i => asked'[j] = asked[j]
    BY <1>1, <1>2, <1>t
  <1>4. CASE e.reply = "ok"
    <2>1. /\ e.of \in PO!Logins /\ e.of \in 1 .. logins /\ e.gen \in 1 .. MaxRefreshes + 1
          /\ e.gen + 1 \in PO!Gens /\ e.gen + 1 >= 1
          /\ e.kind = "code" <=> page[i] = "callback"
      <3>1. e.of \in PO!Logins /\ e.of \in 1 .. logins /\ e.gen \in 1 .. MaxRefreshes + 1
            /\ (e.kind = "code" <=> page[i] = "callback")
        BY <1>2, <1>t DEF TabSound, OneAsked, Asked
      <3>2. QED
        BY <3>1, PortalBounds
    <2>2. PICK b \in [of: PO!Logins, gen: PO!Gens] : b = [of |-> e.of, gen |-> e.gen + 1]
      BY <2>1
    <2>3. PICK a \in [of: PO!Logins, fresh: BOOLEAN] : a = [of |-> e.of, fresh |-> TRUE]
      BY <2>1
    <2>4. a # None /\ b # None /\ b.of = e.of /\ b.gen = e.gen + 1
      BY <2>2, <2>3, PortalBounds
    <2>5. PICK s \in Stores : /\ s.at = a /\ s.rt = b /\ (e.kind # "code" => s.state = store[i].state)
                              /\ store' = [store EXCEPT ![i] = s]
      <3>1. PICK c \in Stores : c = store[i]
        BY <1>t
      <3>2. PICK s : s = [c EXCEPT !.at = a, !.rt = b,
                                   !.state = IF e.kind = "code" THEN None ELSE @,
                                   !.used = IF e.kind = "code" THEN None ELSE @]
        OBVIOUS
      <3>3. s \in Stores /\ s.at = a /\ s.rt = b /\ (e.kind # "code" => s.state = c.state)
        BY <3>2 DEF Stores
      <3>4. store' = [store EXCEPT ![i] = s]
        <4>1. store' = [store EXCEPT ![i].at = a, ![i].rt = b,
                                     ![i].state = IF e.kind = "code" THEN None ELSE @,
                                     ![i].used = IF e.kind = "code" THEN None ELSE @]
          BY <1>4, <2>2, <2>3 DEF PO!TokenAnswer
        <4>2. PICK p \in BOOLEAN : p <=> e.kind = "code"
          OBVIOUS
        <4>3. store' = [store EXCEPT ![i].at = a, ![i].rt = b, ![i].state = IF p THEN None ELSE @,
                                     ![i].used = IF p THEN None ELSE @]
          BY <4>1, <4>2
        <4>4. s = [store[i] EXCEPT !.at = a, !.rt = b, !.state = IF p THEN None ELSE @,
                                   !.used = IF p THEN None ELSE @]
          BY <3>1, <3>2, <4>2
        <4>5. store' = [store EXCEPT ![i] = [store[i] EXCEPT !.at = a, !.rt = b,
                                                             !.state = IF p THEN None ELSE @,
                                                             !.used = IF p THEN None ELSE @]]
          BY <1>t, <4>3 DEF Stores
        <4>6. QED
          BY <4>4, <4>5
      <3>5. QED
        BY <3>1, <3>3, <3>4
    <2>6. /\ page' = IF e.kind = "code" THEN [page EXCEPT ![i] = "app"] ELSE page
          /\ UNCHANGED <<url, logins, wiped>>
      BY <1>4 DEF PO!TokenAnswer
    <2>7. /\ store' \in [Tabs -> Stores] /\ store'[i] = s
          /\ \A j \in Tabs : j # i => store'[j] = store[j]
      BY <1>t, <2>5
    <2>8. /\ page' \in [Tabs -> Pages] /\ page'[i] \in {"app", "leaving"}
          /\ page'[i] = "leaving" => page[i] = "leaving" /\ e.kind # "code"
          /\ \A j \in Tabs : j # i => page'[j] = page[j]
      BY <1>1, <1>t, <2>1, <2>6 DEF Pages, PO!Running
    <2>9. PortalTypes'
      BY <1>1, <1>3, <1>t, <2>6, <2>7, <2>8 DEF PortalTypes
    <2>10. \A j \in Tabs : j # i => TabKept(j)
      BY <1>1, <1>3, <2>6, <2>7, <2>8 DEF TabKept
    <2>11. OneAsked(i)'
      BY <1>3, <2>8 DEF OneAsked
    <2>12. StateKept(i)'
      BY <1>t, <2>1, <2>4, <2>5, <2>6, <2>7, <2>8 DEF TabSound, StateKept, OnItsWay
    <2>13. lineage[e.of].gen >= 1 /\ (Whole(e.of) => e.gen + 1 = lineage[e.of].gen)
      BY <1>4, <1>t DEF Newest, AskedNewest
    <2>14. HeldNewest(i)'
      BY <1>1, <2>4, <2>5, <2>7, <2>13 DEF HeldNewest, Whole
    <2>15. CodeNewest(i)' /\ AskedNewest(i)'
      BY <1>3, <2>8 DEF CodeNewest, AskedNewest
    <2>16. ASSUME NEW g, Holds(i, g)' PROVE Holds(i, g)
      BY <1>3, <2>4, <2>5, <2>6, <2>7, <2>8, <2>16 DEF Holds, OnItsWay
    <2>17. QED
      BY <1>1, <1>t, <2>6, <2>9, <2>10, <2>11, <2>12, <2>14, <2>15, <2>16, SameLineage, TabStep
         DEF TabSound, Newest
  <1>5. CASE e.reply # "ok"
    <2>1. Left(i, PO!Blank)
      BY <1>5, <1>t, ClearLeft DEF PO!TokenAnswer
    <2>2. PICK A \in SUBSET asked[i] : A = {} /\ asked' = [asked EXCEPT ![i] = A]
      BY <1>3
    <2>3. calls' \in [Tabs -> Calls] /\ \A j \in Tabs : j # i => calls'[j] = calls[j]
      BY <1>1, <1>t
    <2>4. QED
      BY <1>1, <1>t, <2>1, <2>2, <2>3, BlankIs, SameLineage, PortalFacts, LeftSound
  <1>6. QED
    BY <1>4, <1>5

\* A step of one tab that makes the next token of a lineage nobody else has a token
\* of, or one that is forked.
LEMMA TokenStep ==
  ASSUME PortalInv, PortalTypes', NEW i \in Tabs, NEW g \in PO!Logins,
         \A j \in Tabs : j # i => TabKept(j),
         \A h \in PO!Logins : h # g => lineage'[h] = lineage[h],
         lineage'[g].gen >= 1, lineage[g].dead => lineage'[g].dead,
         g \notin forked => \A j \in Tabs : Holds(j, g) => j = i,
         forked' = forked, logins' = logins,
         TabSound(i)', Newest(i)', ~needless',
         \A h : Holds(i, h)' => Holds(i, h)
  PROVE  PortalInv'
  <1>1. logins \in Nat
    BY PortalBounds DEF PortalInv, PortalTypes
  <1>2. ASSUME NEW j \in Tabs, j # i
        PROVE  TabSound(j)' /\ Newest(j)' /\ \A h : Holds(j, h)' <=> Holds(j, h)
    <2>1. TabKept(j) /\ TabSound(j) /\ Newest(j)
      BY <1>2 DEF PortalInv
    <2>2. TabSound(j)'
      BY <2>1 DEF TabKept, TabSound, OneAsked, StateKept, OnItsWay
    <2>3. \A h : Holds(j, h)' <=> Holds(j, h)
      BY <2>1 DEF TabKept, Holds, OnItsWay
    <2>4. \A h : Holds(j, h) => /\ h \in PO!Logins
                                /\ h = g => h \in forked
                                /\ h # g => lineage'[h] = lineage[h]
      <3>1. 1 .. logins \subseteq PO!Logins
        BY PortalBounds DEF PortalInv, PortalTypes
      <3>2. QED
        BY <1>2, <3>1, HeldBegan
    <2>5. CodeNewest(j)'
      <3> SUFFICES ASSUME page[j] = "callback" PROVE CodeNewest(j)'
        BY <2>1 DEF TabKept, CodeNewest
      <3>1. Holds(j, url[j])
        BY DEF Holds, OnItsWay
      <3>2. QED
        BY <2>1, <2>4, <3>1 DEF TabKept, Newest, CodeNewest, Whole
    <2>6. HeldNewest(j)'
      <3> SUFFICES ASSUME store[j].rt # None PROVE HeldNewest(j)'
        BY <2>1 DEF TabKept, HeldNewest
      <3>1. Holds(j, store[j].rt.of)
        BY DEF Holds
      <3>2. QED
        BY <2>1, <2>4, <3>1 DEF TabKept, Newest, HeldNewest, Whole
    <2>7. AskedNewest(j)'
      <3>1. \A e \in asked[j] : Holds(j, e.of)
        BY DEF Holds
      <3>2. QED
        BY <2>1, <2>4, <3>1 DEF TabKept, Newest, AskedNewest, Whole
    <2>8. QED
      BY <2>2, <2>3, <2>5, <2>6, <2>7 DEF Newest
  <1>3. OneHolder'
    BY <1>2 DEF OneHolder, PortalInv
  <1>4. QED
    BY <1>2, <1>3 DEF PortalInv

LEMMA PortalAuthorize == ASSUME PortalInv, NEW i \in Tabs, PO!Authorize(i) PROVE PortalInv'
  <1>t. /\ PortalTypes /\ TabSound(i) /\ Newest(i) /\ page \in [Tabs -> Pages]
        /\ lineage \in [PO!Logins -> Lineages] /\ ~needless
    BY PortalFacts
  <1>1. /\ page[i] = "away" /\ lineage[url[i]].gen = 0
        /\ page' = [page EXCEPT ![i] = "callback"]
        /\ lineage' = [lineage EXCEPT ![url[i]].gen = 1]
        /\ UNCHANGED <<store, url, calls, asked, logins, forked, wiped, needless>>
    BY DEF PO!Authorize
  <1>2. PICK g \in PO!Logins : g = url[i] /\ g \in 1 .. logins
    BY <1>1, <1>t, PortalBounds DEF TabSound, StateKept, OnItsWay, PortalTypes
  <1>3. PICK l \in Lineages : /\ l.gen = 1 /\ l.dead = lineage[g].dead
                              /\ lineage' = [lineage EXCEPT ![g] = l]
    <2>1. PICK c \in Lineages : c = lineage[g]
      BY <1>t
    <2>2. [c EXCEPT !.gen = 1] \in Lineages
      BY PortalBounds DEF Lineages
    <2>3. lineage' = [lineage EXCEPT ![g] = [c EXCEPT !.gen = 1]]
      BY <1>1, <1>2, <2>1
    <2>4. [c EXCEPT !.gen = 1].gen = 1 /\ [c EXCEPT !.gen = 1].dead = c.dead
      BY DEF Lineages
    <2>5. QED
      BY <2>1, <2>2, <2>3, <2>4
  <1>4. /\ lineage' \in [PO!Logins -> Lineages] /\ lineage'[g] = l
        /\ \A h \in PO!Logins : h # g => lineage'[h] = lineage[h]
    BY <1>3, <1>t
  <1>5. /\ page' \in [Tabs -> Pages] /\ page'[i] = "callback"
        /\ \A j \in Tabs : j # i => page'[j] = page[j]
    BY <1>1, <1>t DEF Pages
  <1>6. PortalTypes'
    BY <1>1, <1>4, <1>5, <1>t DEF PortalTypes
  <1>7. \A j \in Tabs : j # i => TabKept(j)
    BY <1>1, <1>5 DEF TabKept
  <1>8. asked[i] = {}
    BY <1>1, <1>t DEF TabSound, OneAsked
  <1>9. TabSound(i)'
    BY <1>1, <1>5, <1>8, <1>t DEF TabSound, OneAsked, StateKept, OnItsWay
  <1>10. store[i].rt # None => store[i].rt.of # g /\ store[i].rt.of \in PO!Logins
    <2>1. store[i].rt # None => store[i].rt.of \in PO!Logins
      BY <1>t, PortalFacts DEF Stores
    <2>2. QED
      BY <1>1, <1>2, <1>t, <2>1 DEF Newest, HeldNewest
  <1>11. Newest(i)'
    BY <1>1, <1>2, <1>3, <1>4, <1>5, <1>8, <1>10, <1>t DEF Newest, CodeNewest, HeldNewest,
       AskedNewest, Whole
  <1>12. \A h : Holds(i, h)' => Holds(i, h)
    BY <1>1, <1>5 DEF Holds, OnItsWay
  <1>13. g \notin forked => \A j \in Tabs : Holds(j, g) => j = i
    <2>1. Holds(i, g)
      BY <1>1, <1>2 DEF Holds, OnItsWay
    <2>2. QED
      BY <2>1 DEF PortalInv, OneHolder
  <1>14. QED
    BY <1>1, <1>3, <1>4, <1>6, <1>7, <1>9, <1>11, <1>12, <1>13, <1>t, TokenStep
LEMMA PortalTokenEndpoint ==
  ASSUME PortalInv, NEW i \in Tabs, NEW e \in asked[i], PO!TokenEndpoint(i, e) PROVE PortalInv'
  <1>t. /\ PortalTypes /\ TabSound(i) /\ Newest(i) /\ asked \in [Tabs -> SUBSET Asked]
        /\ asked[i] \subseteq Asked /\ logins \in Nat /\ logins <= logins
        /\ lineage \in [PO!Logins -> Lineages] /\ needless \in BOOLEAN /\ ~needless
    BY PortalFacts
  <1>1. asked[i] = {e} /\ e \in Asked
    BY <1>t DEF TabSound, OneAsked
  <1>2. PICK g \in PO!Logins : g = e.of
    BY <1>1 DEF Asked
  <1>3. PICK ok \in BOOLEAN : ok <=> ~lineage[g].dead /\ e.gen = lineage[g].gen
    OBVIOUS
  <1>4. PICK f : f = [e EXCEPT !.reply = IF ok THEN "ok" ELSE "bad"]
    OBVIOUS
  <1>5. /\ f \in Asked /\ f.kind = e.kind /\ f.of = g /\ f.gen = e.gen
        /\ f.reply = IF ok THEN "ok" ELSE "bad"
    BY <1>1, <1>2, <1>4 DEF Asked
  <1>6. PICK c \in Lineages : c = lineage[g]
    BY <1>t
  <1>7. /\ e.reply = "none" /\ asked' = [asked EXCEPT ![i] = (@ \ {e}) \cup {f}]
        /\ lineage' = [lineage EXCEPT ![g] = IF ok THEN [c EXCEPT !.gen = e.gen + 1]
                                             ELSE [c EXCEPT !.dead = TRUE]]
        /\ needless' = (needless \/ (~lineage[g].dead /\ e.gen < lineage[g].gen /\ g \notin forked))
        /\ UNCHANGED <<page, store, url, calls, logins, forked, wiped>>
    BY <1>2, <1>3, <1>4, <1>6 DEF PO!TokenEndpoint
  <1>8. /\ e.gen \in 1 .. MaxRefreshes + 1 /\ lineage[g].gen >= 1 /\ lineage[g].gen \in Nat
        /\ Whole(g) => e.gen = lineage[g].gen
    <2>1. lineage[g].gen \in Nat
      BY <1>6, PortalBounds DEF Lineages
    <2>2. QED
      BY <1>2, <1>7, <1>t, <2>1 DEF TabSound, OneAsked, Newest, AskedNewest
  <1>9. ~needless' /\ needless' \in BOOLEAN
    BY <1>7, <1>8, <1>t DEF Whole
  <1>10. PICK l \in Lineages : /\ lineage' = [lineage EXCEPT ![g] = l]
                               /\ l.gen = IF ok THEN e.gen + 1 ELSE lineage[g].gen
                               /\ l.dead <=> lineage[g].dead \/ ~ok
    <2>1. CASE ok
      <3>1. e.gen + 1 \in PO!Gens
        BY <1>8, PortalBounds
      <3>2. PICK l : l = [c EXCEPT !.gen = e.gen + 1]
        OBVIOUS
      <3>3. l \in Lineages /\ l.gen = e.gen + 1 /\ l.dead = c.dead
        BY <3>1, <3>2 DEF Lineages
      <3>4. QED
        BY <1>3, <1>6, <1>7, <2>1, <3>2, <3>3
    <2>2. CASE ~ok
      <3>1. PICK l : l = [c EXCEPT !.dead = TRUE]
        OBVIOUS
      <3>2. l \in Lineages /\ l.gen = c.gen /\ l.dead
        BY <3>1 DEF Lineages
      <3>3. QED
        BY <1>6, <1>7, <2>2, <3>1, <3>2
    <2>3. QED
      BY <2>1, <2>2
  <1>11. /\ lineage' \in [PO!Logins -> Lineages] /\ lineage'[g] = l
         /\ \A h \in PO!Logins : h # g => lineage'[h] = lineage[h]
    BY <1>10, <1>t
  <1>12. asked' = [asked EXCEPT ![i] = {f}]
    BY <1>1, <1>7, <1>t
  <1>13. /\ asked' \in [Tabs -> SUBSET Asked] /\ asked'[i] = {f}
         /\ \A j \in Tabs : j # i => asked'[j] = asked[j]
    BY <1>5, <1>12, <1>t
  <1>14. PortalTypes'
    BY <1>7, <1>9, <1>11, <1>13, <1>t DEF PortalTypes
  <1>15. \A j \in Tabs : j # i => TabKept(j)
    BY <1>7, <1>13 DEF TabKept
  <1>16. TabSound(i)'
    BY <1>1, <1>2, <1>5, <1>7, <1>13, <1>t DEF TabSound, OneAsked, StateKept, OnItsWay
  <1>17. lineage'[g].gen >= 1 /\ (Whole(g)' => Whole(g) /\ ok)
    <2>1. l.gen >= 1
      BY <1>8, <1>10, PortalBounds
    <2>2. lineage'[g] = l /\ forked' = forked
      BY <1>7, <1>11
    <2>3. ~l.dead => ~lineage[g].dead /\ ok
      BY <1>10
    <2>4. QED
      BY <2>1, <2>2, <2>3 DEF Whole
  <1>18. AskedNewest(i)'
    BY <1>5, <1>8, <1>10, <1>11, <1>13, <1>17 DEF AskedNewest
  <1>19. CodeNewest(i)'
    <2> SUFFICES ASSUME page[i] = "callback" PROVE CodeNewest(i)'
      BY <1>7 DEF CodeNewest
    <2>1. url[i] = g /\ store[i].used = url[i]
      BY <1>2, <1>t DEF TabSound, OneAsked
    <2>2. QED
      BY <1>7, <1>17, <2>1 DEF CodeNewest
  <1>20. HeldNewest(i)'
    <2> SUFFICES ASSUME store[i].rt # None PROVE HeldNewest(i)'
      BY <1>7 DEF HeldNewest
    <2>1. PICK h \in PO!Logins : h = store[i].rt.of
      BY <1>t, PortalFacts DEF Stores
    <2>2. /\ lineage[h].gen >= 1
          /\ Whole(h) /\ (\A x \in asked[i] : x.of = h => x.reply # "ok") => store[i].rt.gen = lineage[h].gen
      BY <1>t, <2>1 DEF Newest, HeldNewest
    <2>3. CASE h = g
      BY <1>5, <1>7, <1>13, <1>17, <2>1, <2>3 DEF HeldNewest
    <2>4. CASE h # g
      <3>1. \A x \in asked[i] : x.of # h
        BY <1>1, <1>2, <2>4
      <3>2. lineage'[h] = lineage[h] /\ (Whole(h)' <=> Whole(h))
        BY <1>7, <1>11, <2>4 DEF Whole
      <3>3. QED
        BY <1>7, <2>1, <2>2, <3>1, <3>2 DEF HeldNewest
    <2>5. QED
      BY <2>3, <2>4
  <1>21. \A h : Holds(i, h)' => Holds(i, h)
    BY <1>1, <1>2, <1>5, <1>7, <1>13 DEF Holds, OnItsWay
  <1>22. g \notin forked => \A j \in Tabs : Holds(j, g) => j = i
    <2>1. Holds(i, g)
      BY <1>2 DEF Holds
    <2>2. QED
      BY <2>1 DEF PortalInv, OneHolder
  <1>23. lineage[g].dead => lineage'[g].dead
    BY <1>10, <1>11
  <1>24. QED
    BY <1>7, <1>9, <1>11, <1>14, <1>15, <1>16, <1>17, <1>18, <1>19, <1>20, <1>21, <1>22, <1>23,
       TokenStep
       DEF Newest

LEMMA PortalInvStep == PortalInv /\ PO!Next => PortalInv'
  <1> SUFFICES ASSUME PortalInv, PO!Next PROVE PortalInv'
    OBVIOUS
  <1>1. ASSUME NEW i \in Tabs,
               \/ PO!Open(i) \/ PO!Reload(i) \/ PO!Close(i) \/ PO!Leave(i) \/ PO!Authorize(i)
               \/ PO!HandleCallback(i) \/ PO!Refresh(i) \/ PO!Expire(i) \/ PO!Logout(i) \/ PO!Call(i)
        PROVE  PortalInv'
    BY <1>1, PortalOpen, PortalReload, PortalClose, PortalLeave, PortalAuthorize,
       PortalHandleCallback, PortalRefresh, PortalExpire, PortalLogout, PortalCall
  <1>2. ASSUME NEW i \in Tabs, NEW j \in Tabs, PO!Duplicate(i, j) PROVE PortalInv'
    BY <1>2, PortalDuplicate
  <1>3. ASSUME NEW i \in Tabs, NEW g \in PO!Logins, PO!Answer(i, g) PROVE PortalInv'
    BY <1>3, PortalAnswer
  <1>4. ASSUME NEW i \in Tabs, NEW e \in asked[i],
               PO!TokenEndpoint(i, e) \/ PO!TokenAnswer(i, e) \/ PO!TokenLost(i, e)
        PROVE  PortalInv'
    BY <1>4, PortalTokenEndpoint, PortalTokenAnswer, PortalTokenLost
  <1>5. QED
    BY <1>1, <1>2, <1>3, <1>4, PortalRevokeAll DEF PO!Next

LEMMA PortalInvKept == PortalInv /\ UNCHANGED portalVars => PortalInv'
  BY DEF portalVars, PortalInv, PortalTypes, TabSound, OneAsked, StateKept, OnItsWay, Newest,
     CodeNewest, HeldNewest, AskedNewest, Whole, Holds, OneHolder
-----------------------------------------------------------------------------
(* Signing keys. *)

LEMMA KeyBounds ==
  /\ TTL \in Nat /\ MaxAge \in Nat /\ MaxKeys \in Nat /\ MaxKeys >= 1 /\ 1 \in SK!Kids
  /\ SK!Kids = 1 .. MaxKeys /\ None \notin Nat /\ None \notin SK!Kids
  BY AccountAssumption DEF SK!Kids

LEMMA ListIsSeq ==
  ASSUME NEW n \in Nat, NEW s \in [1 .. n -> SK!Kids]
  PROVE  s \in Seq(SK!Kids) /\ Len(s) = n /\ DOMAIN s = 1 .. n
  OBVIOUS

LEMMA ListsAre ==
  ASSUME NEW s
  PROVE  s \in SK!Lists <=> s \in Seq(SK!Kids) /\ Len(s) <= MaxKeys
  <1>1. ASSUME s \in SK!Lists PROVE s \in Seq(SK!Kids) /\ Len(s) <= MaxKeys
    <2>1. PICK n \in 0 .. MaxKeys : s \in [1 .. n -> SK!Kids]
      BY <1>1 DEF SK!Lists
    <2>2. n \in Nat /\ n <= MaxKeys
      BY KeyBounds
    <2>3. QED
      BY <2>1, <2>2, ListIsSeq
  <1>2. ASSUME s \in Seq(SK!Kids), Len(s) <= MaxKeys PROVE s \in SK!Lists
    <2>1. Len(s) \in 0 .. MaxKeys /\ s \in [1 .. Len(s) -> SK!Kids]
      BY <1>2, LenProperties, KeyBounds
    <2>2. QED
      BY <2>1 DEF SK!Lists
  <1>3. QED
    BY <1>1, <1>2

Distinct(s) == \A i, j \in 1 .. Len(s) : s[i] = s[j] => i = j
KeysOf(s)   == {s[i] : i \in 1 .. Len(s)}

LEMMA ElemsAre == ASSUME NEW s \in Seq(SK!Kids) PROVE SK!Elems(s) = KeysOf(s)
  BY LenProperties DEF SK!Elems, KeysOf

\* What is left of a list without a key that is in it once at most.
LEMMA WithoutIs ==
  ASSUME NEW s \in Seq(SK!Kids), Distinct(s), NEW k
  PROVE  LET t == SK!Without(s, k) IN
         /\ t \in Seq(SK!Kids) /\ Distinct(t) /\ KeysOf(t) = KeysOf(s) \ {k}
         /\ k \in KeysOf(s) => Len(t) = Len(s) - 1 /\ Len(s) >= 1
         /\ k \notin KeysOf(s) => t = s
         /\ Len(s) >= 1 /\ k # s[1] => Len(t) >= 1 /\ t[1] = s[1]
  <1>1. CASE k \notin KeysOf(s)
    <2>1. SK!Without(s, k) = s
      BY <1>1, ElemsAre DEF SK!Without
    <2>2. QED
      BY <1>1, <2>1
  <1>2. CASE k \in KeysOf(s)
    <2>1. PICK p \in 1 .. Len(s) :
             /\ s[p] = k
             /\ SK!Without(s, k) = [i \in 1 .. Len(s) - 1 |-> IF i < p THEN s[i] ELSE s[i + 1]]
      <3> DEFINE p == CHOOSE p \in DOMAIN s : s[p] = k
      <3>1. DOMAIN s = 1 .. Len(s) /\ k \in SK!Elems(s)
        BY <1>2, LenProperties, ElemsAre
      <3>2. p \in DOMAIN s /\ s[p] = k
        BY <3>1, <1>2 DEF KeysOf
      <3>3. SK!Without(s, k) = [i \in 1 .. Len(s) - 1 |-> IF i < p THEN s[i] ELSE s[i + 1]]
        BY <3>1 DEF SK!Without
      <3> HIDE DEF p
      <3>4. QED
        BY <3>1, <3>2, <3>3
    <2>2. PICK t : t = SK!Without(s, k)
      OBVIOUS
    <2>3. Len(s) \in Nat /\ Len(s) >= 1 /\ Len(s) - 1 \in Nat /\ \A i \in 1 .. Len(s) : s[i] \in SK!Kids
      BY <2>1, LenProperties
    <2>4. t \in [1 .. Len(s) - 1 -> SK!Kids]
      BY <2>1, <2>2, <2>3
    <2>5. t \in Seq(SK!Kids) /\ Len(t) = Len(s) - 1
      BY <2>3, <2>4, ListIsSeq
    <2>6. \A i \in 1 .. Len(s) - 1 : t[i] = IF i < p THEN s[i] ELSE s[i + 1]
      BY <2>1, <2>2
    <2>7. Distinct(t)
      BY <2>1, <2>3, <2>5, <2>6 DEF Distinct
    <2>8. KeysOf(t) = KeysOf(s) \ {k}
      <3>1. ASSUME NEW x \in KeysOf(t) PROVE x \in KeysOf(s) /\ x # k
        <4>1. PICK i \in 1 .. Len(s) - 1 : x = t[i]
          BY <3>1, <2>5 DEF KeysOf
        <4>2. PICK j \in 1 .. Len(s) : x = s[j] /\ j # p
          BY <4>1, <2>1, <2>3, <2>6
        <4>3. QED
          BY <4>2, <2>1 DEF KeysOf, Distinct
      <3>2. ASSUME NEW x \in KeysOf(s), x # k PROVE x \in KeysOf(t)
        <4>1. PICK j \in 1 .. Len(s) : x = s[j] /\ j # p
          BY <3>2, <2>1 DEF KeysOf
        <4>2. PICK i \in 1 .. Len(s) - 1 : i = IF j < p THEN j ELSE j - 1
          BY <4>1, <2>1, <2>3
        <4>3. t[i] = x
          BY <4>1, <4>2, <2>1, <2>3, <2>6
        <4>4. QED
          BY <4>3, <2>5 DEF KeysOf
      <3>3. QED
        BY <3>1, <3>2
    <2>9. ASSUME k # s[1] PROVE Len(t) >= 1 /\ t[1] = s[1]
      BY <2>9, <2>1, <2>3, <2>5, <2>6
    <2>10. QED
      BY <1>2, <2>2, <2>3, <2>5, <2>7, <2>8, <2>9
  <1>3. QED
    BY <1>1, <1>2

FileInv ==
  /\ Len(file.keys) >= 1 /\ Len(file.keys) <= made /\ Distinct(file.keys)
  /\ \A k \in KeysOf(file.keys) : k <= made
\* What the procedure looks at is so.
MarksInv ==
  \A k \in SK!Kids :
    /\ shown[k] # None => /\ \A i \in Instances : SK!Up(i) => k \in KeysOf(loaded[i])
                          /\ shown[k] > jwks.age => k \in jwks.keys
    /\ (\E i \in Instances : SK!Up(i) /\ SK!Signer(i) = k) => silent[k] = None
\* A key that everybody can check, and who starts next as well.
Public(k) ==
  /\ k \in jwks.keys /\ k \in KeysOf(file.keys)
  /\ \A i \in Instances : SK!Up(i) => k \in KeysOf(loaded[i])
ProcedureKept ==
  /\ Public(file.keys[1]) /\ \A i \in Instances : SK!Up(i) => Public(SK!Signer(i))
  /\ token # None => /\ Public(token.kid)
                     /\ silent[token.kid] # None => silent[token.kid] <= token.age

KeysInv == SK!TypeOK /\ FileInv /\ MarksInv /\ (rushed \/ ProcedureKept)

LEMMA KeyTypes ==
  ASSUME SK!TypeOK
  PROVE  /\ file \in [keys: SK!Lists, plain: BOOLEAN, cut: BOOLEAN] /\ file.keys \in Seq(SK!Kids)
         /\ Len(file.keys) \in Nat /\ Len(file.keys) <= MaxKeys
         /\ made \in 1 .. MaxKeys /\ loaded \in [Instances -> SK!Lists]
         /\ \A i \in Instances : loaded[i] \in Seq(SK!Kids)
         /\ jwks \in [keys: SUBSET SK!Kids, age: 0 .. MaxAge] /\ half \in {0, 1}
         /\ token \in {None} \cup [kid: SK!Kids, age: 0 .. TTL]
         /\ cutoff \in 0 .. TTL + 1 \cup {None}
         /\ shown \in [SK!Kids -> 0 .. MaxAge + 1 \cup {None}]
         /\ silent \in [SK!Kids -> 0 .. TTL + 1 \cup {None}]
         /\ rushed \in BOOLEAN
  <1>1. file.keys \in SK!Lists /\ \A i \in Instances : loaded[i] \in SK!Lists
    BY DEF SK!TypeOK
  <1>2. file.keys \in Seq(SK!Kids) /\ Len(file.keys) <= MaxKeys
    BY <1>1, ListsAre
  <1>3. \A i \in Instances : loaded[i] \in Seq(SK!Kids)
    BY <1>1, ListsAre
  <1>4. Len(file.keys) \in Nat
    BY <1>2, LenProperties
  <1>5. QED
    BY <1>2, <1>3, <1>4, KeyBounds DEF SK!TypeOK

LEMMA UpHolds ==
  ASSUME SK!TypeOK, NEW i \in Instances, SK!Up(i)
  PROVE  /\ Len(loaded[i]) >= 1 /\ SK!Signer(i) = loaded[i][1] /\ SK!Signer(i) \in KeysOf(loaded[i])
         /\ KeysOf(loaded[i]) = SK!Elems(loaded[i]) /\ SK!Signer(i) \in SK!Kids
         /\ KeysOf(loaded[i]) \subseteq SK!Kids
  <1>1. loaded[i] \in Seq(SK!Kids) /\ loaded[i] # <<>>
    BY KeyTypes DEF SK!Up
  <1>2. Len(loaded[i]) >= 1 /\ Len(loaded[i]) \in Nat
    BY <1>1, EmptySeq, LenProperties
  <1>3. SK!Signer(i) = loaded[i][1]
    BY <1>1 DEF SK!Signer
  <1>4. \A j \in 1 .. Len(loaded[i]) : loaded[i][j] \in SK!Kids
    BY <1>1
  <1>5. QED
    BY <1>1, <1>2, <1>3, <1>4, ElemsAre DEF KeysOf

LEMMA KeysInvInit == SK!Init => KeysInv
  <1> SUFFICES ASSUME SK!Init PROVE KeysInv
    OBVIOUS
  <1>1. <<1>> \in Seq(SK!Kids) /\ Len(<<1>>) = 1 /\ Len(<<1>>) <= MaxKeys
    BY KeyBounds
  <1>2. <<1>> \in SK!Lists /\ KeysOf(<<1>>) = {1} /\ Distinct(<<1>>)
    <2>1. PICK s : s = <<1>>
      OBVIOUS
    <2>2. s \in Seq(SK!Kids) /\ Len(s) = 1 /\ s[1] = 1
      BY <1>1, <2>1
    <2>3. s \in SK!Lists /\ KeysOf(s) = {1} /\ Distinct(s)
      <3>1. s \in SK!Lists
        BY <1>1, <2>1, <2>2, ListsAre
      <3>2. 1 .. Len(s) = {1}
        BY <2>2
      <3>3. KeysOf(s) = {1} /\ Distinct(s)
        BY <2>2, <3>2 DEF KeysOf, Distinct
      <3>4. QED
        BY <3>1, <3>3
    <2>4. QED
      BY <2>1, <2>3
  <1>3. /\ file.keys = <<1>> /\ file \in [keys: SK!Lists, plain: BOOLEAN, cut: BOOLEAN] /\ made = 1
        /\ loaded = [i \in Instances |-> <<1>>]
        /\ jwks = [keys |-> {1}, age |-> 0] /\ half = 0 /\ token = None /\ cutoff = None
        /\ shown = [k \in SK!Kids |-> IF k = 1 THEN 0 ELSE None]
        /\ silent = [k \in SK!Kids |-> IF k = 1 THEN None ELSE 0] /\ rushed = FALSE
    BY <1>2 DEF SK!Init
  <1>4. SK!TypeOK
    <2>1. loaded \in [Instances -> SK!Lists]
      BY <1>2, <1>3
    <2>2. jwks \in [keys: SUBSET SK!Kids, age: 0 .. MaxAge]
      BY <1>3, KeyBounds
    <2>3. shown \in [SK!Kids -> 0 .. MaxAge + 1 \cup {None}]
      BY <1>3, KeyBounds
    <2>4. silent \in [SK!Kids -> 0 .. TTL + 1 \cup {None}]
      BY <1>3, KeyBounds
    <2>5. QED
      BY <1>3, <2>1, <2>2, <2>3, <2>4, KeyBounds DEF SK!TypeOK
  <1>5. FileInv
    BY <1>1, <1>2, <1>3 DEF FileInv
  <1>6. \A i \in Instances : SK!Signer(i) = 1 /\ KeysOf(loaded[i]) = {1}
    BY <1>2, <1>3 DEF SK!Signer
  <1>7. MarksInv
    BY <1>3, <1>6, KeyBounds DEF MarksInv
  <1>8. ProcedureKept
    BY <1>1, <1>2, <1>3, <1>6 DEF ProcedureKept, Public
  <1>9. QED
    BY <1>4, <1>5, <1>7, <1>8 DEF KeysInv

\* The rounding of the two moments.
LEMMA Rounding ==
  ASSUME SK!TypeOK, token # None, cutoff # None
  PROVE  /\ token.age > cutoff /\ ~SK!CutOff =>
              SK!Second(token.age) = SK!Second(cutoff) /\ SK!Moment(cutoff) % 2 = 0
         /\ token.age <= cutoff /\ SK!CutOff =>
              SK!Second(token.age) = SK!Second(cutoff) /\ SK!Moment(cutoff) % 2 = 1
  <1>1. token.age \in 0 .. TTL /\ cutoff \in 0 .. TTL + 1 /\ half \in {0, 1}
    BY KeyTypes
  <1>2. PICK m \in Nat, n \in Nat : m = SK!Moment(token.age) /\ n = SK!Moment(cutoff)
    BY <1>1, KeyBounds DEF SK!Moment
  <1>3. token.age > cutoff <=> m < n
    BY <1>1, <1>2, KeyBounds DEF SK!Moment
  <1>4. token.age <= cutoff <=> m >= n
    BY <1>1, <1>2, KeyBounds DEF SK!Moment
  <1>5. SK!CutOff <=> m \div 2 < (n + 1) \div 2
    BY <1>2 DEF SK!CutOff, SK!Second, SK!Rounded
  <1>6. /\ m < n /\ ~(m \div 2 < (n + 1) \div 2) => m \div 2 = n \div 2 /\ n % 2 = 0
        /\ m >= n /\ m \div 2 < (n + 1) \div 2 => m \div 2 = n \div 2 /\ n % 2 = 1
    BY SMTT(30)
  <1>7. QED
    BY <1>2, <1>3, <1>4, <1>5, <1>6 DEF SK!Second

LEMMA KeysAreKnown == KeysInv => SK!VerdictHasCause
  <1> SUFFICES ASSUME KeysInv, token # None PROVE SK!VerdictHasCause
    BY DEF SK!VerdictHasCause
  <1>1. SK!TypeOK /\ (rushed \/ ProcedureKept)
    BY DEF KeysInv
  <1>2. rushed \/ (token.kid \in jwks.keys /\ \A i \in Instances : SK!Up(i) => SK!Checks(i))
    BY <1>1, UpHolds DEF ProcedureKept, Public, SK!Checks
  <1>3. QED
    BY <1>1, <1>2, Rounding DEF SK!VerdictHasCause

\* The lists of the instances change: some end, some hold what the file holds.
LEMMA MarkStep ==
  ASSUME KeysInv, NEW l \in [Instances -> SK!Lists], SK!Mark(l),
         \A i \in Instances : l[i] \in {<<>>, loaded[i], file.keys},
         file' \in [keys: SK!Lists, plain: BOOLEAN, cut: BOOLEAN], file'.keys = file.keys,
         UNCHANGED <<made, jwks, half, token, cutoff, rushed>>
  PROVE  KeysInv'
  <1> DEFINE everywhere(k) == /\ \E i \in Instances : l[i] # <<>>
                              /\ \A i \in Instances : l[i] # <<>> => k \in SK!Elems(l[i])
             signs(k) == \E i \in Instances : l[i] # <<>> /\ Head(l[i]) = k
  <1>t. SK!TypeOK /\ FileInv /\ MarksInv /\ (rushed \/ ProcedureKept)
    BY DEF KeysInv
  <1>1. loaded' = l
        /\ shown' = [k \in SK!Kids |-> IF ~everywhere(k) THEN None ELSE IF shown[k] = None THEN 0 ELSE shown[k]]
        /\ silent' = [k \in SK!Kids |-> IF signs(k) THEN None ELSE IF silent[k] = None THEN 0 ELSE silent[k]]
    <2>1. \A k : (/\ {i \in Instances : l[i] # <<>>} # {}
                  /\ \A i \in {j \in Instances : l[j] # <<>>} : k \in SK!Elems(l[i])) <=> everywhere(k)
      OBVIOUS
    <2>2. QED
      BY <2>1 DEF SK!Mark
  <1>2. \A i \in Instances : l[i] \in Seq(SK!Kids) /\ SK!Elems(l[i]) = KeysOf(l[i])
    BY ListsAre, ElemsAre
  <1>3. \A i \in Instances : (SK!Up(i)' <=> l[i] # <<>>) /\ SK!Signer(i)' = Head(l[i])
    BY <1>1 DEF SK!Up, SK!Signer
  <1>4. \A k \in SK!Kids : /\ shown[k] \in 0 .. MaxAge + 1 \cup {None}
                           /\ silent[k] \in 0 .. TTL + 1 \cup {None}
    BY <1>t, KeyTypes
  <1>5. SK!TypeOK'
    <2>1. shown' \in [SK!Kids -> 0 .. MaxAge + 1 \cup {None}]
      <3> HIDE DEF everywhere, signs
      <3>1. QED
        BY <1>1, <1>4, KeyBounds
    <2>2. silent' \in [SK!Kids -> 0 .. TTL + 1 \cup {None}]
      <3> HIDE DEF everywhere, signs
      <3>1. QED
        BY <1>1, <1>4, KeyBounds
    <2>3. QED
      BY <1>1, <1>t, <2>1, <2>2 DEF SK!TypeOK
  <1>6. FileInv'
    BY <1>t DEF FileInv
  <1>7. MarksInv'
    <2> SUFFICES ASSUME NEW k \in SK!Kids
                 PROVE  /\ shown'[k] # None => /\ \A i \in Instances : SK!Up(i)' => k \in KeysOf(loaded'[i])
                                               /\ shown'[k] > jwks'.age => k \in jwks'.keys
                        /\ (\E i \in Instances : SK!Up(i)' /\ SK!Signer(i)' = k) => silent'[k] = None
      BY DEF MarksInv
    <2>1. ASSUME shown'[k] # None
          PROVE  everywhere(k) /\ shown'[k] = IF shown[k] = None THEN 0 ELSE shown[k]
      BY <2>1, <1>1
    <2>2. ASSUME shown'[k] # None, shown'[k] > jwks'.age PROVE k \in jwks'.keys
      <3>1. jwks' = jwks /\ jwks.age \in Nat
        BY <1>t, KeyTypes, KeyBounds
      <3>2. shown[k] # None /\ shown[k] > jwks.age
        BY <2>1, <2>2, <3>1
      <3>3. QED
        BY <3>1, <3>2, <1>t DEF MarksInv
    <2>3. ASSUME shown'[k] # None, NEW i \in Instances, SK!Up(i)' PROVE k \in KeysOf(loaded'[i])
      BY <2>1, <2>3, <1>1, <1>2, <1>3
    <2>4. ASSUME NEW i \in Instances, SK!Up(i)', SK!Signer(i)' = k PROVE silent'[k] = None
      BY <2>4, <1>1, <1>3
    <2>5. QED
      BY <2>2, <2>3, <2>4
  <1> HIDE DEF everywhere
  <1>8. ASSUME ProcedureKept PROVE ProcedureKept'
    <2>1. ASSUME NEW k, Public(k) PROVE Public(k)'
      <3>1. ASSUME NEW i \in Instances, SK!Up(i)' PROVE k \in KeysOf(l[i])
        BY <2>1, <3>1, <1>3 DEF Public, SK!Up
      <3>2. QED
        BY <2>1, <3>1, <1>1 DEF Public
    <2>2. Public(file.keys[1])'
      BY <1>8, <2>1 DEF ProcedureKept, Public
    <2>3. ASSUME NEW i \in Instances, SK!Up(i)' PROVE Public(SK!Signer(i))'
      <3>1. l[i] # <<>> /\ SK!Signer(i)' = l[i][1] /\ l[i] \in {loaded[i], file.keys}
        BY <2>3, <1>2, <1>3
      <3>2. CASE l[i] = file.keys
        BY <2>2, <3>1, <3>2 DEF Public
      <3>3. CASE l[i] = loaded[i]
        <4>1. SK!Up(i) /\ SK!Signer(i) = l[i][1]
          BY <3>1, <3>3, <1>t, UpHolds DEF SK!Up
        <4>2. PICK k : k = l[i][1]
          OBVIOUS
        <4>3. Public(k)'
          BY <2>1, <4>1, <4>2, <1>8 DEF ProcedureKept
        <4>4. QED
          BY <3>1, <4>2, <4>3 DEF Public
      <3>4. QED
        BY <3>1, <3>2, <3>3
    <2>4. ASSUME token' # None
          PROVE  Public(token.kid)' /\ (silent'[token'.kid] # None => silent'[token'.kid] <= token'.age)
      <3>1. token' = token /\ token \in [kid: SK!Kids, age: 0 .. TTL]
        BY <2>4, <1>t, KeyTypes
      <3>2. PICK k \in SK!Kids : k = token.kid
        BY <3>1
      <3>3. Public(k)' /\ (silent[k] # None => silent[k] <= token.age)
        BY <2>1, <3>1, <3>2, <2>4, <1>8 DEF ProcedureKept
      <3>4. silent'[k] # None => silent'[k] <= token.age
        BY <3>1, <3>3, <1>1, <1>4, KeyBounds
      <3>5. QED
        BY <3>1, <3>2, <3>3, <3>4 DEF Public
    <2>5. QED
      BY <2>2, <2>3, <2>4 DEF ProcedureKept
  <1>9. QED
    BY <1>5, <1>6, <1>7, <1>8, <1>t DEF KeysInv

\* The list a command writes.
LEMMA ChangedIs ==
  ASSUME SK!TypeOK, FileInv, NEW cmd \in SK!Commands, NEW k \in SK!Kids,
         cmd \in {"add", "emergency"} => made < MaxKeys,
         cmd \in {"promote", "retire"} => k \in KeysOf(file.keys),
         cmd = "retire" => k # file.keys[1]
  PROVE  LET s == SK!Changed(cmd, file.keys, k)
             n == IF cmd \in {"add", "emergency"} THEN made + 1 ELSE made
         IN /\ s \in SK!Lists /\ n \in SK!Kids
            /\ Len(s) >= 1 /\ Len(s) <= n /\ Distinct(s) /\ \A x \in KeysOf(s) : x <= n
            /\ cmd # "emergency" => \A x \in KeysOf(file.keys) : (x = k /\ cmd = "retire") \/ x \in KeysOf(s)
            /\ cmd \in {"add", "retire"} => s[1] = file.keys[1]
            /\ cmd = "promote" => s[1] = k
  <1> DEFINE keys == file.keys  w == SK!Without(keys, k)
  <1>1. keys \in Seq(SK!Kids) /\ Len(keys) \in Nat /\ Len(keys) >= 1 /\ Len(keys) <= made
        /\ Distinct(keys) /\ (\A x \in KeysOf(keys) : x <= made) /\ made \in 1 .. MaxKeys
        /\ (\A i \in 1 .. Len(keys) : keys[i] \in SK!Kids) /\ KeysOf(keys) \subseteq SK!Kids
    <2>1. \A i \in 1 .. Len(keys) : keys[i] \in SK!Kids
      BY KeyTypes
    <2>2. KeysOf(keys) \subseteq SK!Kids
      BY <2>1 DEF KeysOf
    <2>3. QED
      BY <2>1, <2>2, KeyTypes DEF FileInv
  <1>2. /\ w \in Seq(SK!Kids) /\ Distinct(w) /\ KeysOf(w) = KeysOf(keys) \ {k}
        /\ k \in KeysOf(keys) => Len(w) = Len(keys) - 1
        /\ k \notin KeysOf(keys) => w = keys
        /\ k # keys[1] => Len(w) >= 1 /\ w[1] = keys[1]
    BY <1>1, WithoutIs
  <1>3. Len(w) \in Nat /\ \A i \in 1 .. Len(w) : w[i] \in KeysOf(w)
    BY <1>2, LenProperties DEF KeysOf
  <1> HIDE DEF w
  <1>4. ASSUME NEW h \in SK!Kids, h \notin KeysOf(w), NEW n \in 1 .. MaxKeys, h <= n, made <= n,
               Len(w) + 1 <= n, NEW s, s = <<h>> \o w
        PROVE  /\ s \in SK!Lists /\ Len(s) >= 1 /\ Len(s) <= n /\ Distinct(s)
               /\ s[1] = h /\ KeysOf(s) = {h} \cup KeysOf(w) /\ \A x \in KeysOf(s) : x <= n
    <2>1. <<h>> \in Seq(SK!Kids) /\ Len(<<h>>) = 1 /\ <<h>>[1] = h
      OBVIOUS
    <2>2. /\ s \in Seq(SK!Kids) /\ Len(s) = 1 + Len(w)
          /\ \A i \in 1 .. 1 + Len(w) : s[i] = IF i <= 1 THEN <<h>>[i] ELSE w[i - 1]
      BY <2>1, <1>2, <1>4, ConcatProperties
    <2>3. s[1] = h /\ \A i \in 1 .. Len(w) : s[i + 1] = w[i]
      <3>1. s[1] = h
        BY <2>1, <2>2, <1>3
      <3>2. ASSUME NEW i \in 1 .. Len(w) PROVE s[i + 1] = w[i]
        <4>1. i + 1 \in 1 .. 1 + Len(w) /\ ~(i + 1 <= 1) /\ (i + 1) - 1 = i
          BY <1>3
        <4>2. QED
          BY <2>2, <4>1
      <3>3. QED
        BY <3>1, <3>2
    <2>4. \A i \in 1 .. Len(s) : i = 1 \/ (i - 1 \in 1 .. Len(w) /\ s[i] = w[i - 1])
      BY <2>1, <2>2, <1>3
    <2>5. KeysOf(s) = {h} \cup KeysOf(w)
      <3>1. ASSUME NEW x \in KeysOf(s) PROVE x = h \/ x \in KeysOf(w)
        <4>1. PICK i \in 1 .. Len(s) : x = s[i]
          BY <3>1 DEF KeysOf
        <4>2. QED
          BY <4>1, <2>3, <2>4, <1>3
      <3>2. h \in KeysOf(s)
        BY <2>2, <2>3, <1>3 DEF KeysOf
      <3>3. ASSUME NEW x \in KeysOf(w) PROVE x \in KeysOf(s)
        <4>1. PICK i \in 1 .. Len(w) : x = w[i]
          BY <3>3 DEF KeysOf
        <4>2. x = s[i + 1] /\ i + 1 \in 1 .. Len(s)
          BY <4>1, <2>2, <2>3, <1>3
        <4>3. QED
          BY <4>2 DEF KeysOf
      <3>4. QED
        BY <3>1, <3>2, <3>3
    <2>6. Distinct(s)
      <3> SUFFICES ASSUME NEW i \in 1 .. Len(s), NEW j \in 1 .. Len(s), s[i] = s[j] PROVE i = j
        BY DEF Distinct
      <3>1. CASE i = 1 \/ j = 1
        BY <3>1, <2>2, <2>3, <2>4, <1>3, <1>4
      <3>2. CASE i # 1 /\ j # 1
        <4>1. i - 1 \in 1 .. Len(w) /\ j - 1 \in 1 .. Len(w) /\ w[i - 1] = w[j - 1]
          BY <3>2, <2>4
        <4>2. i - 1 = j - 1
          BY <4>1, <1>2 DEF Distinct
        <4>3. QED
          BY <4>2, <2>2, <1>3
      <3>3. QED
        BY <3>1, <3>2
    <2>7. s \in SK!Lists
      <3>1. Len(s) <= MaxKeys
        BY <2>2, <1>3, <1>4, KeyBounds
      <3>2. QED
        BY <2>2, <3>1, ListsAre
    <2>8. \A x \in KeysOf(s) : x <= n
      BY <2>5, <1>1, <1>2, <1>4, KeyBounds
    <2>9. QED
      BY <2>2, <2>3, <2>5, <2>6, <2>7, <2>8, <1>3, <1>4
  <1>5. PICK s : s = SK!Changed(cmd, keys, k)
    OBVIOUS
  <1> HIDE DEF keys
  <1>6. CASE cmd = "add"
    <2>1. s = Append(keys, made + 1) /\ made + 1 \in SK!Kids /\ made + 1 \in 1 .. MaxKeys
      BY <1>1, <1>5, <1>6, KeyBounds DEF SK!Changed
    <2>2. s \in Seq(SK!Kids) /\ Len(s) = Len(keys) + 1 /\ s[Len(keys) + 1] = made + 1
          /\ \A i \in 1 .. Len(keys) : s[i] = keys[i]
      BY <1>1, <2>1, AppendProperties
    <2>3. s \in SK!Lists
      <3>1. Len(s) <= MaxKeys
        BY <2>1, <2>2, <1>1, KeyBounds
      <3>2. QED
        BY <2>2, <3>1, ListsAre
    <2>4. \A i \in 1 .. Len(s) : (i \in 1 .. Len(keys) /\ s[i] = keys[i] /\ s[i] <= made) \/ (i = Len(keys) + 1 /\ s[i] = made + 1)
      BY <2>2, <1>1 DEF KeysOf
    <2>5. Distinct(s)
      BY <2>2, <2>4, <1>1 DEF Distinct
    <2>6. \A x \in KeysOf(s) : x <= made + 1
      <3> SUFFICES ASSUME NEW i \in 1 .. Len(s) PROVE s[i] <= made + 1
        BY DEF KeysOf
      <3>1. CASE i \in 1 .. Len(keys)
        BY <3>1, <2>2, <2>4, <1>1, KeyBounds
      <3>2. CASE i = Len(keys) + 1
        BY <3>2, <2>2, <1>1, KeyBounds
      <3>3. QED
        BY <2>4, <3>1, <3>2
    <2>7. KeysOf(keys) \subseteq KeysOf(s)
      BY <2>2, <1>1 DEF KeysOf
    <2>8. QED
      BY <1>1, <1>5, <1>6, <2>1, <2>2, <2>3, <2>5, <2>6, <2>7 DEF keys
  <1>7. CASE cmd = "promote"
    <2>1. s = <<k>> \o w /\ k \in KeysOf(keys) /\ k <= made
      BY <1>1, <1>5, <1>7 DEF SK!Changed, w, keys
    <2>2. Len(w) + 1 <= made /\ k \notin KeysOf(w) /\ made <= made
      BY <2>1, <1>1, <1>2, <1>3
    <2>3. /\ s \in SK!Lists /\ Len(s) >= 1 /\ Len(s) <= made /\ Distinct(s)
          /\ s[1] = k /\ KeysOf(s) = {k} \cup KeysOf(w) /\ \A x \in KeysOf(s) : x <= made
      BY <2>1, <2>2, <1>1, <1>4
    <2>4. QED
      BY <2>1, <2>3, <1>1, <1>2, <1>5, <1>7, KeyBounds DEF keys
  <1>8. CASE cmd = "retire"
    <2>1. s = w /\ k \in KeysOf(keys) /\ k # keys[1]
      BY <1>5, <1>8 DEF SK!Changed, w, keys
    <2>2. Len(w) <= made /\ Len(w) <= MaxKeys
      BY <2>1, <1>1, <1>2, <1>3, KeyBounds
    <2>3. s \in SK!Lists
      BY <2>1, <2>2, <1>2, ListsAre
    <2>4. QED
      BY <2>1, <2>2, <2>3, <1>1, <1>2, <1>5, <1>8, KeyBounds DEF keys
  <1>9. CASE cmd = "emergency"
    <2>1. s = <<made + 1>> \o w /\ made + 1 \in SK!Kids /\ made + 1 \in 1 .. MaxKeys
      BY <1>1, <1>5, <1>9, KeyBounds DEF SK!Changed, w, keys
    <2>2. Len(w) + 1 <= made + 1 /\ made <= made + 1 /\ made + 1 <= made + 1 /\ made + 1 \notin KeysOf(w)
      BY <1>1, <1>2, <1>3, KeyBounds
    <2>3. /\ s \in SK!Lists /\ Len(s) >= 1 /\ Len(s) <= made + 1 /\ Distinct(s)
          /\ \A x \in KeysOf(s) : x <= made + 1
      BY <2>1, <2>2, <1>4
    <2>4. QED
      BY <2>1, <2>3, <1>5, <1>9 DEF keys
  <1>10. QED
    BY <1>6, <1>7, <1>8, <1>9 DEF SK!Commands

LEMMA KeysInvStep == KeysInv /\ SK!Next => KeysInv'
  <1> SUFFICES ASSUME KeysInv, SK!Next PROVE KeysInv'
    OBVIOUS
  <1>t. SK!TypeOK /\ FileInv /\ MarksInv /\ (rushed \/ ProcedureKept)
    BY DEF KeysInv
  <1>k. /\ file \in [keys: SK!Lists, plain: BOOLEAN, cut: BOOLEAN]
        /\ loaded \in [Instances -> SK!Lists] /\ made \in 1 .. MaxKeys
        /\ jwks \in [keys: SUBSET SK!Kids, age: 0 .. MaxAge] /\ half \in {0, 1}
        /\ token \in {None} \cup [kid: SK!Kids, age: 0 .. TTL] /\ cutoff \in 0 .. TTL + 1 \cup {None}
        /\ shown \in [SK!Kids -> 0 .. MaxAge + 1 \cup {None}]
        /\ silent \in [SK!Kids -> 0 .. TTL + 1 \cup {None}] /\ rushed \in BOOLEAN
    BY <1>t, KeyTypes
  <1>m. None \notin 0 .. MaxAge + 1 /\ None \notin 0 .. TTL + 1 /\ None \notin [kid: SK!Kids, age: 0 .. TTL]
    BY AccountAssumption DEF SK!Kids
  <1>1. ASSUME NEW i \in Instances, SK!Stop(i) PROVE KeysInv'
    <2>1. PICK l \in [Instances -> SK!Lists] :
             SK!Mark(l) /\ \A j \in Instances : l[j] \in {<<>>, loaded[j], file.keys}
      <3> DEFINE l == [loaded EXCEPT ![i] = <<>>]
      <3>1. <<>> \in SK!Lists
        <4>1. <<>> \in Seq(SK!Kids) /\ Len(<<>>) = 0
          OBVIOUS
        <4>2. Len(<<>>) <= MaxKeys
          BY <4>1, KeyBounds
        <4>3. QED
          BY <4>1, <4>2, ListsAre
      <3>2. l \in [Instances -> SK!Lists] /\ \A j \in Instances : l[j] \in {<<>>, loaded[j], file.keys}
        BY <3>1, <1>k
      <3>3. SK!Mark(l)
        BY <1>1 DEF SK!Stop
      <3> HIDE DEF l
      <3>4. QED
        BY <3>2, <3>3
    <2>2. UNCHANGED <<file, made, jwks, half, token, cutoff, rushed>>
      BY <1>1 DEF SK!Stop
    <2>3. QED
      BY <2>1, <2>2, <1>k, MarkStep
  <1>2. ASSUME NEW i \in Instances, SK!Start(i) PROVE KeysInv'
    <2>1. PICK l \in [Instances -> SK!Lists] :
             SK!Mark(l) /\ \A j \in Instances : l[j] \in {<<>>, loaded[j], file.keys}
      <3> DEFINE l == [loaded EXCEPT ![i] = file.keys]
      <3>1. l \in [Instances -> SK!Lists] /\ \A j \in Instances : l[j] \in {<<>>, loaded[j], file.keys}
        BY <1>k
      <3>2. SK!Mark(l)
        BY <1>2 DEF SK!Start
      <3> HIDE DEF l
      <3>3. QED
        BY <3>1, <3>2
    <2>2. UNCHANGED <<made, jwks, half, token, cutoff, rushed>>
          /\ file' \in [keys: SK!Lists, plain: BOOLEAN, cut: BOOLEAN] /\ file'.keys = file.keys
      BY <1>2, <1>k DEF SK!Start
    <2>3. QED
      BY <2>1, <2>2, MarkStep
  <1>3. ASSUME NEW i \in Instances, SK!StartCutOff(i) PROVE KeysInv'
    <2>1. file' \in [keys: SK!Lists, plain: BOOLEAN, cut: BOOLEAN] /\ file'.keys = file.keys
          /\ UNCHANGED <<made, loaded, jwks, half, token, cutoff, shown, silent, rushed>>
      BY <1>3, <1>k DEF SK!StartCutOff
    <2>2. SK!TypeOK'
      BY <2>1, <1>t DEF SK!TypeOK
    <2>3. FileInv' /\ MarksInv' /\ (rushed' \/ ProcedureKept')
      BY <2>1, <1>t DEF FileInv, MarksInv, ProcedureKept, Public, SK!Up, SK!Signer
    <2>4. QED
      BY <2>2, <2>3 DEF KeysInv
  <1>4. ASSUME NEW i \in Instances, SK!Issue(i) PROVE KeysInv'
    <2>1. SK!Up(i) /\ token' = [kid |-> SK!Signer(i), age |-> 0]
          /\ UNCHANGED <<file, made, loaded, jwks, half, cutoff, shown, silent, rushed>>
      BY <1>4 DEF SK!Issue
    <2>2. PICK k \in SK!Kids : k = SK!Signer(i)
      BY <2>1, <1>t, UpHolds
    <2>3. token' \in [kid: SK!Kids, age: 0 .. TTL] /\ token'.kid = k
      BY <2>1, <2>2, KeyBounds
    <2>4. SK!TypeOK'
      BY <2>1, <2>3, <1>t DEF SK!TypeOK
    <2>5. silent[k] = None
      BY <2>1, <2>2, <1>t DEF MarksInv
    <2>6. FileInv' /\ MarksInv'
      BY <2>1, <1>t DEF FileInv, MarksInv, SK!Up, SK!Signer
    <2>7. ASSUME ProcedureKept PROVE ProcedureKept'
      BY <2>1, <2>2, <2>3, <2>5, <2>7 DEF ProcedureKept, Public, SK!Up, SK!Signer
    <2>8. QED
      BY <2>1, <2>4, <2>6, <2>7, <1>t DEF KeysInv
  <1>5. ASSUME NEW cmd \in SK!Commands, NEW k \in SK!Kids, SK!Command(cmd, k) PROVE KeysInv'
    <2>1. PICK s, n : /\ s = SK!Changed(cmd, file.keys, k)
                      /\ n = IF cmd \in {"add", "emergency"} THEN made + 1 ELSE made
      OBVIOUS
    <2>2. /\ cmd \in {"add", "emergency"} => made < MaxKeys
          /\ cmd \in {"promote", "retire"} => k \in KeysOf(file.keys)
          /\ cmd = "retire" => k # file.keys[1]
      BY <1>5, <1>t, KeyTypes, ElemsAre DEF SK!Command
    <2>3. /\ s \in SK!Lists /\ n \in SK!Kids
          /\ Len(s) >= 1 /\ Len(s) <= n /\ Distinct(s) /\ \A x \in KeysOf(s) : x <= n
          /\ cmd # "emergency" => \A x \in KeysOf(file.keys) : (x = k /\ cmd = "retire") \/ x \in KeysOf(s)
          /\ cmd \in {"add", "retire"} => s[1] = file.keys[1]
          /\ cmd = "promote" => s[1] = k
      BY <2>1, <2>2, <1>t, ChangedIs
    <2>4. /\ file' = [keys |-> s, plain |-> FALSE, cut |-> FALSE] /\ made' = n
          /\ UNCHANGED <<loaded, jwks, half, token, cutoff, shown, silent>>
          /\ rushed' = (rushed \/ SK!TooEarly(cmd, k))
      BY <2>1, <1>5 DEF SK!Command
    <2>5. file' \in [keys: SK!Lists, plain: BOOLEAN, cut: BOOLEAN] /\ file'.keys = s
      BY <2>3, <2>4
    <2>6. rushed' \in BOOLEAN
      BY <2>4
    <2>7. SK!TypeOK'
      BY <2>3, <2>4, <2>5, <2>6, <1>t DEF SK!TypeOK
    <2>8. FileInv'
      BY <2>3, <2>4, <2>5 DEF FileInv
    <2>9. MarksInv'
      BY <2>4, <1>t DEF MarksInv, SK!Up, SK!Signer
    <2>10. ASSUME ~rushed' PROVE ProcedureKept'
      <3>1. ~SK!TooEarly(cmd, k) /\ ProcedureKept /\ cmd # "emergency"
        BY <2>10, <2>4, <1>t DEF SK!TooEarly
      <3>2. cmd = "promote" => /\ k \in jwks.keys
                               /\ \A i \in Instances : SK!Up(i) => k \in KeysOf(loaded[i])
        <4> SUFFICES ASSUME cmd = "promote"
                     PROVE  k \in jwks.keys /\ \A i \in Instances : SK!Up(i) => k \in KeysOf(loaded[i])
          OBVIOUS
        <4>1. shown[k] # None /\ shown[k] > MaxAge
          BY <3>1 DEF SK!TooEarly, SK!Waited
        <4>2. shown[k] > jwks.age
          BY <4>1, <1>k, KeyBounds
        <4>3. QED
          BY <4>1, <4>2, <1>t DEF MarksInv
      <3>3. cmd = "retire" => silent[k] # None /\ silent[k] > TTL
        BY <3>1 DEF SK!TooEarly, SK!Waited
      <3>4. ASSUME NEW x, Public(x), ~(x = k /\ cmd = "retire") PROVE Public(x)'
        BY <3>1, <3>4, <2>3, <2>4, <2>5 DEF Public, SK!Up
      <3>5. Public(file.keys[1])'
        <4>1. PICK x : x = s[1]
          OBVIOUS
        <4>2. Public(x)'
          <5>1. CASE cmd = "promote"
            <6>1. x = k /\ k \in KeysOf(s)
              BY <2>3, <4>1, <5>1, <2>2
            <6>2. QED
              BY <6>1, <5>1, <3>2, <2>4, <2>5 DEF Public, SK!Up
          <5>2. CASE cmd # "promote"
            <6>1. cmd \in {"add", "retire"}
              BY <3>1, <5>2 DEF SK!Commands
            <6>2. x = file.keys[1] /\ ~(x = k /\ cmd = "retire")
              BY <6>1, <2>2, <2>3, <4>1
            <6>3. QED
              BY <6>2, <3>1, <3>4 DEF ProcedureKept
          <5>3. QED
            BY <5>1, <5>2
        <4>3. QED
          BY <4>1, <4>2, <2>5 DEF Public
      <3>6. ASSUME NEW i \in Instances, SK!Up(i)' PROVE Public(SK!Signer(i))'
        <4>1. PICK x \in SK!Kids : x = SK!Signer(i)
          BY <3>6, <2>4, <1>t, UpHolds DEF SK!Up
        <4>2. silent[x] = None /\ Public(x)
          BY <3>1, <3>6, <2>4, <4>1, <1>t DEF MarksInv, ProcedureKept, SK!Up
        <4>3. Public(x)'
          BY <3>3, <3>4, <4>2
        <4>4. SK!Signer(i)' = x
          BY <2>4, <4>1 DEF SK!Signer
        <4>5. QED
          BY <4>3, <4>4 DEF Public
      <3>7. ASSUME token' # None
            PROVE  Public(token.kid)' /\ (silent'[token'.kid] # None => silent'[token'.kid] <= token'.age)
        <4>1. token' = token /\ token \in [kid: SK!Kids, age: 0 .. TTL]
          BY <3>7, <2>4, <1>k
        <4>2. PICK x \in SK!Kids : x = token.kid
          BY <4>1
        <4>3. Public(x) /\ (silent[x] # None => silent[x] <= token.age)
          BY <3>1, <3>7, <4>1, <4>2 DEF ProcedureKept
        <4>4. ~(x = k /\ cmd = "retire")
          BY <3>3, <4>1, <4>3, <1>k, KeyBounds
        <4>5. Public(x)'
          BY <3>4, <4>3, <4>4
        <4>6. QED
          BY <4>1, <4>2, <4>3, <4>5, <2>4 DEF Public
      <3>8. QED
        BY <3>5, <3>6, <3>7 DEF ProcedureKept
    <2>11. QED
      BY <2>7, <2>8, <2>9, <2>10 DEF KeysInv
  <1>6. CASE SK!Fetch
    <2>1. PICK i \in Instances : SK!Up(i) /\ jwks' = [keys |-> SK!Elems(loaded[i]), age |-> 0]
      BY <1>6 DEF SK!Fetch
    <2>2. UNCHANGED <<file, made, loaded, half, token, cutoff, shown, silent, rushed>>
      BY <1>6 DEF SK!Fetch
    <2>3. SK!Elems(loaded[i]) = KeysOf(loaded[i]) /\ KeysOf(loaded[i]) \subseteq SK!Kids
      BY <2>1, <1>t, UpHolds
    <2>4. jwks' \in [keys: SUBSET SK!Kids, age: 0 .. MaxAge] /\ jwks'.keys = KeysOf(loaded[i]) /\ jwks'.age = 0
      BY <2>1, <2>3, KeyBounds
    <2>5. SK!TypeOK'
      BY <2>2, <2>4, <1>t DEF SK!TypeOK
    <2>6. FileInv' /\ MarksInv'
      BY <2>1, <2>2, <2>4, <1>t DEF FileInv, MarksInv, SK!Up, SK!Signer
    <2>7. \A x : Public(x) => Public(x)'
      BY <2>1, <2>2, <2>4 DEF Public, SK!Up
    <2>8. ASSUME ProcedureKept PROVE ProcedureKept'
      BY <2>2, <2>7, <2>8 DEF ProcedureKept, Public, SK!Up, SK!Signer
    <2>9. QED
      BY <2>2, <2>5, <2>6, <2>8, <1>t DEF KeysInv
  <1>7. CASE SK!Tick
    <2>1. /\ jwks.age < MaxAge /\ half' = 1 - half
          /\ token' = IF token = None \/ token.age = TTL THEN None ELSE [token EXCEPT !.age = @ + 1]
          /\ cutoff' = IF cutoff = TTL + 1 THEN None ELSE SK!Older(cutoff, TTL + 1)
          /\ shown' = [k \in SK!Kids |-> SK!Older(shown[k], MaxAge + 1)]
          /\ silent' = [k \in SK!Kids |-> SK!Older(silent[k], TTL + 1)]
          /\ UNCHANGED <<file, made, loaded, rushed>>
      BY <1>7 DEF SK!Tick
    <2>2. jwks' \in [keys: SUBSET SK!Kids, age: 0 .. MaxAge] /\ jwks'.keys = jwks.keys /\ jwks'.age = jwks.age + 1
      <3>1. PICK c \in [keys: SUBSET SK!Kids, age: 0 .. MaxAge] : c = jwks
        BY <1>k
      <3>2. jwks' = [c EXCEPT !.age = @ + 1] /\ c.age < MaxAge
        BY <1>7, <2>1, <3>1 DEF SK!Tick
      <3>3. c.age + 1 \in 0 .. MaxAge
        BY <3>2, KeyBounds
      <3>4. [c EXCEPT !.age = @ + 1] = [keys |-> c.keys, age |-> c.age + 1]
        OBVIOUS
      <3>5. QED
        BY <3>1, <3>2, <3>3, <3>4
    <2>3. \A k \in SK!Kids :
             /\ shown'[k] = IF shown[k] = None \/ shown[k] = MaxAge + 1 THEN shown[k] ELSE shown[k] + 1
             /\ silent'[k] = IF silent[k] = None \/ silent[k] = TTL + 1 THEN silent[k] ELSE silent[k] + 1
      BY <2>1 DEF SK!Older
    <2>4. shown' \in [SK!Kids -> 0 .. MaxAge + 1 \cup {None}] /\ silent' \in [SK!Kids -> 0 .. TTL + 1 \cup {None}]
      <3>1. ASSUME NEW k \in SK!Kids PROVE shown'[k] \in 0 .. MaxAge + 1 \cup {None}
        <4>1. shown[k] \in 0 .. MaxAge + 1 \cup {None}
          BY <1>k
        <4>2. CASE shown[k] = None
          BY <4>2, <2>3
        <4>3. CASE shown[k] \in 0 .. MaxAge + 1 /\ shown[k] # None
          BY <4>3, <2>3, KeyBounds
        <4>4. QED
          BY <4>1, <4>2, <4>3
      <3>2. ASSUME NEW k \in SK!Kids PROVE silent'[k] \in 0 .. TTL + 1 \cup {None}
        <4>1. silent[k] \in 0 .. TTL + 1 \cup {None}
          BY <1>k
        <4>2. CASE silent[k] = None
          BY <4>2, <2>3
        <4>3. CASE silent[k] \in 0 .. TTL + 1 /\ silent[k] # None
          BY <4>3, <2>3, KeyBounds
        <4>4. QED
          BY <4>1, <4>2, <4>3
      <3>3. QED
        BY <2>1, <3>1, <3>2
    <2>5. cutoff' \in 0 .. TTL + 1 \cup {None} /\ half' \in {0, 1}
      BY <2>1, <1>k, KeyBounds DEF SK!Older
    <2>6. token' # None => /\ token \in [kid: SK!Kids, age: 0 .. TTL] /\ token.age # TTL
                           /\ token' \in [kid: SK!Kids, age: 0 .. TTL]
                           /\ token'.kid = token.kid /\ token'.age = token.age + 1
      <3> SUFFICES ASSUME token' # None
                   PROVE  /\ token \in [kid: SK!Kids, age: 0 .. TTL] /\ token.age # TTL
                          /\ token' \in [kid: SK!Kids, age: 0 .. TTL]
                          /\ token'.kid = token.kid /\ token'.age = token.age + 1
        OBVIOUS
      <3>1. token # None /\ token \in [kid: SK!Kids, age: 0 .. TTL]
        BY <2>1, <1>k
      <3>2. PICK c \in [kid: SK!Kids, age: 0 .. TTL] : c = token
        BY <3>1
      <3>3. token' = [c EXCEPT !.age = @ + 1] /\ c.age # TTL
        BY <2>1, <3>1, <3>2
      <3>4. c.age + 1 \in 0 .. TTL
        BY <3>3, KeyBounds
      <3>5. [c EXCEPT !.age = @ + 1] = [kid |-> c.kid, age |-> c.age + 1]
        OBVIOUS
      <3>6. QED
        BY <3>2, <3>3, <3>4, <3>5
    <2>7. SK!TypeOK'
      BY <2>1, <2>2, <2>4, <2>5, <2>6, <1>t DEF SK!TypeOK
    <2>8. FileInv'
      BY <2>1, <1>t DEF FileInv
    <2>9. MarksInv'
      <3> SUFFICES ASSUME NEW k \in SK!Kids
                   PROVE  /\ shown'[k] # None =>
                               /\ \A i \in Instances : SK!Up(i)' => k \in KeysOf(loaded'[i])
                               /\ shown'[k] > jwks'.age => k \in jwks'.keys
                          /\ (\E i \in Instances : SK!Up(i)' /\ SK!Signer(i)' = k) => silent'[k] = None
        BY DEF MarksInv
      <3>1. \A i \in Instances : (SK!Up(i)' <=> SK!Up(i)) /\ SK!Signer(i)' = SK!Signer(i)
        BY <2>1 DEF SK!Up, SK!Signer
      <3>2. (silent[k] = None => silent'[k] = None) /\ (shown'[k] # None => shown[k] # None)
        BY <2>3
      <3>3. shown'[k] # None /\ shown'[k] > jwks'.age => shown[k] > jwks.age
        BY <2>1, <2>2, <2>3, <1>k, KeyBounds
      <3>4. QED
        BY <2>1, <2>2, <3>1, <3>2, <3>3, <1>t DEF MarksInv
    <2>10. ASSUME ProcedureKept PROVE ProcedureKept'
      <3>1. ASSUME NEW x PROVE Public(x) => Public(x)'
        BY <2>1, <2>2 DEF Public, SK!Up
      <3>2. Public(file.keys[1])' /\ \A i \in Instances : SK!Up(i)' => Public(SK!Signer(i))'
        BY <2>1, <3>1, <2>10 DEF ProcedureKept, Public, SK!Up, SK!Signer
      <3>3. ASSUME token' # None
            PROVE  Public(token.kid)' /\ (silent'[token'.kid] # None => silent'[token'.kid] <= token'.age)
        <4>1. PICK x \in SK!Kids : x = token.kid /\ x = token'.kid
          BY <2>6, <3>3
        <4>2. Public(x) /\ (silent[x] # None => silent[x] <= token.age)
          BY <2>6, <3>3, <4>1, <2>10, <1>m DEF ProcedureKept
        <4>3. ASSUME silent'[x] # None PROVE silent'[x] <= token.age + 1
          <5>1. silent[x] # None /\ silent[x] \in 0 .. TTL + 1 /\ silent[x] <= token.age
            BY <2>3, <4>2, <4>3, <1>k
          <5>2. token.age \in 0 .. TTL
            BY <2>6, <3>3
          <5>3. silent'[x] = silent[x] \/ silent'[x] = silent[x] + 1
            BY <2>3
          <5>4. QED
            BY <5>1, <5>2, <5>3, KeyBounds
        <4>4. QED
          BY <2>6, <3>1, <3>3, <4>1, <4>2, <4>3 DEF Public
      <3>4. QED
        BY <3>2, <3>3 DEF ProcedureKept
    <2>11. QED
      BY <2>1, <2>7, <2>8, <2>9, <2>10, <1>t DEF KeysInv
  <1>8. CASE SK!RevokeTokens
    <2>1. cutoff' = 0 /\ UNCHANGED <<file, made, loaded, jwks, half, token, shown, silent, rushed>>
      BY <1>8 DEF SK!RevokeTokens
    <2>2. SK!TypeOK'
      BY <2>1, <1>t, KeyBounds DEF SK!TypeOK
    <2>3. FileInv' /\ MarksInv' /\ (rushed' \/ ProcedureKept')
      BY <2>1, <1>t DEF FileInv, MarksInv, ProcedureKept, Public, SK!Up, SK!Signer
    <2>4. QED
      BY <2>2, <2>3 DEF KeysInv
  <1>9. QED
    BY <1>1, <1>2, <1>3, <1>4, <1>5, <1>6, <1>7, <1>8 DEF SK!Next

LEMMA KeysInvKept == KeysInv /\ UNCHANGED keyVars => KeysInv'
  BY DEF keyVars, KeysInv, SK!TypeOK, FileInv, MarksInv, ProcedureKept, Public, SK!Up, SK!Signer
-----------------------------------------------------------------------------
(* A step is one of the machine the behaviour is about, or leaves it alone. *)

LEMMA SignInSteps ==
  ASSUME [AccountNext]_<<subject, factorVars, signInVars, linkVars, waitVars, portalVars, keyVars>>,
         subject = "signIn" => SignInInv
  PROVE  subject' = "signIn" => SignInInv'
  <1>1. subject' = subject
    BY DEF AccountNext, FactorAlone, SignInAlone, LinksAlone, WaitsAlone, PortalAlone, KeysAlone
  <1>3. ASSUME SignInInv, subject = "signIn" PROVE SignInInv'
    <2>1. \/ \E r \in Reqs : SI!Interaction(r) \/ SI!Passwords(r) \/ SI!Abort(r)
          \/ \E w \in results : SI!Resume(w)
          \/ SI!Tick \/ SI!Age \/ UNCHANGED signInVars
      BY <1>3 DEF AccountNext, On
    <2>2. ASSUME NEW r \in Reqs, SI!Interaction(r) \/ SI!Passwords(r) \/ SI!Abort(r) PROVE SignInInv'
      BY <1>3, <2>2, SignInInteraction, SignInPasswords, SignInAbort
    <2>3. ASSUME NEW w \in results, SI!Resume(w) PROVE SignInInv'
      BY <1>3, <2>3, SignInResume
    <2>4. QED
      BY <1>3, <2>1, <2>2, <2>3, SignInTick, SignInAge, SignInInvKept
  <1>4. QED
    BY <1>1, <1>3

LEMMA LinkSteps ==
  ASSUME [AccountNext]_<<subject, factorVars, signInVars, linkVars, waitVars, portalVars, keyVars>>,
         subject = "links" => LinkInv
  PROVE  subject' = "links" => LinkInv'
  <1>1. subject' = subject
    BY DEF AccountNext, FactorAlone, SignInAlone, LinksAlone, WaitsAlone, PortalAlone, KeysAlone
  <1>2. subject = "links" => RL!Next \/ UNCHANGED linkVars
    BY DEF AccountNext, On
  <1>3. QED
    BY <1>1, <1>2, LinkInvStep, LinkInvKept

LEMMA KeySteps ==
  KeysInv /\ [AccountNext]_<<subject, factorVars, signInVars, linkVars, waitVars, portalVars, keyVars>>
    => KeysInv'
  <1>1. AccountNext => SK!Next \/ UNCHANGED keyVars
    BY DEF AccountNext, FactorAlone, SignInAlone, LinksAlone, WaitsAlone, PortalAlone
  <1>2. QED
    BY <1>1, KeysInvStep, KeysInvKept

LEMMA PortalSteps ==
  PortalInv /\ [AccountNext]_<<subject, factorVars, signInVars, linkVars, waitVars, portalVars, keyVars>>
    => PortalInv'
  <1>1. AccountNext => PO!Next \/ UNCHANGED portalVars
    BY DEF AccountNext, FactorAlone, SignInAlone, LinksAlone, WaitsAlone, KeysAlone
  <1>2. QED
    BY <1>1, PortalInvStep, PortalInvKept

LEMMA WaitSteps ==
  ASSUME [AccountNext]_<<subject, factorVars, signInVars, linkVars, waitVars, portalVars, keyVars>>,
         subject = "waits" => WaitsInv
  PROVE  subject' = "waits" => WaitsInv'
  <1>1. subject' = subject
    BY DEF AccountNext, FactorAlone, SignInAlone, LinksAlone, WaitsAlone, PortalAlone, KeysAlone
  <1>2. subject = "waits" => BO!Next \/ UNCHANGED waitVars
    BY DEF AccountNext, On
  <1>3. QED
    BY <1>1, <1>2, WaitsInvStep, WaitsInvKept

LEMMA FactorSteps ==
  [AccountNext]_<<subject, factorVars, signInVars, linkVars, waitVars, portalVars, keyVars>> => [Next]_vars
  <1>1. AccountNext => Next \/ UNCHANGED vars
    BY DEF AccountNext, Next, SignInAlone, LinksAlone, WaitsAlone, PortalAlone, KeysAlone, factorVars
  <1>2. UNCHANGED <<subject, factorVars, signInVars, linkVars, waitVars, portalVars, keyVars>> => UNCHANGED vars
    BY DEF factorVars
  <1>3. QED
    BY <1>1, <1>2

\* What the account is never without.
AccountInv ==
  /\ TypeOK /\ RoomLeft
  /\ subject = "signIn" => SignInInv
  /\ subject = "links" => LinkInv
  /\ subject = "waits" => WaitsInv
  /\ PortalInv /\ KeysInv

LEMMA AccountInvariance == AccountSpec => []AccountInv
  <1>1. AccountInit => AccountInv
    BY TypeInit, RoomInit, SignInInvInit, LinkInvInit, WaitsInvInit, PortalInvInit, KeysInvInit
       DEF AccountInit, AccountInv
  <1>2. ASSUME AccountInv,
               [AccountNext]_<<subject, factorVars, signInVars, linkVars, waitVars, portalVars, keyVars>>
        PROVE  AccountInv'
    <2>1. subject' = subject
      BY <1>2 DEF AccountNext, FactorAlone, SignInAlone, LinksAlone, WaitsAlone, PortalAlone, KeysAlone
    <2>2. QED
      BY <1>2, <2>1, FactorSteps, TypeStep, RoomStep, SignInSteps, LinkSteps, WaitSteps, PortalSteps,
         KeySteps DEF AccountInv
  <1>3. QED
    BY <1>1, <1>2, PTL DEF AccountSpec

LEMMA SignInsAreSound == SignInInv => SI!SignInEarned /\ SI!OldSessionWasLate
  BY Times DEF SignInInv, ResultSound, Life, SI!SignInEarned, SI!NothingOwed, SI!CheckedRecently

\* Who changes a password has shown it, or it is not a break-glass account's.
LEMMA ChangesHaveProof ==
  ASSUME SignInInv, account'.pw # account.pw,
         \/ \E r \in Reqs : SI!Interaction(r) \/ SI!Passwords(r) \/ SI!Abort(r)
         \/ \E w \in results : SI!Resume(w)
         \/ SI!Tick \/ SI!Age \/ UNCHANGED signInVars
  PROVE  \E r \in Reqs : \/ req[r].at = "set" /\ req[r].proof.age <= TicketTTL
                         \/ req'[r].at = "keepOne"
                         \/ account.factor # "breakglass"
  <1>t. SI!TypeOK
    BY DEF SignInInv
  <1>a. account \in [pw: 0 .. MaxPw, must: BOOLEAN, factor: {"breakglass", "off", "required", "on"}]
    BY <1>t, SignInTypes
  <1>1. ASSUME account' = account PROVE FALSE
    BY <1>1
  <1>2. ~SI!Age
    <2>1. ASSUME SI!Age PROVE FALSE
      <3>1. account' = [account EXCEPT !.must = TRUE]
        BY <2>1 DEF SI!Age
      <3>2. account'.pw = account.pw
        BY <1>a, <3>1
      <3>3. QED
        BY <3>2
    <2>2. QED
      BY <2>1
  <1>3. ASSUME NEW r \in Reqs, SI!Enrol(r) PROVE FALSE
    <2>1. account' = [account EXCEPT !.factor = "on"]
      BY <1>3 DEF SI!Enrol
    <2>2. account'.pw = account.pw
      BY <1>a, <2>1
    <2>3. QED
      BY <2>2
  <1>4. PICK r \in Reqs : SI!Passwords(r)
    <2>1. \A w \in results : SI!Resume(w) => account' = account
      BY DEF SI!Resume
    <2>2. SI!Tick \/ UNCHANGED signInVars => account' = account
      BY DEF SI!Tick, signInVars
    <2>3. \A r \in Reqs : SI!Abort(r) => account' = account
      BY DEF SI!Abort
    <2>4. \A r \in Reqs : SI!Interaction(r) => account' = account \/ SI!Enrol(r)
      BY DEF SI!Interaction, SI!Validate, SI!Decide, SI!Finish, SI!TakeStep
    <2>5. QED
      BY <1>1, <1>2, <1>3, <2>1, <2>2, <2>3, <2>4
  <1>5. CASE SI!SetPassword(r)
    BY <1>5 DEF SI!SetPassword, SignInInv, LoginSound, Life
  <1>6. CASE SI!SelfChange(r)
    <2>1. PICK p : SI!Begin(r, "keepOne", p)
      BY <1>6 DEF SI!SelfChange
    <2>2. req \in [Reqs -> LoginTypes] /\ req' = [req EXCEPT ![r] = [SI!Idle EXCEPT !.at = "keepOne", !.proof = p]]
      BY <1>t, <2>1, SignInTypes DEF SI!Begin
    <2>3. [SI!Idle EXCEPT !.at = "keepOne", !.proof = p].at = "keepOne"
      BY IdleTyped DEF LoginTypes
    <2>4. req'[r].at = "keepOne"
      BY <2>2, <2>3
    <2>5. QED
      BY <2>4
  <1>7. CASE SI!AdminReset(r) \/ SI!Redeem(r)
    BY <1>7 DEF SI!AdminReset, SI!Redeem, SI!ManualPassword, SI!TemporaryPassword, SI!Breakglass
  <1>8. CASE SI!RevokeAll(r) \/ SI!RevokeOthers(r)
    BY <1>8, <1>1 DEF SI!RevokeAll, SI!RevokeOthers
  <1>9. QED
    BY <1>4, <1>5, <1>6, <1>7, <1>8 DEF SI!Passwords
-----------------------------------------------------------------------------
\* Whatever tickets a client keeps, chains or sends twice, a login result rests on a
\* password after which every step that was due then was taken, and which was shown not long ago
\* (interaction.controller resolveNext, postPasswordStep, requireStage).
THEOREM SignInsAreEarned == AccountSpec => []SignInEarned
  <1>1. AccountInv => SignInEarned
    BY SignInsAreSound DEF AccountInv, SignInEarned
  <1>2. QED
    BY <1>1, AccountInvariance, PTL

\* Once a password was changed and the sessions were revoked, a session of an older
\* password is one of a sign-in that was on its way (users.service, session-revocation).
THEOREM OldSessionsWereLate == AccountSpec => []OldSessionWasLate
  <1>1. AccountInv => OldSessionWasLate
    BY SignInsAreSound DEF AccountInv, OldSessionWasLate
  <1>2. QED
    BY <1>1, AccountInvariance, PTL

\* No step changes the password of a break-glass account but one of somebody who showed it
\* within the life of one ticket, or who is signed in and changes it alone (assertNotBreakglass,
\* setNewPassword, changeOwn).
THEOREM ChangesAreProved == AccountSpec => ChangeHasProof
  <1>1. ASSUME AccountInv,
               [AccountNext]_<<subject, factorVars, signInVars, linkVars, waitVars, portalVars, keyVars>>
        PROVE  [SI!ProvedChange]_(SI!vars)
    <2>1. CASE subject = "signIn"
      <3>1. \/ \E r \in Reqs : SI!Interaction(r) \/ SI!Passwords(r) \/ SI!Abort(r)
            \/ \E w \in results : SI!Resume(w)
            \/ SI!Tick \/ SI!Age \/ UNCHANGED signInVars
        BY <1>1, <2>1 DEF AccountNext, On
      <3>2. QED
        BY <1>1, <2>1, <3>1, ChangesHaveProof DEF AccountInv, SI!ProvedChange
    <2>2. CASE subject # "signIn"
      <3>1. UNCHANGED signInVars
        BY <1>1, <2>2 DEF AccountNext, On, FactorAlone, LinksAlone, WaitsAlone, PortalAlone, KeysAlone
      <3>2. QED
        BY <3>1 DEF signInVars, SI!vars
    <2>3. QED
      BY <2>1, <2>2
  <1>2. QED
    BY <1>1, AccountInvariance, PTL DEF AccountSpec, ChangeHasProof, SI!ChangeHasProof

\* In however many requests a link of a mailbox is sent, it sets the password once, and
\* one that a later request found there when it began is dead once that request has put in its own
\* (password-reset.service).
THEOREM LinksAreOnce == AccountSpec => []LinksSound
  <1>1. AccountInv => LinksSound
    BY LinksAreSound DEF AccountInv, LinksSound
  <1>2. QED
    BY <1>1, AccountInvariance, PTL

\* However many requests are let through together before any of them records its failure, a batch
\* further on the wait was waited, and once the delay is as long as the window one more batch is
\* all: of the failures at one account, and of the wrong passwords from one address, which wait
\* for whatever the address did wrong (rate-limit.service retryAfterSeconds, asked by submitLogin,
\* submitMfa and /oidc/token, and retryAfterSecondsByIp, asked by submitLogin alone).
THEOREM GuessesAreBounded == AccountSpec => []GuessesBounded
  <1>1. AccountInv => GuessesBounded
    BY WaitsAreSound DEF AccountInv, GuessesBounded
  <1>2. QED
    BY <1>1, AccountInvariance, PTL

\* However instances stop and start, unless an operator rushed the rotation every live
\* token can be checked by every instance that is up and by the application; and the cut-off errs
\* only within a second, in the half that rounding explains (rotate-keys, tokens_valid_from).
THEOREM VerdictsHaveCauses == AccountSpec => []VerdictHasCause
  <1>1. AccountInv => VerdictHasCause
    BY KeysAreKnown DEF AccountInv, VerdictHasCause
  <1>2. QED
    BY <1>1, AccountInvariance, PTL

\* However many calls of a tab run and fail together, nobody is sent to log in again but for
\* a lost answer, a duplicated tab or a state that a second 401 cleared (auth.ts).
THEOREM LoginsAreNeeded == AccountSpec => []NoNeedlessLogin
  <1>1. AccountInv => NoNeedlessLogin
    BY DEF AccountInv, PortalInv, NoNeedlessLogin, PO!NoNeedlessLogin
  <1>2. QED
    BY <1>1, AccountInvariance, PTL

\* Each of the six machines keeps its types, and unused recovery codes stay within what the
\* requests in flight may have put in (mfa.service regenerate).
THEOREM AccountTypes == AccountSpec => []AllTyped
  <1>1. AccountInv => AllTyped
    BY RoomIsEnough, PortalTyped DEF AccountInv, AllTyped, SignInInv, LinkInv, WaitsInv, KeysInv
  <1>2. QED
    BY <1>1, AccountInvariance, PTL
=============================================================================
