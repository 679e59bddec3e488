------------------------- MODULE MCAdministration_proofs -------------------------
(***************************************************************************)
(* Theorems about what administrators work on, for any number of requests   *)
(* at once and any people, clients, groups, departments and applications.   *)
(* The machines of MCAdministration share no variable, so that each has an  *)
(* inductive invariant of its own: every step of a behaviour is a step of   *)
(* that machine or leaves it alone (the lemmas called ...Steps).            *)
(***************************************************************************)
EXTENDS MCAdministration, TLAPS, FiniteSetTheorems, SequenceTheorems

-----------------------------------------------------------------------------
(* The administrators of the system themselves. *)

\* A request at work has an operation and a user it is about, and one that
\* removes a role was never let through for a break-glass account.
RequestOK(r) ==
  pc[r] # "idle" => /\ op[r] \in Ops /\ target[r] \in Users
                    /\ op[r] = "revokeSsa" => target[r] \notin Breakglass

RosterInv == TypeOK /\ BreakglassOperable /\ \A r \in Reqs : RequestOK(r)

LEMMA RosterInvInit == Init => RosterInv
  <1> SUFFICES ASSUME Init PROVE RosterInv
    OBVIOUS
  <1> DEFINE new == [status |-> "active", deleted |-> FALSE, expiry |-> "none"]
  <1>0. new \in Row
    BY DEF Row
  <1>1. new \in Row /\ new # None
    <2> HIDE DEF new
    <2>1. QED
      BY <1>0, RosterAssumption
  <1>2. new.status = "active" /\ ~new.deleted /\ new.expiry = "none"
    OBVIOUS
  <1>3. user = [u \in Users |-> new]
    BY DEF Init
  <1> HIDE DEF new
  <1>4. TypeOK
    BY RosterAssumption, <1>1, <1>3 DEF Init, TypeOK, Steps
  <1>5. BreakglassOperable
    BY RosterAssumption, <1>1, <1>2, <1>3 DEF Init, BreakglassOperable, Alive, Present
  <1>6. QED
    BY <1>4, <1>5 DEF Init, RosterInv, RequestOK

\* The UPDATE statements keep the rows well formed and spare the break-glass
\* account, because of their WHERE is_breakglass = false.
LEMMA UpdateSpares ==
  ASSUME TypeOK, NEW u \in Users, NEW where, NEW written,
         Visible(u) /\ where => written \in Row, Update(u, where, written)
  PROVE  /\ user' \in [Users -> Row \cup {None}]
         /\ \A v \in Breakglass : user'[v] = user[v]
         /\ ssa' = ssa
  BY RosterAssumption DEF TypeOK, Update, Visible

LEMMA WriteSpares ==
  ASSUME RosterInv, NEW r \in Reqs, Write(r)
  PROVE  /\ user' \in [Users -> Row \cup {None}] /\ ssa' \subseteq Users
         /\ \A v \in Breakglass : user'[v] = user[v] /\ (v \in ssa => v \in ssa')
  <1> DEFINE u == target[r]
  <1>1. /\ u \in Users
        /\ op[r] = "revokeSsa" => u \notin Breakglass
        /\ TypeOK /\ ssa \subseteq Users
    BY DEF RosterInv, RequestOK, Write, TypeOK
  <1> HIDE DEF u
  <1>2. Visible(u) => user[u] \in Row
    BY <1>1 DEF Visible, Present, TypeOK
  <1>3. ASSUME NEW where, NEW written, Visible(u) /\ where => written \in Row, Update(u, where, written)
        PROVE  /\ user' \in [Users -> Row \cup {None}] /\ ssa' \subseteq Users
               /\ \A v \in Breakglass : user'[v] = user[v] /\ (v \in ssa => v \in ssa')
    BY <1>1, <1>3, UpdateSpares
  <1>4. CASE SetStatus(u, "locked") \/ SetStatus(u, "active")
    <2>1. PICK s \in {"locked", "active"} : SetStatus(u, s)
      BY <1>4
    <2>2. Visible(u) => [user[u] EXCEPT !.status = s] \in Row
      BY <1>2 DEF Row
    <2>3. QED
      BY <1>3, <2>1, <2>2 DEF SetStatus
  <1>5. CASE SoftDelete(u)
    <2>1. Visible(u) => [user[u] EXCEPT !.deleted = TRUE] \in Row
      BY <1>2 DEF Row
    <2>2. QED
      BY <1>3, <1>5, <2>1 DEF SoftDelete
  <1>6. CASE SetExpiry(u, "ahead") \/ SetExpiry(u, "past") \/ SetExpiry(u, "none")
    <2>1. PICK e \in {"ahead", "past", "none"} : SetExpiry(u, e)
      BY <1>6
    <2>2. Visible(u) => [user[u] EXCEPT !.expiry = e] \in Row
      BY <1>2 DEF Row
    <2>3. QED
      BY <1>3, <2>1, <2>2 DEF SetExpiry
  <1>7. CASE Reactivate(u)
    <2>1. Visible(u) => [user[u] EXCEPT !.deleted = FALSE, !.status = "active"] \in Row
      BY <1>2 DEF Row
    <2>2. QED
      BY <1>3, <1>7, <2>1 DEF Reactivate
  <1>8. CASE HardDelete(u)
    <2>1. CASE Visible(u)
      <3>1. u \notin Breakglass /\ user' = [user EXCEPT ![u] = None] /\ ssa' = ssa \ {u}
        BY <1>8, <2>1 DEF HardDelete, Visible
      <3>2. QED
        BY <1>1, <3>1, RosterAssumption DEF TypeOK
    <2>2. CASE ~Visible(u)
      BY <1>1, <1>8, <2>2 DEF HardDelete, TypeOK
    <2>3. QED
      BY <2>1, <2>2
  <1>9. CASE GrantSsa(u)
    BY <1>1, <1>9 DEF GrantSsa, TypeOK
  <1>10. CASE op[r] = "revokeSsa" /\ RevokeSsa(u)
    BY <1>1, <1>10 DEF RevokeSsa, TypeOK
  <1>11. QED
    BY <1>4, <1>5, <1>6, <1>7, <1>8, <1>9, <1>10 DEF Write, u

LEMMA RosterInvStep == RosterInv /\ [Next]_vars => RosterInv'
  <1> SUFFICES ASSUME RosterInv, [Next]_vars PROVE RosterInv'
    OBVIOUS
  <1> USE RosterAssumption
  <1>0. TypeOK /\ BreakglassOperable
    BY DEF RosterInv
  <1>1. ASSUME user' \in [Users -> Row \cup {None}], ssa' \subseteq Users,
               \A v \in Breakglass : user'[v] = user[v] /\ (v \in ssa => v \in ssa')
        PROVE  BreakglassOperable'
    BY <1>0, <1>1 DEF BreakglassOperable, Alive, Present
  <1>2. ASSUME NEW r \in Reqs, Finish(r)
        PROVE  /\ pc' \in [Reqs -> Steps] /\ op' \in [Reqs -> Ops \cup {None}]
               /\ target' \in [Reqs -> Users \cup {None}]
               /\ seen' \in [Reqs -> SUBSET Users]
               /\ \A q \in Reqs : RequestOK(q)'
    BY <1>0, <1>2 DEF Finish, Goto, TypeOK, RosterInv, RequestOK, Steps
  <1>3. ASSUME NEW r \in Reqs, NEW step \in Steps, Goto(r, step), pc[r] # "idle",
               UNCHANGED <<op, target>>
        PROVE  /\ pc' \in [Reqs -> Steps]
               /\ \A q \in Reqs : RequestOK(q)'
    BY <1>0, <1>3 DEF Goto, TypeOK, RosterInv, RequestOK
  <1>4. ASSUME NEW r \in Reqs, NEW ok, NEW step \in Steps, pc[r] # "idle",
               GoOn(r, ok, step), UNCHANGED <<user, ssa>>
        PROVE  RosterInv'
    <2>1. /\ pc' \in [Reqs -> Steps] /\ op' \in [Reqs -> Ops \cup {None}]
          /\ target' \in [Reqs -> Users \cup {None}]
          /\ seen' \in [Reqs -> SUBSET Users]
          /\ \A q \in Reqs : RequestOK(q)'
      BY <1>0, <1>2, <1>3, <1>4 DEF GoOn, TypeOK
    <2>2. QED
      BY <1>0, <1>1, <1>4, <2>1 DEF RosterInv, TypeOK
  <1>5. ASSUME NEW r \in Reqs, NEW who \in Users, NEW u \in Users, NEW o \in Ops,
               Begin(r, who, o, u)
        PROVE  RosterInv'
    <2>1. FirstStep(o) \in Steps
      BY DEF FirstStep, Steps, Ops, Guarded
    <2>2. o = "revokeSsa" => u \notin Breakglass
      BY <1>5 DEF Begin, Admissible, Visible
    <2>3. /\ op' = [op EXCEPT ![r] = o] /\ target' = [target EXCEPT ![r] = u]
          /\ pc' = [pc EXCEPT ![r] = FirstStep(o)] /\ UNCHANGED <<user, ssa, seen>>
      BY <1>5 DEF Begin, Goto
    <2>4. TypeOK'
      BY <1>0, <2>1, <2>3 DEF TypeOK
    <2>5. \A q \in Reqs : RequestOK(q)'
      BY <1>0, <2>2, <2>3 DEF TypeOK, RosterInv, RequestOK
    <2>6. QED
      BY <1>0, <1>1, <2>3, <2>4, <2>5 DEF RosterInv, TypeOK
  <1>6. ASSUME NEW r \in Reqs, CheckRole(r) PROVE RosterInv'
    <2>1. PICK step \in Steps : Goto(r, step) /\ UNCHANGED <<user, ssa, op, target, seen>>
      BY <1>6 DEF CheckRole, AfterGuard, Steps
    <2>2. QED
      BY <1>0, <1>1, <1>3, <1>6, <2>1 DEF CheckRole, RosterInv, TypeOK
  <1>7. ASSUME NEW r \in Reqs, Count(r) PROVE RosterInv'
    <2>1. pc[r] # "idle" /\ UNCHANGED <<user, ssa>>
      BY <1>7 DEF Count
    <2>2. CASE Finish(r)
      BY <1>0, <1>1, <1>2, <2>1, <2>2 DEF RosterInv, TypeOK
    <2>3. CASE /\ seen' = [seen EXCEPT ![r] = Operable]
               /\ Goto(r, AfterGuard(r)) /\ UNCHANGED <<op, target>>
      <3>1. AfterGuard(r) \in Steps /\ Operable \subseteq Users
        BY <1>0 DEF AfterGuard, Steps, Operable, TypeOK
      <3>2. seen' \in [Reqs -> SUBSET Users]
        BY <1>0, <2>3, <3>1 DEF TypeOK
      <3>3. QED
        BY <1>0, <1>1, <1>3, <2>1, <2>3, <3>1, <3>2 DEF RosterInv, TypeOK
    <2>4. QED
      BY <1>7, <2>2, <2>3 DEF Count
  <1>8. ASSUME NEW r \in Reqs, Confirm(r) \/ HasRole(r) \/ CountRoles(r) PROVE RosterInv'
    <2>1. "write" \in Steps /\ "countRoles" \in Steps
      BY DEF Steps
    <2>2. QED
      BY <1>4, <1>8, <2>1 DEF Confirm, HasRole, CountRoles
  <1>9. ASSUME NEW r \in Reqs, Write(r) PROVE RosterInv'
    <2>1. Finish(r)
      BY <1>9 DEF Write
    <2>2. QED
      BY <1>1, <1>2, <1>9, <2>1, WriteSpares DEF RosterInv, TypeOK
  <1>10. ASSUME NEW r \in Reqs, Abort(r) PROVE RosterInv'
    BY <1>0, <1>1, <1>2, <1>10 DEF Abort, RosterInv, TypeOK
  <1>11. ASSUME NEW u \in Users, TimePasses(u) PROVE RosterInv'
    <2>1. [user[u] EXCEPT !.expiry = "past"] \in Row
      BY <1>0, <1>11 DEF TimePasses, Present, TypeOK, Row
    <2>2. user' = [user EXCEPT ![u] = [user[u] EXCEPT !.expiry = "past"]]
      BY <1>11 DEF TimePasses
    <2>3. u \notin Breakglass
      BY <1>0, <1>11 DEF TimePasses, BreakglassOperable
    <2>4. UNCHANGED <<ssa, pc, op, target, seen>>
      BY <1>11 DEF TimePasses
    <2>5. QED
      BY <1>0, <1>1, <2>1, <2>2, <2>3, <2>4 DEF RosterInv, TypeOK, RequestOK
  <1>12. CASE AutoLock
    <2>1. \A u \in Users : Alive(u) => [user[u] EXCEPT !.status = "locked"] \in Row
      BY <1>0 DEF Alive, Present, TypeOK, Row
    <2>2. user' \in [Users -> Row \cup {None}]
      BY <1>0, <1>12, <2>1 DEF AutoLock, TypeOK
    <2>3. \A v \in Breakglass : user'[v] = user[v]
      BY <1>0, <1>12 DEF AutoLock, BreakglassOperable
    <2>4. UNCHANGED <<ssa, pc, op, target, seen>>
      BY <1>12 DEF AutoLock
    <2>5. QED
      BY <1>0, <1>1, <2>2, <2>3, <2>4 DEF RosterInv, TypeOK, RequestOK
  <1>13. CASE UNCHANGED vars
    BY <1>13 DEF vars, RosterInv, TypeOK, BreakglassOperable, RequestOK, Alive, Present
  <1>14. QED
    BY <1>5, <1>6, <1>7, <1>8, <1>9, <1>10, <1>11, <1>12, <1>13 DEF Next, Request

LEMMA RosterInvariant == Spec => []RosterInv
  BY RosterInvInit, RosterInvStep, PTL DEF Spec

\* Every reachable roster is well formed.
THEOREM TypeCorrect == Spec => []TypeOK
  <1>1. RosterInv => TypeOK
    BY DEF RosterInv
  <1>2. QED
    BY <1>1, RosterInvariant, PTL

\* However many administrators work at once, and whatever the cron locks, the
\* break-glass account stays active, undeleted, unexpired and an administrator.
THEOREM EmergencyDoor == Spec => []BreakglassOperable
  <1>1. RosterInv => BreakglassOperable
    BY DEF RosterInv
  <1>2. QED
    BY <1>1, RosterInvariant, PTL
-----------------------------------------------------------------------------
(* What a request counted was never just one administrator, and its write   *)
(* takes away nobody but its target: so when the last one goes, what it had *)
(* counted was not the roster any more.                                     *)
SeenInv == \A r \in Reqs : seen[r] = {} \/ Cardinality(seen[r]) > 1

LEMMA SeenInvStep == TypeOK /\ SeenInv /\ [Next]_vars => SeenInv'
  <1> SUFFICES ASSUME TypeOK, SeenInv, [Next]_vars PROVE SeenInv'
    OBVIOUS
  <1>1. ASSUME NEW r \in Reqs, Finish(r) PROVE SeenInv'
    BY <1>1 DEF Finish, SeenInv, TypeOK
  <1>2. ASSUME NEW r \in Reqs, Count(r) PROVE SeenInv'
    BY <1>1, <1>2 DEF Count, EnoughLeft, SeenInv, TypeOK
  <1>3. CASE UNCHANGED seen
    BY <1>3 DEF SeenInv
  <1>4. ASSUME NEW r \in Reqs, Request(r) PROVE SeenInv'
    BY <1>1, <1>2, <1>3, <1>4
    DEF Request, Begin, CheckRole, Confirm, HasRole, CountRoles, GoOn, Write, Abort
  <1>5. QED
    BY <1>3, <1>4 DEF Next, TimePasses, AutoLock, vars

LEMMA WriteTakesOne ==
  ASSUME NEW r \in Reqs, Write(r), TypeOK
  PROVE  \A v \in Operable : v # target[r] => v \in Operable'
  <1> DEFINE u == target[r]
  <1>1. \A v \in Users : v # u => user'[v] = user[v] /\ (v \in ssa => v \in ssa')
    BY DEF Write, SetStatus, SoftDelete, SetExpiry, Reactivate, Update, HardDelete,
           GrantSsa, RevokeSsa, TypeOK
  <1>2. ssa \subseteq Users
    BY DEF TypeOK
  <1>3. QED
    BY <1>1, <1>2 DEF Operable, Alive, Present

LEMMA LastOperableStep ==
  ASSUME TypeOK, SeenInv, [Next]_vars, Operable # {}, Operable' = {}
  PROVE  \/ UNCHANGED pc
         \/ \E r \in Reqs : /\ pc[r] = "write" /\ pc'[r] = "idle"
                            /\ op[r] = "revokeSsa" \/ seen[r] # Operable
  <1>1. ASSUME NEW r \in Reqs, Write(r)
        PROVE  pc[r] = "write" /\ pc'[r] = "idle" /\ seen[r] # Operable
    <2>1. \A v \in Operable : v = target[r]
      BY <1>1, WriteTakesOne
    <2>2. Operable = {target[r]}
      BY <2>1
    <2>3. Cardinality(Operable) = 1
      BY <2>2, FS_Singleton
    <2>4. seen[r] # Operable
      BY <2>3 DEF SeenInv
    <2>5. QED
      BY <1>1, <2>4 DEF Write, Finish, Goto, TypeOK
  <1>2. UNCHANGED <<user, ssa>> => Operable' = Operable
    BY DEF Operable, Alive, Present
  <1>3. \A r \in Reqs : Request(r) => Write(r)
    BY <1>2 DEF Request, Begin, CheckRole, Count, Confirm, HasRole, CountRoles, Abort
  <1>4. QED
    BY <1>1, <1>3 DEF Next, TimePasses, AutoLock, vars

\* Lock, deletion and expiry are safe one at a time: the last operable
\* administrator is lost only to the cron, to the removal of a role, or to a
\* request whose count had become stale when it wrote.
THEOREM LastOperable == Spec => LastOperableLostToRace
  <1>1. Init => SeenInv
    BY DEF Init, SeenInv
  <1>2. Spec => [](RosterInv /\ SeenInv)
    <2>1. RosterInv => TypeOK
      BY DEF RosterInv
    <2>2. QED
      BY <1>1, <2>1, RosterInvInit, RosterInvStep, SeenInvStep, PTL DEF Spec
  <1>3. RosterInv /\ SeenInv /\ [Next]_vars =>
          [(Operable # {} /\ Operable' = {}) =>
             \/ UNCHANGED pc
             \/ \E r \in Reqs : /\ pc[r] = "write" /\ pc'[r] = "idle"
                                /\ op[r] = "revokeSsa" \/ seen[r] # Operable]_vars
    BY LastOperableStep DEF RosterInv
  <1>4. QED
    BY <1>2, <1>3, PTL DEF Spec, LastOperableLostToRace
-----------------------------------------------------------------------------
(* A request about to appoint somebody counted at most one administrator, and *)
(* none starts to while two are appointed: those appointed and those about to *)
(* be never outnumber the requests by more than one.                          *)
Granting == {r \in Reqs : pc[r] = "write" /\ op[r] = "grantSsa"}

CeilingInv ==
  /\ \A r \in Reqs : op[r] = "grantSsa" => pc[r] \in {"idle", "countRoles", "write"}
  /\ Cardinality(Appointed) + Cardinality(Granting) <= 1 + Cardinality(Reqs)

LEMMA RosterFinite ==
  ASSUME TypeOK
  PROVE  /\ IsFiniteSet(Appointed) /\ Cardinality(Appointed) \in Nat
         /\ IsFiniteSet(Granting) /\ Cardinality(Granting) \in Nat
         /\ Cardinality(Reqs) \in Nat /\ Cardinality(Granting) <= Cardinality(Reqs)
  <1>1. Appointed \subseteq Users /\ Granting \subseteq Reqs
    BY DEF TypeOK, Appointed, Granting
  <1>2. QED
    BY <1>1, RosterAssumption, FS_Subset, FS_CardinalityType

LEMMA CeilingShrinks ==
  ASSUME TypeOK, CeilingInv, Appointed' \subseteq Appointed, Granting' \subseteq Granting
  PROVE  Cardinality(Appointed)' + Cardinality(Granting)' <= 1 + Cardinality(Reqs)
  <1>1. /\ Cardinality(Appointed') \in Nat /\ Cardinality(Appointed') <= Cardinality(Appointed)
        /\ Cardinality(Granting') \in Nat /\ Cardinality(Granting') <= Cardinality(Granting)
    BY RosterFinite, FS_Subset, FS_CardinalityType
  <1>2. QED
    BY <1>1, RosterFinite DEF CeilingInv

LEMMA CeilingInvInit == Init => CeilingInv
  <1> SUFFICES ASSUME Init PROVE CeilingInv
    OBVIOUS
  <1>1. Appointed = Founders /\ Granting = {}
    BY RosterAssumption DEF Init, Appointed, Granting
  <1>2. Cardinality(Granting) = 0
    BY <1>1, FS_EmptySet
  <1>3. Cardinality(Founders) \in Nat /\ Cardinality(Founders) <= 2
    BY RosterAssumption, FS_Subset, FS_CardinalityType
  <1>4. Cardinality(Reqs) \in Nat /\ Cardinality(Reqs) # 0
    BY RosterAssumption, FS_CardinalityType, FS_EmptySet
  <1>5. QED
    BY <1>1, <1>2, <1>3, <1>4 DEF CeilingInv, Init

LEMMA CeilingInvStep == TypeOK /\ CeilingInv /\ [Next]_vars => CeilingInv'
  <1> SUFFICES ASSUME TypeOK, CeilingInv, [Next]_vars PROVE CeilingInv'
    OBVIOUS
  <1> DEFINE PathOK == \A r \in Reqs :
                 op[r] = "grantSsa" => pc[r] \in {"idle", "countRoles", "write"}
  <1>0. PathOK
    BY DEF CeilingInv
  <1>1. ASSUME PathOK', Appointed' \subseteq Appointed, Granting' \subseteq Granting
        PROVE  CeilingInv'
    BY <1>1, CeilingShrinks DEF CeilingInv
  <1>2. ASSUME NEW r \in Reqs, Finish(r)
        PROVE  PathOK' /\ Granting' = Granting \ {r}
    BY <1>0, <1>2 DEF Finish, Goto, TypeOK, Granting
  <1>3. ASSUME NEW r \in Reqs, op[r] # "grantSsa", UNCHANGED op,
               NEW step, Goto(r, step)
        PROVE  PathOK' /\ Granting' \subseteq Granting
    BY <1>0, <1>3 DEF Goto, TypeOK, Granting
  <1>4. UNCHANGED <<ssa>> => Appointed' = Appointed
    BY DEF Appointed
  <1>5. ASSUME NEW r \in Reqs, NEW who \in Users, NEW u \in Users, NEW o \in Ops, Begin(r, who, o, u)
        PROVE  CeilingInv'
    <2>1. PathOK'
      BY <1>0, <1>5 DEF Begin, Goto, FirstStep, Guarded, TypeOK
    <2>2. Granting' \subseteq Granting
      BY <1>5 DEF Begin, Goto, FirstStep, Guarded, TypeOK, Granting
    <2>3. QED
      BY <1>1, <1>4, <1>5, <2>1, <2>2 DEF Begin
  <1>6. ASSUME NEW r \in Reqs, CheckRole(r) \/ Count(r) \/ Confirm(r) \/ HasRole(r)
        PROVE  CeilingInv'
    <2>1. op[r] # "grantSsa"
      BY <1>0, <1>6 DEF CheckRole, Count, Confirm, HasRole
    <2>2. Finish(r) \/ (UNCHANGED op /\ \E step \in Steps : Goto(r, step))
      BY <1>6 DEF CheckRole, Count, Confirm, HasRole, GoOn, AfterGuard, Steps
    <2>3. PathOK' /\ Granting' \subseteq Granting
      BY <1>2, <1>3, <2>1, <2>2
    <2>4. QED
      BY <1>1, <1>4, <1>6, <2>3 DEF CheckRole, Count, Confirm, HasRole
  <1>7. ASSUME NEW r \in Reqs, CountRoles(r) PROVE CeilingInv'
    <2>1. CASE Finish(r)
      BY <1>1, <1>2, <1>4, <1>7, <2>1 DEF CountRoles
    <2>2. CASE op[r] # "grantSsa" /\ Goto(r, "write") /\ UNCHANGED op
      BY <1>1, <1>3, <1>4, <1>7, <2>2 DEF CountRoles
    <2>3. CASE op[r] = "grantSsa" /\ InBounds(op[r]) /\ Goto(r, "write")
                 /\ UNCHANGED <<op, target, seen>>
      <3>1. Cardinality(Appointed) < 2
        BY <2>3 DEF InBounds
      <3>2. TypeOK'
        BY <1>7, <2>3 DEF CountRoles, Goto, TypeOK, Steps
      <3>3. Cardinality(Granting') \in Nat /\ Cardinality(Granting') <= Cardinality(Reqs)
        <4>1. Granting' \subseteq Reqs
          BY DEF Granting
        <4>2. QED
          BY <4>1, RosterAssumption, FS_Subset, FS_CardinalityType
      <3>4. Appointed' = Appointed
        BY <1>4, <1>7 DEF CountRoles
      <3>5. PathOK'
        BY <1>0, <2>3 DEF Goto, TypeOK
      <3>6. QED
        BY <3>1, <3>3, <3>4, <3>5, RosterFinite DEF CeilingInv
    <2>4. QED
      BY <1>7, <2>1, <2>2, <2>3 DEF CountRoles, GoOn
  <1>8. ASSUME NEW r \in Reqs, Write(r) PROVE CeilingInv'
    <2>1. PathOK' /\ Granting' = Granting \ {r}
      BY <1>2, <1>8 DEF Write
    <2>2. CASE op[r] = "grantSsa" /\ GrantSsa(target[r])
      <3>1. r \in Granting
        BY <1>8, <2>2 DEF Granting, Write
      <3>2. Cardinality(Granting') = Cardinality(Granting) - 1
        BY <2>1, <3>1, RosterFinite, FS_RemoveElement
      <3>3. Appointed' \subseteq Appointed \cup {target[r]}
        BY <2>2 DEF GrantSsa, Appointed
      <3>4. /\ IsFiniteSet(Appointed \cup {target[r]})
            /\ Cardinality(Appointed \cup {target[r]}) <= Cardinality(Appointed) + 1
        <4>1. IsFiniteSet(Appointed) /\ Cardinality(Appointed) \in Nat
          BY RosterFinite
        <4>2. /\ IsFiniteSet(Appointed \cup {target[r]})
              /\ \/ Cardinality(Appointed \cup {target[r]}) = Cardinality(Appointed)
                 \/ Cardinality(Appointed \cup {target[r]}) = Cardinality(Appointed) + 1
          BY <4>1, FS_AddElement, Zenon
        <4>3. QED
          BY <4>1, <4>2
      <3>5. /\ Cardinality(Appointed') \in Nat
            /\ Cardinality(Appointed') <= Cardinality(Appointed \cup {target[r]})
            /\ Cardinality(Appointed \cup {target[r]}) \in Nat
        BY <3>3, <3>4, FS_Subset, FS_CardinalityType
      <3>6. QED
        BY <2>1, <3>2, <3>4, <3>5, RosterFinite DEF CeilingInv
    <2>3. CASE ~(op[r] = "grantSsa" /\ GrantSsa(target[r]))
      <3>1. Appointed' \subseteq Appointed
        BY <1>8, <2>3 DEF Write, SetStatus, SoftDelete, SetExpiry, Reactivate, Update,
                          HardDelete, RevokeSsa, Appointed
      <3>2. QED
        BY <1>1, <2>1, <3>1
    <2>4. QED
      BY <2>2, <2>3
  <1>9. ASSUME NEW r \in Reqs, Abort(r) PROVE CeilingInv'
    BY <1>1, <1>2, <1>4, <1>9 DEF Abort
  <1>10. CASE UNCHANGED <<ssa, pc, op>>
    BY <1>0, <1>1, <1>4, <1>10 DEF Granting
  <1>11. QED
    BY <1>5, <1>6, <1>7, <1>8, <1>9, <1>10 DEF Next, Request, TimePasses, AutoLock, vars

\* With n requests of administrators at work there are never more than n + 1
\* system administrators besides the break-glass account, two if they come one
\* at a time.
THEOREM Ceiling == Spec => []SsaCeiling
  <1>1. RosterInv => TypeOK
    BY DEF RosterInv
  <1>2. Spec => [](RosterInv /\ CeilingInv)
    BY <1>1, RosterInvInit, RosterInvStep, CeilingInvInit, CeilingInvStep, PTL DEF Spec
  <1>3. RosterInv /\ CeilingInv => SsaCeiling
    BY <1>1, RosterFinite DEF CeilingInv, SsaCeiling
  <1>4. QED
    BY <1>2, <1>3, PTL

-----------------------------------------------------------------------------
(* Groups and what they open. *)

\* What a request is about, by what it is doing.
GroupAim(r) ==
  call[r] # None =>
    /\ call[r].op \in {"addMember", "removeMember", "deleteGroup", "addGroup"} => call[r].group \in Groups
    /\ call[r].op \in {"addGroup", "signIn"} => call[r].client \in Clients
    /\ call[r].op = "deleteGroup" => call[r].scope = None

GroupTyped == GA!TypeOK /\ \A r \in Reqs : GroupAim(r)

LEMMA GroupTypesInit == GA!Init => GroupTyped
  BY DEF GA!Init, GroupTyped, GroupAim, GA!TypeOK

\* A request that asks for something holds a record of a call.
LEMMA GroupAsking ==
  ASSUME GA!TypeOK, NEW r \in Reqs, call[r] # None
  PROVE  /\ call[r] \in GA!Call /\ call[r].op \in GA!Ops
         /\ call[r].scope \in GA!Scopes /\ call[r].users \subseteq Members
         /\ call[r].group \in Groups \cup {None} /\ call[r].client \in Clients \cup {None}
  BY DEF GA!TypeOK, GA!Call

\* A step that neither takes a right away nor adds a session leaves nothing
\* unexplained, as long as every revocation in flight stays as it is.
LEMMA RightsKept ==
  ASSUME GA!TypeOK, GA!NoRightHasCause,
         signedIn' \subseteq signedIn,
         \A s \in signedIn' : s \in kept => s \in kept',
         \A s \in signedIn' : GA!MayUse(s[1], s[2]) => GA!MayUse(s[1], s[2])' \/ s \in kept' \/ GA!BeingRevoked(s)',
         \A s \in signedIn' : GA!BeingRevoked(s) => s \in kept' \/ GA!BeingRevoked(s)'
  PROVE  GA!NoRightHasCause'
  BY DEF GA!NoRightHasCause

LEMMA GroupTypesStep == GroupTyped /\ GA!Next => GroupTyped'
  <1> SUFFICES ASSUME GroupTyped, GA!Next PROVE GroupTyped'
    OBVIOUS
  <1> USE DEF GroupTyped, GroupAim, GA!TypeOK
  <1>1. ASSUME NEW r \in Reqs, NEW o \in GA!Ops, NEW s \in GA!Scopes, NEW u \in Members,
               NEW g \in Groups, GA!Check(r, o, s, u, g)
        PROVE  GroupTyped'
    BY <1>1 DEF GA!Check, GA!Ask, GA!Call, GA!Rows
  <1>2. ASSUME NEW r \in Reqs, GA!AddMember(r) PROVE GroupTyped'
    BY <1>2 DEF GA!Call, GA!AddMember, GA!Asking, GA!Done
  <1>3. ASSUME NEW r \in Reqs, GA!RemoveMember(r) PROVE GroupTyped'
    BY <1>3 DEF GA!Call, GA!RemoveMember, GA!Asking, GA!Then, GA!LosesNow, GA!Ops
  <1>4. ASSUME NEW r \in Reqs, GA!DeleteGroup(r) PROVE GroupTyped'
    BY <1>4 DEF GA!Call, GA!DeleteGroup, GA!Asking, GA!Then, GA!LosesNow, GA!Ops
  <1>5. ASSUME NEW r \in Reqs, GA!Revoke(r) PROVE GroupTyped'
    BY <1>5 DEF GA!Revoke, GA!Done
  <1>6. ASSUME NEW r \in Reqs, GA!AddGroup(r) PROVE GroupTyped'
    BY <1>6 DEF GA!Call, GA!AddGroup, GA!Asking, GA!Done
  <1>7. ASSUME NEW r \in Reqs, NEW g \in Groups, GA!ReadMembers(r, g) PROVE GroupTyped'
    BY <1>7 DEF GA!ReadMembers, GA!Ask, GA!Call, GA!Scopes, GA!Ops, GA!Rows
  <1>8. ASSUME NEW r \in Reqs, NEW s \in GA!Scopes, NEW cl \in Clients, NEW g \in Groups,
               GA!CheckGroup(r, s, cl, g)
        PROVE  GroupTyped'
    BY <1>8 DEF GA!CheckGroup, GA!Ask, GA!Call, GA!Ops, GA!Rows
  <1>9. ASSUME NEW r \in Reqs, NEW u \in Members, NEW cl \in Clients, GA!Gate(r, u, cl)
        PROVE  GroupTyped'
    BY <1>9 DEF GA!Gate, GA!Ask, GA!Call, GA!Ops, GA!Scopes, GA!Rows
  <1>10. ASSUME NEW r \in Reqs, GA!SignIn(r) PROVE GroupTyped'
    BY <1>10 DEF GA!Call, GA!SignIn, GA!Asking, GA!Done
  <1>11. ASSUME NEW r \in Reqs, GA!Abort(r) PROVE GroupTyped'
    BY <1>11 DEF GA!Abort, GA!Done
  <1>12. CASE GA!Withdraw
    BY <1>12 DEF GA!Withdraw, GA!LosesNow
  <1>13. ASSUME NEW g \in Groups, GA!CreateGroup(g) PROVE GroupTyped'
    BY <1>13 DEF GA!CreateGroup
  <1>14. QED
    BY <1>1, <1>2, <1>3, <1>4, <1>5, <1>6, <1>7, <1>8, <1>9, <1>10, <1>11, <1>12, <1>13
    DEF GA!Next

\* What addGroup has checked still holds when it writes, or another assignment
\* of the same group has been written meanwhile.
AddsInScope(r) ==
  call[r] # None /\ call[r].op = "addGroup" /\ call[r].scope # None =>
    /\ call[r].client \in call[r].scope
    /\ \/ call[r].group \in shared
       \/ \A cl \in Clients : <<cl, call[r].group>> \in assigned => cl \in call[r].scope

GroupInv ==
  GroupTyped /\ GA!NoRightHasCause /\ GA!GroupsApart /\ \A r \in Reqs : AddsInScope(r)

LEMMA GroupInvInit == GA!Init => GroupInv
  BY GroupTypesInit
  DEF GroupInv, GA!Init, GA!NoRightHasCause, GA!GroupsApart, AddsInScope

\* A grant keeps its right while no row goes.
LEMMA RightsGrow ==
  ASSUME member \subseteq member', assigned \subseteq assigned', allowAll \subseteq allowAll',
         NEW u, NEW cl, GA!MayUse(u, cl)
  PROVE  GA!MayUse(u, cl)'
  BY DEF GA!MayUse, GA!Allowed, GA!Now

\* The right of a grant after a step is the right over the rows after it.
LEMMA RightsLater ==
  ASSUME NEW u, NEW cl PROVE GA!MayUse(u, cl)' <=> GA!Allowed(u, cl, GA!Later)
  BY DEF GA!MayUse, GA!Allowed, GA!Now, GA!Later

LEMMA RightsStep == GroupInv /\ GA!Next => GA!NoRightHasCause'
  <1> SUFFICES ASSUME GroupInv, GA!Next PROVE GA!NoRightHasCause'
    OBVIOUS
  <1>t. GA!TypeOK /\ GA!NoRightHasCause
    BY DEF GroupInv, GroupTyped
  <1>k. call \in [Reqs -> {None} \cup GA!Call] /\ signedIn \subseteq Members \X Clients
        /\ kept \subseteq signedIn
    BY <1>t DEF GA!TypeOK
  \* A new request and the end of one that revokes nothing.
  <1>0. ASSUME NEW r \in Reqs, ~GA!Asking(r, "revoke"), NEW x, call' = [call EXCEPT ![r] = x],
               NEW s, GA!BeingRevoked(s)
        PROVE  GA!BeingRevoked(s)'
    BY <1>0, <1>k DEF GA!BeingRevoked, GA!Asking, GA!Covers
  <1>1. ASSUME NEW r \in Reqs, NEW o \in GA!Ops, NEW s \in GA!Scopes, NEW u \in Members,
               NEW g \in Groups, GA!Check(r, o, s, u, g)
        PROVE  GA!NoRightHasCause'
    BY <1>0, <1>1, <1>t, RightsKept, RightsGrow DEF GA!Check, GA!Ask, GA!Rows, GA!Asking
  <1>2. ASSUME NEW r \in Reqs, GA!AddMember(r) PROVE GA!NoRightHasCause'
    <2>1. ~GA!Asking(r, "revoke") /\ call' = [call EXCEPT ![r] = None]
          /\ member \subseteq member' /\ UNCHANGED <<group, assigned, allowAll, signedIn, kept, shared>>
      BY <1>2 DEF GA!AddMember, GA!Asking, GA!Done
    <2>2. QED
      BY <1>0, <2>1, <1>t, RightsKept, RightsGrow
  <1>3. ASSUME NEW r \in Reqs, GA!RemoveMember(r) PROVE GA!NoRightHasCause'
    <2>1. call[r] \in GA!Call /\ call'[r] = [call[r] EXCEPT !.op = "revoke"] /\ call'[r] # None
      BY <1>3, <1>t, <1>k, AdministrationAssumption, GroupAsking
      DEF GA!RemoveMember, GA!Asking, GA!Then, GA!Call, GA!Ops
    <2>2. call'[r].op = "revoke" /\ call'[r].users = call[r].users /\ call'[r].scope = call[r].scope
      BY <2>1 DEF GA!Call
    <2>3. ASSUME NEW s, GA!BeingRevoked(s) PROVE GA!BeingRevoked(s)'
      BY <1>3, <2>3, <1>k DEF GA!RemoveMember, GA!Then, GA!BeingRevoked, GA!Asking, GA!Covers
    <2>4. ASSUME NEW s \in signedIn, GA!MayUse(s[1], s[2]), ~GA!MayUse(s[1], s[2])'
          PROVE  s \in kept' \/ GA!BeingRevoked(s)'
      <3>1. s \in GA!LosesNow
        BY <2>4, RightsLater DEF GA!LosesNow, GA!MayUse
      <3>2. s[1] \in call[r].users
        BY <1>3, <2>4 DEF GA!RemoveMember, GA!MayUse, GA!Allowed, GA!Now
      <3>3. CASE GA!Covers(call[r].scope, s[2])
        BY <2>1, <2>2, <3>2, <3>3 DEF GA!BeingRevoked, GA!Asking, GA!Covers
      <3>4. CASE ~GA!Covers(call[r].scope, s[2])
        BY <1>3, <3>1, <3>4 DEF GA!RemoveMember
      <3>5. QED
        BY <3>3, <3>4
    <2>5. signedIn' = signedIn /\ kept \subseteq kept'
      BY <1>3 DEF GA!RemoveMember
    <2>6. QED
      BY <2>3, <2>4, <2>5, <1>t, RightsKept
  <1>4. ASSUME NEW r \in Reqs, GA!DeleteGroup(r) PROVE GA!NoRightHasCause'
    <2>1. call[r] \in GA!Call /\ call'[r] = [call[r] EXCEPT !.op = "revoke"] /\ call'[r] # None
      BY <1>4, <1>t, <1>k, AdministrationAssumption, GroupAsking
      DEF GA!DeleteGroup, GA!Asking, GA!Then, GA!Call, GA!Ops
    <2>2. call'[r].op = "revoke" /\ call'[r].users = call[r].users /\ call'[r].scope = None
      BY <1>4, <2>1 DEF GA!Call, GroupInv, GroupTyped, GroupAim, GA!DeleteGroup, GA!Asking
    <2>3. ASSUME NEW s, GA!BeingRevoked(s) PROVE GA!BeingRevoked(s)'
      BY <1>4, <2>3, <1>k DEF GA!DeleteGroup, GA!Then, GA!BeingRevoked, GA!Asking, GA!Covers
    <2>4. ASSUME NEW s \in signedIn, GA!MayUse(s[1], s[2]), ~GA!MayUse(s[1], s[2])'
          PROVE  s \in kept' \/ GA!BeingRevoked(s)'
      <3>1. s \in GA!LosesNow
        BY <2>4, RightsLater DEF GA!LosesNow, GA!MayUse
      <3>3. CASE s[1] \in call[r].users
        BY <2>1, <2>2, <3>3 DEF GA!BeingRevoked, GA!Asking, GA!Covers
      <3>4. CASE s[1] \notin call[r].users
        BY <1>4, <3>1, <3>4 DEF GA!DeleteGroup
      <3>5. QED
        BY <3>3, <3>4
    <2>5. signedIn' = signedIn /\ kept \subseteq kept'
      BY <1>4 DEF GA!DeleteGroup
    <2>6. QED
      BY <2>3, <2>4, <2>5, <1>t, RightsKept
  <1>5. ASSUME NEW r \in Reqs, GA!Revoke(r) PROVE GA!NoRightHasCause'
    <2>1. ASSUME NEW s \in signedIn', GA!BeingRevoked(s) PROVE GA!BeingRevoked(s)'
      <3>1. PICK q \in Reqs : GA!Asking(q, "revoke") /\ s[1] \in call[q].users
                              /\ GA!Covers(call[q].scope, s[2])
        BY <2>1 DEF GA!BeingRevoked
      <3>2. q # r
        BY <1>5, <2>1, <3>1 DEF GA!Revoke, GA!Reached
      <3>3. QED
        BY <1>5, <1>k, <3>1, <3>2 DEF GA!Revoke, GA!Done, GA!BeingRevoked, GA!Asking, GA!Covers
    <2>2. signedIn' \subseteq signedIn /\ kept' = kept \cap signedIn'
          /\ UNCHANGED <<member, assigned, allowAll>>
      BY <1>5 DEF GA!Revoke
    <2>3. QED
      BY <2>1, <2>2, <1>t, RightsKept, RightsGrow
  <1>6. ASSUME NEW r \in Reqs, GA!AddGroup(r) PROVE GA!NoRightHasCause'
    <2>1. ~GA!Asking(r, "revoke") /\ call' = [call EXCEPT ![r] = None]
          /\ assigned \subseteq assigned' /\ UNCHANGED <<group, member, allowAll, signedIn, kept>>
      BY <1>6 DEF GA!AddGroup, GA!Asking, GA!Done
    <2>2. QED
      BY <1>0, <2>1, <1>t, RightsKept, RightsGrow
  <1>7. ASSUME NEW r \in Reqs, NEW g \in Groups, GA!ReadMembers(r, g) PROVE GA!NoRightHasCause'
    BY <1>0, <1>7, <1>t, RightsKept, RightsGrow DEF GA!ReadMembers, GA!Ask, GA!Rows, GA!Asking
  <1>8. ASSUME NEW r \in Reqs, NEW s \in GA!Scopes, NEW cl \in Clients, NEW g \in Groups,
               GA!CheckGroup(r, s, cl, g)
        PROVE  GA!NoRightHasCause'
    BY <1>0, <1>8, <1>t, RightsKept, RightsGrow DEF GA!CheckGroup, GA!Ask, GA!Rows, GA!Asking
  <1>9. ASSUME NEW r \in Reqs, NEW u \in Members, NEW cl \in Clients, GA!Gate(r, u, cl)
        PROVE  GA!NoRightHasCause'
    BY <1>0, <1>9, <1>t, RightsKept, RightsGrow DEF GA!Gate, GA!Ask, GA!Rows, GA!Asking
  <1>10. ASSUME NEW r \in Reqs, GA!SignIn(r) PROVE GA!NoRightHasCause'
    <2> DEFINE new == call[r].users \X {call[r].client}
    <2>1. ~GA!Asking(r, "revoke") /\ call' = [call EXCEPT ![r] = None]
          /\ UNCHANGED <<member, assigned, allowAll>>
      BY <1>10 DEF GA!SignIn, GA!Asking, GA!Done
    <2>2. signedIn' = signedIn \cup new
          /\ kept' = (kept \ new) \cup {s \in new : ~GA!MayUse(s[1], s[2])}
      BY <1>10 DEF GA!SignIn
    <2>3. \A s : GA!MayUse(s[1], s[2]) => GA!MayUse(s[1], s[2])'
      BY <2>1, RightsGrow
    <2>4. ASSUME NEW s \in new PROVE GA!MayUse(s[1], s[2])' \/ s \in kept'
      BY <2>2, <2>3
    <2>5. ASSUME NEW s \in signedIn, s \notin new
          PROVE  GA!MayUse(s[1], s[2])' \/ s \in kept' \/ GA!BeingRevoked(s)'
      BY <1>0, <2>1, <2>2, <2>3, <2>5, <1>t DEF GA!NoRightHasCause
    <2>6. QED
      BY <2>2, <2>4, <2>5 DEF GA!NoRightHasCause
  <1>11. ASSUME NEW r \in Reqs, GA!Abort(r) PROVE GA!NoRightHasCause'
    <2>1. call' = [call EXCEPT ![r] = None] /\ UNCHANGED <<member, assigned, allowAll, signedIn>>
          /\ kept \subseteq kept'
      BY <1>11 DEF GA!Abort, GA!Done
    <2>2. ASSUME NEW s \in signedIn', GA!BeingRevoked(s) PROVE s \in kept' \/ GA!BeingRevoked(s)'
      <3>1. CASE call[r].op = "revoke" /\ s[1] \in call[r].users
        BY <1>11, <2>2, <3>1 DEF GA!Abort
      <3>2. CASE ~(call[r].op = "revoke" /\ s[1] \in call[r].users)
        BY <2>1, <2>2, <3>2, <1>k DEF GA!BeingRevoked, GA!Asking, GA!Covers
      <3>3. QED
        BY <3>1, <3>2
    <2>3. QED
      BY <2>1, <2>2, <1>t, RightsKept, RightsGrow
  <1>12. CASE GA!Withdraw
    <2>1. signedIn' = signedIn /\ call' = call /\ kept' = kept \cup GA!LosesNow
      BY <1>12 DEF GA!Withdraw
    <2>2. ASSUME NEW s \in signedIn, GA!MayUse(s[1], s[2]) PROVE GA!MayUse(s[1], s[2])' \/ s \in kept'
      BY <2>1, <2>2, RightsLater DEF GA!LosesNow, GA!MayUse
    <2>3. \A s : GA!BeingRevoked(s) => GA!BeingRevoked(s)'
      BY <2>1 DEF GA!BeingRevoked, GA!Asking, GA!Covers
    <2>4. QED
      BY <2>1, <2>2, <2>3, <1>t, RightsKept
  <1>13. ASSUME NEW g \in Groups, GA!CreateGroup(g) PROVE GA!NoRightHasCause'
    <2>1. UNCHANGED <<member, assigned, allowAll, signedIn, call, kept>>
      BY <1>13 DEF GA!CreateGroup
    <2>2. \A s : GA!BeingRevoked(s) => GA!BeingRevoked(s)'
      BY <2>1 DEF GA!BeingRevoked, GA!Asking, GA!Covers
    <2>3. QED
      BY <2>1, <2>2, <1>t, RightsKept, RightsGrow
  <1>14. QED
    BY <1>1, <1>2, <1>3, <1>4, <1>5, <1>6, <1>7, <1>8, <1>9, <1>10, <1>11, <1>12, <1>13
    DEF GA!Next

\* No assignment is added, no group stops being shared, no addGroup starts: what
\* the requests have checked of a group stays.
LEMMA GroupsKept ==
  ASSUME GroupInv, assigned' \subseteq assigned, shared \subseteq shared',
         \A r \in Reqs : \/ call'[r] = call[r] \/ call'[r] = None
                        \/ call'[r].op # "addGroup"
  PROVE  GA!GroupsApart' /\ \A r \in Reqs : AddsInScope(r)'
  <1>1. GA!GroupsApart'
    BY DEF GroupInv, GA!GroupsApart
  <1>2. ASSUME NEW r \in Reqs PROVE AddsInScope(r)'
    BY DEF GroupInv, AddsInScope
  <1>3. QED
    BY <1>1, <1>2

LEMMA GroupsApartStep ==
  GroupInv /\ GA!Next => GA!GroupsApart' /\ \A r \in Reqs : AddsInScope(r)'
  <1> SUFFICES ASSUME GroupInv, GA!Next
               PROVE  GA!GroupsApart' /\ \A r \in Reqs : AddsInScope(r)'
    OBVIOUS
  <1>t. GA!TypeOK
    BY DEF GroupInv, GroupTyped
  <1>k. call \in [Reqs -> {None} \cup GA!Call] /\ assigned \subseteq Clients \X Groups
    BY <1>t DEF GA!TypeOK
  <1>1. ASSUME NEW r \in Reqs, NEW x, call' = [call EXCEPT ![r] = x], x = None \/ x.op # "addGroup",
               assigned' \subseteq assigned, shared \subseteq shared'
        PROVE  GA!GroupsApart' /\ \A q \in Reqs : AddsInScope(q)'
    BY <1>1, <1>k, GroupsKept
  <1>2. ASSUME NEW r \in Reqs, GA!AddGroup(r)
        PROVE  GA!GroupsApart' /\ \A q \in Reqs : AddsInScope(q)'
    <2> DEFINE cl == call[r].client  g == call[r].group
    <2>1. call[r] # None /\ call[r].op = "addGroup" /\ call[r].scope \in GA!Scopes
          /\ cl \in Clients /\ g \in Groups
      BY <1>2, <1>t, GroupAsking DEF GA!AddGroup, GA!Asking, GroupInv, GroupTyped, GroupAim
    <2>2. assigned' = assigned \cup {<<cl, g>>} /\ shared \subseteq shared'
          /\ call' = [call EXCEPT ![r] = None]
          /\ (call[r].scope = None \/ GA!Overlapping(r) => g \in shared')
      BY <1>2 DEF GA!AddGroup, GA!Done
    <2>3. g \in shared' \/ \A d \in Clients : <<d, g>> \in assigned => d = cl
      BY <2>1, <2>2 DEF GroupInv, AddsInScope, GA!Scopes
    <2>4. GA!GroupsApart'
      <3> SUFFICES ASSUME NEW one \in assigned', NEW two \in assigned', one[2] = two[2], one[1] # two[1]
                   PROVE  one[2] \in shared'
        BY DEF GA!GroupsApart
      <3>0. ASSUME NEW x \in assigned', x[2] = g PROVE g \in shared' \/ x[1] = cl
        <4>1. CASE x \in assigned
          <5>1. x = <<x[1], g>> /\ x[1] \in Clients
            BY <3>0, <4>1, <1>k
          <5>2. QED
            BY <2>2, <2>3, <4>1, <5>1
        <4>2. CASE x = <<cl, g>>
          BY <4>2
        <4>3. QED
          BY <2>2, <3>0, <4>1, <4>2
      <3>1. CASE one[2] = g
        <4>1. (g \in shared' \/ one[1] = cl) /\ (g \in shared' \/ two[1] = cl)
          BY <3>0, <3>1
        <4>2. QED
          BY <4>1, <3>1
      <3>2. CASE one[2] # g
        BY <2>2, <3>2 DEF GroupInv, GA!GroupsApart
      <3>3. QED
        BY <3>1, <3>2
    <2>5. ASSUME NEW q \in Reqs PROVE AddsInScope(q)'
      <3>1. CASE q = r \/ call[q] = None \/ call[q].op # "addGroup"
        BY <2>2, <3>1, <1>k DEF AddsInScope
      <3>2. CASE q # r /\ call[q] # None /\ call[q].op = "addGroup" /\ call[q].group = g
        <4>1. call'[q] = call[q] /\ g \in shared'
          BY <2>2, <3>2, <1>k DEF GA!Overlapping
        <4>2. QED
          BY <3>2, <4>1 DEF GroupInv, AddsInScope
      <3>3. CASE q # r /\ call[q] # None /\ call[q].op = "addGroup" /\ call[q].group # g
        BY <2>2, <3>3, <1>k DEF GroupInv, AddsInScope
      <3>4. QED
        BY <3>1, <3>2, <3>3
    <2>6. QED
      BY <2>4, <2>5
  <1>3. ASSUME NEW r \in Reqs, NEW s \in GA!Scopes, NEW cl \in Clients, NEW g \in Groups,
               GA!CheckGroup(r, s, cl, g)
        PROVE  GA!GroupsApart' /\ \A q \in Reqs : AddsInScope(q)'
    <2>1. assigned' = assigned /\ shared' = shared
          /\ call' = [call EXCEPT ![r] = [op |-> "addGroup", scope |-> s, users |-> {},
                                          group |-> g, client |-> cl]]
      BY <1>3 DEF GA!CheckGroup, GA!Ask, GA!Rows
    <2>2. GA!GroupsApart'
      BY <2>1 DEF GroupInv, GA!GroupsApart
    <2>3. AddsInScope(r)'
      BY <1>3, <2>1, <1>k DEF AddsInScope, GA!CheckGroup, GA!Covers, GA!NotForeign
    <2>4. ASSUME NEW q \in Reqs \ {r} PROVE AddsInScope(q)'
      BY <2>1, <1>k DEF GroupInv, AddsInScope
    <2>5. QED
      BY <2>2, <2>3, <2>4
  <1>4. ASSUME NEW r \in Reqs, GA!RemoveMember(r) \/ GA!DeleteGroup(r)
        PROVE  GA!GroupsApart' /\ \A q \in Reqs : AddsInScope(q)'
    <2>1. call[r] \in GA!Call
      BY <1>4, <1>k DEF GA!RemoveMember, GA!DeleteGroup, GA!Asking
    <2>2. [call[r] EXCEPT !.op = "revoke"].op # "addGroup"
      BY <2>1 DEF GA!Call
    <2>3. QED
      BY <1>1, <1>4, <2>2 DEF GA!RemoveMember, GA!DeleteGroup, GA!Then
  <1>5. ASSUME NEW r \in Reqs, GA!AddMember(r) \/ GA!Revoke(r) \/ GA!SignIn(r) \/ GA!Abort(r)
        PROVE  GA!GroupsApart' /\ \A q \in Reqs : AddsInScope(q)'
    BY <1>1, <1>5 DEF GA!AddMember, GA!Revoke, GA!SignIn, GA!Abort, GA!Done
  <1>6. ASSUME NEW r \in Reqs, NEW o \in GA!Ops, NEW s \in GA!Scopes, NEW u \in Members,
               NEW g \in Groups, GA!Check(r, o, s, u, g)
        PROVE  GA!GroupsApart' /\ \A q \in Reqs : AddsInScope(q)'
    BY <1>1, <1>6 DEF GA!Check, GA!Ask, GA!Rows
  <1>7. ASSUME NEW r \in Reqs, NEW g \in Groups, GA!ReadMembers(r, g)
        PROVE  GA!GroupsApart' /\ \A q \in Reqs : AddsInScope(q)'
    BY <1>1, <1>7 DEF GA!ReadMembers, GA!Ask, GA!Rows
  <1>8. ASSUME NEW r \in Reqs, NEW u \in Members, NEW cl \in Clients, GA!Gate(r, u, cl)
        PROVE  GA!GroupsApart' /\ \A q \in Reqs : AddsInScope(q)'
    BY <1>1, <1>8 DEF GA!Gate, GA!Ask, GA!Rows
  <1>9. CASE GA!Withdraw \/ \E g \in Groups : GA!CreateGroup(g)
    BY <1>9, GroupsKept DEF GA!Withdraw, GA!CreateGroup
  <1>10. QED
    BY <1>2, <1>3, <1>4, <1>5, <1>6, <1>7, <1>8, <1>9 DEF GA!Next

LEMMA GroupInvStep == GroupInv /\ [GA!Next]_groupVars => GroupInv'
  <1> SUFFICES ASSUME GroupInv, [GA!Next]_groupVars PROVE GroupInv'
    OBVIOUS
  <1>1. CASE GA!Next
    <2>1. GroupTyped
      BY DEF GroupInv
    <2>2. QED
      BY <1>1, <2>1, GroupTypesStep, RightsStep, GroupsApartStep DEF GroupInv
  <1>2. CASE UNCHANGED groupVars
    BY <1>2 DEF groupVars, GroupInv, GroupTyped, GroupAim, AddsInScope, GA!TypeOK, GA!GroupsApart,
       GA!NoRightHasCause, GA!MayUse, GA!Allowed, GA!Now, GA!BeingRevoked, GA!Asking, GA!Covers
  <1>3. QED
    BY <1>1, <1>2

LEMMA GroupSteps == [AdministrationNext]_<<subject, rosterVars, usersSide, clientsSide, accessSide>>
                      => [GA!Next]_groupVars
  BY DEF AdministrationNext, RosterAlone, SecretsAlone, ProjectsAlone, UsersAlone, LogoutAlone,
     ScreensAlone, HandoutsAlone, GroupsAlone, usersSide

\* Whoever is signed in to an application without a right to it (groups.service) has a cause:
\* a revocation is on its way to the grant, or it is of a kind the code leaves alone (`kept`).  And
\* no group is in two
\* projects unless a system administrator put it there or two assignments overlapped (group-scope).
THEOREM AccessIsSound == AdministrationSpec => []AccessSound
  <1>1. AdministrationInit => GroupInv
    BY GroupInvInit DEF AdministrationInit
  <1>2. GroupInv /\ [AdministrationNext]_<<subject, rosterVars, usersSide, clientsSide, accessSide>>
          => GroupInv'
    BY GroupInvStep, GroupSteps
  <1>3. GroupInv => AccessSound
    BY DEF GroupInv, AccessSound
  <1>4. QED
    BY <1>1, <1>2, <1>3, PTL DEF AdministrationSpec
-----------------------------------------------------------------------------
(* Projects and their administrators. *)

OfOnePerson == {"role", "scope", "dismiss", "count", "drop", "cleanDrop"}

ProjectTyped ==
  /\ PA!TypeOK
  /\ \A r \in Reqs : job[r] # None /\ job[r].step \in OfOnePerson => job[r].user \in People

\* A user that is gone has neither row of an appointment.
RowsAlive == role \subseteq alive /\ \A s \in scope : s[1] \in alive

\* What a request about u knows of his two rows, at each of its steps.
Midway(u, r) ==
  /\ job[r].step \in {"role", "scope"} => job[r].project \in exists
  /\ job[r].step \in {"role", "dismiss", "empty", "admins", "delete"} => (u \in role <=> PA!Has(u))
  /\ job[r].step = "scope" /\ u \in alive => u \in role
  /\ job[r].step \in {"count", "clean", "cleanDrop"} => (PA!Has(u) => u \in role)
  /\ job[r].step = "drop" => ~PA!Has(u)
  /\ job[r].step = "delete" /\ <<u, job[r].project>> \in scope => u \in job[r].users
  /\ job[r].step \in {"clean", "cleanDrop"} /\ u \in role /\ ~PA!Has(u)
       => u \in job[r].users \/ (job[r].step = "cleanDrop" /\ u = job[r].user)
  /\ job[r].step = "cleanDrop" /\ u = job[r].user => ~PA!Has(u)

Concerns(r, u) == u \in PA!About(job[r])

\* One request at a time is about a user whose requests never overlapped.
PersonWhole(u) ==
  u \notin mixed =>
    /\ \A q, r \in Reqs : Concerns(q, u) /\ Concerns(r, u) => q = r
    /\ \A r \in Reqs : Concerns(r, u) => Midway(u, r)
    /\ (\E r \in Reqs : Concerns(r, u)) \/ (u \in role <=> PA!Has(u))

ProjectInv == ProjectTyped /\ RowsAlive /\ \A u \in People : PersonWhole(u)

LEMMA ProjectInvInit == PA!Init => ProjectInv
  BY DEF PA!Init, ProjectInv, ProjectTyped, RowsAlive, PersonWhole, Concerns, PA!TypeOK, PA!Has,
     PA!About

LEMMA ProjectTypesStep == ProjectTyped /\ RowsAlive /\ PA!Next => ProjectTyped' /\ RowsAlive'
  <1> SUFFICES ASSUME ProjectTyped, RowsAlive, PA!Next PROVE ProjectTyped' /\ RowsAlive'
    OBVIOUS
  <1> USE DEF ProjectTyped, RowsAlive, PA!TypeOK, PA!Job, PA!Steps, PA!Removal, OfOnePerson
  <1>0. ASSUME NEW r \in Reqs, NEW j \in PA!Job, j.step \in OfOnePerson => j.user \in People, PA!Start(r, j)
        PROVE  ProjectTyped' /\ RowsAlive'
    BY <1>0 DEF PA!Start, PA!Rows, PA!About
  <1>1. ASSUME NEW r \in Reqs, NEW u \in People, NEW p \in Projects, PA!Appoint(r, u, p) \/ PA!Dismiss(r, u, p)
        PROVE  ProjectTyped' /\ RowsAlive'
    BY <1>0, <1>1 DEF PA!Appoint, PA!Dismiss, PA!NoWork
  <1>2. ASSUME NEW r \in Reqs, NEW p \in Projects, PA!Remove(r, p)
        PROVE  ProjectTyped' /\ RowsAlive'
    BY <1>2 DEF PA!Remove, PA!Start, PA!NoWork, PA!Rows, PA!About
  <1>3. ASSUME NEW r \in Reqs, PA!InsertRole(r) \/ PA!InsertScope(r)
        PROVE  ProjectTyped' /\ RowsAlive'
    BY <1>3 DEF PA!InsertRole, PA!InsertScope, PA!Writes, PA!Running, PA!Goto, PA!End
  <1>4. ASSUME NEW r \in Reqs, PA!DeleteScope(r) \/ PA!CountLeft(r) \/ PA!DropRole(r)
        PROVE  ProjectTyped' /\ RowsAlive'
    BY <1>4 DEF PA!DeleteScope, PA!CountLeft, PA!DropRole, PA!Reads, PA!Rows, PA!Writes, PA!Running,
       PA!Goto, PA!End
  <1>5. ASSUME NEW r \in Reqs, PA!CountApps(r) \/ PA!ReadAdmins(r) \/ PA!NobodyLeft(r)
        PROVE  ProjectTyped' /\ RowsAlive'
    BY <1>5 DEF PA!CountApps, PA!ReadAdmins, PA!NobodyLeft, PA!Reads, PA!Rows, PA!Writes, PA!Running,
       PA!Goto, PA!End
  <1>6. ASSUME NEW r \in Reqs, PA!DeleteProject(r)
        PROVE  ProjectTyped' /\ RowsAlive'
    BY <1>6 DEF PA!DeleteProject, PA!Writes, PA!Running, PA!Goto
  <1>7. ASSUME NEW r \in Reqs, PA!CountHis(r)
        PROVE  ProjectTyped' /\ RowsAlive'
    BY <1>7 DEF PA!CountHis, PA!Reads, PA!Rows, PA!Writes, PA!Running
  <1>8. ASSUME NEW r \in Reqs, PA!DropHis(r)
        PROVE  ProjectTyped' /\ RowsAlive'
    <2>1. job[r] \in PA!Job /\ job' = [job EXCEPT ![r].step = "clean", ![r].user = None]
      BY <1>8 DEF PA!DropHis, PA!Writes, PA!Running
    <2>2. job' = [job EXCEPT ![r] = [job[r] EXCEPT !.step = "clean", !.user = None]]
      BY <2>1
    <2>3. [job[r] EXCEPT !.step = "clean", !.user = None] \in PA!Job
      BY <2>1
    <2>4. ProjectTyped'
      BY <1>8, <2>2, <2>3 DEF PA!DropHis, PA!Writes
    <2>5. RowsAlive'
      BY <1>8 DEF PA!DropHis
    <2>6. QED
      BY <2>4, <2>5
  <1>9. ASSUME NEW r \in Reqs, NEW app \in Apps, NEW u \in People \cup {None}, NEW p \in Projects, PA!CreateApp(r, app, u, p)
        PROVE  ProjectTyped' /\ RowsAlive'
    BY <1>9 DEF PA!CreateApp, PA!NoWork, PA!Rows
  <1>10. ASSUME NEW r \in Reqs, PA!InsertApp(r)
        PROVE  ProjectTyped' /\ RowsAlive'
    BY <1>10 DEF PA!InsertApp, PA!Writes, PA!Running, PA!End
  <1>11. ASSUME NEW r \in Reqs, PA!Abort(r)
        PROVE  ProjectTyped' /\ RowsAlive'
    BY <1>11 DEF PA!Abort, PA!End, PA!Rows, PA!About
  <1>12. ASSUME NEW app \in Apps, PA!DeleteApp(app)
        PROVE  ProjectTyped' /\ RowsAlive'
    BY <1>12 DEF PA!DeleteApp
  <1>13. ASSUME NEW u \in People, PA!EraseUser(u)
        PROVE  ProjectTyped' /\ RowsAlive'
    BY <1>13 DEF PA!EraseUser
  <1>14. QED
    BY <1>1, <1>2, <1>3, <1>4, <1>5, <1>6, <1>7, <1>8, <1>9, <1>10, <1>11, <1>12, <1>13 DEF PA!Next

\* What a request does to others is nothing to a user it is not about.
LEMMA Bystander ==
  ASSUME ProjectTyped, NEW u \in People, PersonWhole(u), mixed \subseteq mixed',
         NEW r \in Reqs, NEW x, job' = [job EXCEPT ![r] = x],
         ~Concerns(r, u), u \notin PA!About(x),
         u \in role' <=> u \in role, u \in alive' <=> u \in alive, exists' = exists,
         \A p \in Projects : <<u, p>> \in scope' <=> <<u, p>> \in scope
  PROVE  PersonWhole(u)'
  <1>1. \A q \in Reqs \ {r} : job'[q] = job[q]
    BY DEF ProjectTyped, PA!TypeOK
  <1>2. job'[r] = x
    BY DEF ProjectTyped, PA!TypeOK
  <1>3. PA!Has(u)' <=> PA!Has(u)
    BY DEF PA!Has
  <1>4. ~Concerns(r, u)' /\ \A q \in Reqs \ {r} : Concerns(q, u)' <=> Concerns(q, u)
    BY <1>1, <1>2 DEF Concerns, PA!About
  <1>5. ASSUME NEW q \in Reqs, u \notin mixed, Concerns(q, u) PROVE Midway(u, q)'
    <2>1. q # r /\ Midway(u, q)
      BY <1>5 DEF PersonWhole
    <2>2. <<u, job[q].project>> \in scope' /\ job[q].step = "delete" => <<u, job[q].project>> \in scope
      BY <1>5 DEF ProjectTyped, PA!TypeOK, PA!Job, Concerns, PA!About
    <2>3. QED
      BY <1>1, <1>3, <2>1, <2>2 DEF Midway
  <1>6. QED
    BY <1>3, <1>4, <1>5 DEF PersonWhole

\* The step of the one request that is about a user: it is still about him and
\* knows what it must, or it has ended and left him whole.
LEMMA Protagonist ==
  ASSUME ProjectTyped, NEW u \in People, PersonWhole(u), mixed \subseteq mixed',
         NEW r \in Reqs, NEW x, job' = [job EXCEPT ![r] = x], Concerns(r, u),
         u \notin mixed' => IF u \in PA!About(x) THEN Midway(u, r)' ELSE (u \in role' <=> PA!Has(u)')
  PROVE  PersonWhole(u)'
  <1> SUFFICES ASSUME u \notin mixed' PROVE PersonWhole(u)'
    BY DEF PersonWhole
  <1>1. \A q \in Reqs \ {r} : job'[q] = job[q] /\ ~Concerns(q, u)
    BY DEF ProjectTyped, PA!TypeOK, PersonWhole
  <1>2. job'[r] = x
    BY DEF ProjectTyped, PA!TypeOK
  <1>3. \A q \in Reqs \ {r} : ~Concerns(q, u)'
    BY <1>1 DEF Concerns, PA!About
  <1>4. Concerns(r, u)' <=> u \in PA!About(x)
    BY <1>2 DEF Concerns, PA!About
  <1>5. QED
    BY <1>3, <1>4 DEF PersonWhole

LEMMA PersonWholeStep ==
  ASSUME ProjectInv, PA!Next, NEW u \in People
  PROVE  PersonWhole(u)'
  <1> USE DEF ProjectInv
  <1>t. ProjectTyped /\ RowsAlive /\ PersonWhole(u) /\ job \in [Reqs -> {None} \cup PA!Job]
    BY DEF ProjectTyped, PA!TypeOK
  <1>n. None \notin PA!Job
    BY AdministrationAssumption
  \* A request that starts.
  <1>s. ASSUME NEW r \in Reqs, NEW j \in PA!Job, PA!Start(r, j),
               j.step = "role" => j.project \in exists, j.step \in {"role", "dismiss", "empty"},
               j.step \in OfOnePerson => j.user \in People
        PROVE  PersonWhole(u)'
    <2>1. job' = [job EXCEPT ![r] = j] /\ job'[r] = j /\ UNCHANGED PA!Rows /\ job[r] = None
          /\ mixed \subseteq mixed' /\ \A q \in Reqs \ {r} : job'[q] = job[q]
      BY <1>s, <1>t DEF PA!Start
    <2>2. PA!Has(u)' <=> PA!Has(u)
      BY <2>1 DEF PA!Has, PA!Rows
    <2>3. CASE u \notin PA!About(j)
      BY <2>1, <2>3, <1>t, Bystander DEF Concerns, PA!About, PA!Rows
    <2>4. CASE u \in PA!About(j)
      <3> SUFFICES ASSUME u \notin mixed' PROVE PersonWhole(u)'
        BY DEF PersonWhole
      <3>1. \A q \in Reqs \ {r} : ~Concerns(q, u)
        BY <1>s, <2>4 DEF PA!Start, PA!Others, Concerns
      <3>2. u \notin mixed /\ ~Concerns(r, u)
        BY <2>1 DEF Concerns, PA!About
      <3>3. u \in role <=> PA!Has(u)
        BY <3>1, <3>2, <1>t DEF PersonWhole
      <3>4. Midway(u, r)'
        BY <2>1, <2>2, <3>3, <1>s DEF Midway, PA!Rows
      <3>5. \A q \in Reqs \ {r} : ~Concerns(q, u)'
        BY <2>1, <3>1 DEF Concerns, PA!About
      <3>6. Concerns(r, u)'
        BY <2>1, <2>4 DEF Concerns, PA!About
      <3>7. QED
        BY <3>4, <3>5, <3>6 DEF PersonWhole
    <2>5. QED
      BY <2>3, <2>4
  <1>1. ASSUME NEW r \in Reqs, NEW v \in People, NEW p \in Projects, PA!Appoint(r, v, p) \/ PA!Dismiss(r, v, p)
        PROVE  PersonWhole(u)'
    BY <1>1, <1>s DEF PA!Appoint, PA!Dismiss, PA!NoWork, PA!Job, PA!Steps, OfOnePerson
  <1>2. ASSUME NEW r \in Reqs, NEW p \in Projects, PA!Remove(r, p)
        PROVE  PersonWhole(u)'
    BY <1>2, <1>s DEF PA!Remove, PA!NoWork, PA!Job, PA!Steps, PA!Removal, OfOnePerson
  <1>3. ASSUME NEW r \in Reqs, PA!InsertRole(r) PROVE PersonWhole(u)'
    <2> DEFINE j == job[r]  x == IF j.user \in alive THEN [j EXCEPT !.step = "scope"] ELSE None
    <2>1. j \in PA!Job /\ j.step = "role" /\ j # None /\ j.user \in People
      BY <1>3, <1>t DEF PA!InsertRole, PA!Writes, PA!Running, ProjectTyped, OfOnePerson
    <2>2. job' = [job EXCEPT ![r] = x] /\ x # j /\ UNCHANGED <<exists, alive, scope, mixed>>
          /\ role' = IF j.user \in alive THEN role \cup {j.user} ELSE role
      BY <1>3, <2>1 DEF PA!InsertRole, PA!Writes, PA!Goto, PA!End, PA!Job
    <2>3. PA!About(j) = {j.user} /\ PA!About(x) \subseteq {j.user} /\ (j.user \in alive => PA!About(x) = {j.user})
      BY <2>1, <1>n DEF PA!About, PA!Removal, PA!Job, PA!Steps
    <2>4. PA!Has(u)' <=> PA!Has(u)
      BY <2>2 DEF PA!Has
    <2>5. CASE u # j.user
      BY <2>2, <2>3, <2>5, <1>t, Bystander DEF Concerns
    <2>6. CASE u = j.user
      <3>1. Concerns(r, u)
        BY <2>3, <2>6 DEF Concerns
      <3>2. CASE u \in alive
        <4>1. u \notin mixed => Midway(u, r)
          BY <3>1, <1>t DEF PersonWhole
        <4>2. job'[r] = [j EXCEPT !.step = "scope"]
          BY <2>2, <2>6, <3>2, <1>t
        <4>3. u \notin mixed => Midway(u, r)'
          BY <2>1, <2>2, <2>6, <3>2, <4>1, <4>2 DEF Midway, PA!Job
        <4>4. QED
          BY <2>2, <2>3, <2>6, <3>1, <3>2, <4>3, <1>t, Protagonist
      <3>3. CASE u \notin alive
        <4>1. u \notin role /\ ~PA!Has(u)
          BY <3>3, <1>t DEF RowsAlive, PA!Has
        <4>2. u \notin PA!About(x)
          BY <2>6, <3>3 DEF PA!About
        <4>3. QED
          BY <2>2, <2>4, <2>6, <3>1, <3>3, <4>1, <4>2, <1>t, Protagonist
      <3>4. QED
        BY <3>2, <3>3
    <2>7. QED
      BY <2>5, <2>6
  <1>4. ASSUME NEW r \in Reqs, PA!InsertScope(r) PROVE PersonWhole(u)'
    <2> DEFINE j == job[r]
    <2>1. j \in PA!Job /\ j.step = "scope" /\ j # None /\ j.user \in People
      BY <1>4, <1>t DEF PA!InsertScope, PA!Writes, PA!Running, ProjectTyped, OfOnePerson
    <2>2. job' = [job EXCEPT ![r] = None] /\ UNCHANGED <<exists, alive, role, mixed>>
          /\ scope' = IF j.project \in exists /\ j.user \in alive THEN scope \cup {<<j.user, j.project>>} ELSE scope
      BY <1>4 DEF PA!InsertScope, PA!Writes, PA!End
    <2>3. PA!About(j) = {j.user} /\ PA!About(None) = {}
      BY <2>1 DEF PA!About, PA!Removal
    <2>4. CASE u # j.user
      BY <2>2, <2>3, <2>4, <1>t, Bystander DEF Concerns
    <2>5. CASE u = j.user
      <3>1. Concerns(r, u)
        BY <2>3, <2>5 DEF Concerns
      <3>2. u \notin mixed => j.project \in exists /\ (u \in alive => u \in role)
        BY <2>1, <3>1, <1>t DEF PersonWhole, Midway
      <3>3. j.project \in exists /\ u \in alive => PA!Has(u)'
        BY <2>1, <2>2, <2>5 DEF PA!Has, PA!Job
      <3>4. u \notin alive => u \notin role /\ ~PA!Has(u)'
        BY <2>2, <2>5, <1>t DEF RowsAlive, PA!Has
      <3>5. QED
        BY <2>2, <2>3, <3>1, <3>2, <3>3, <3>4, <1>t, Protagonist
    <2>6. QED
      BY <2>4, <2>5
  <1>5. ASSUME NEW r \in Reqs, PA!DeleteScope(r) PROVE PersonWhole(u)'
    <2> DEFINE j == job[r]  x == [j EXCEPT !.step = "count"]
    <2>1. j \in PA!Job /\ j.step = "dismiss" /\ j # None /\ j.user \in People
      BY <1>5, <1>t DEF PA!DeleteScope, PA!Writes, PA!Running, ProjectTyped, OfOnePerson
    <2>2. job' = [job EXCEPT ![r] = x] /\ UNCHANGED <<exists, alive, role, mixed>>
          /\ scope' = scope \ {<<j.user, j.project>>}
      BY <1>5 DEF PA!DeleteScope, PA!Writes, PA!Goto
    <2>3. x \in PA!Job /\ x.step = "count" /\ x.user = j.user
      BY <2>1 DEF PA!Job, PA!Steps
    <2>4. PA!About(j) = {j.user} /\ PA!About(x) = {j.user}
      BY <2>1, <2>3, <1>n DEF PA!About, PA!Removal
    <2>5. CASE u # j.user
      BY <2>2, <2>4, <2>5, <1>t, Bystander DEF Concerns
    <2>6. CASE u = j.user
      <3>1. Concerns(r, u)
        BY <2>4, <2>6 DEF Concerns
      <3>2. u \notin mixed => (PA!Has(u) => u \in role)
        BY <2>1, <3>1, <1>t DEF PersonWhole, Midway
      <3>3. PA!Has(u)' => PA!Has(u)
        BY <2>2 DEF PA!Has
      <3>4. u \notin mixed => Midway(u, r)'
        BY <2>2, <2>3, <3>2, <3>3, <1>t DEF Midway
      <3>5. QED
        BY <2>2, <2>4, <2>6, <3>1, <3>4, <1>t, Protagonist
    <2>7. QED
      BY <2>5, <2>6
  <1>6. ASSUME NEW r \in Reqs, PA!CountLeft(r) PROVE PersonWhole(u)'
    <2> DEFINE j == job[r]  x == IF PA!Has(j.user) THEN None ELSE [j EXCEPT !.step = "drop"]
    <2>1. j \in PA!Job /\ j.step = "count" /\ j # None /\ j.user \in People
      BY <1>6, <1>t DEF PA!CountLeft, PA!Reads, PA!Writes, PA!Running, ProjectTyped, OfOnePerson
    <2>2. job' = [job EXCEPT ![r] = x] /\ UNCHANGED <<exists, alive, role, scope, mixed>>
      BY <1>6 DEF PA!CountLeft, PA!Reads, PA!Rows, PA!Writes, PA!Goto, PA!End
    <2>3. ~PA!Has(j.user) => x \in PA!Job /\ x.step = "drop" /\ x.user = j.user
      BY <2>1 DEF PA!Job, PA!Steps
    <2>4. PA!About(j) = {j.user} /\ PA!About(x) = IF PA!Has(j.user) THEN {} ELSE {j.user}
      BY <2>1, <2>3, <1>n DEF PA!About, PA!Removal
    <2>5. PA!Has(u)' <=> PA!Has(u)
      BY <2>2 DEF PA!Has
    <2>6. CASE u # j.user
      BY <2>2, <2>4, <2>6, <1>t, Bystander DEF Concerns
    <2>7. CASE u = j.user
      <3>1. Concerns(r, u)
        BY <2>4, <2>7 DEF Concerns
      <3>2. u \notin mixed => (PA!Has(u) => u \in role)
        BY <2>1, <3>1, <1>t DEF PersonWhole, Midway
      <3>3. ~PA!Has(u) => Midway(u, r)'
        BY <2>2, <2>3, <2>5, <2>7, <1>t DEF Midway
      <3>4. QED
        BY <2>2, <2>4, <2>5, <2>7, <3>1, <3>2, <3>3, <1>t, Protagonist
    <2>8. QED
      BY <2>6, <2>7
  <1>7. ASSUME NEW r \in Reqs, PA!DropRole(r) PROVE PersonWhole(u)'
    <2> DEFINE j == job[r]
    <2>1. j # None /\ j.step = "drop"
      BY <1>7 DEF PA!DropRole, PA!Writes, PA!Running
    <2>2. job' = [job EXCEPT ![r] = None] /\ UNCHANGED <<exists, alive, scope, mixed>> /\ role' = role \ {j.user}
      BY <1>7 DEF PA!DropRole, PA!Writes, PA!End
    <2>3. PA!About(j) = {j.user} /\ PA!About(None) = {}
      BY <2>1 DEF PA!About, PA!Removal
    <2>4. CASE u # j.user
      BY <2>2, <2>3, <2>4, <1>t, Bystander DEF Concerns
    <2>5. CASE u = j.user
      <3>1. Concerns(r, u)
        BY <2>3, <2>5 DEF Concerns
      <3>2. u \notin mixed => ~PA!Has(u)
        BY <2>1, <3>1, <1>t DEF PersonWhole, Midway
      <3>3. PA!Has(u)' <=> PA!Has(u)
        BY <2>2 DEF PA!Has
      <3>4. QED
        BY <2>2, <2>3, <2>5, <3>1, <3>2, <3>3, <1>t, Protagonist
    <2>6. QED
      BY <2>4, <2>5
  \* A removal of a project is about everybody.
  <1>8. ASSUME NEW r \in Reqs, job[r] # None, job[r].step \in PA!Removal,
               NEW x, job' = [job EXCEPT ![r] = x], mixed' = mixed,
               u \notin mixed /\ Midway(u, r) =>
                 IF x = None THEN u \in role' <=> PA!Has(u)' ELSE x.step \in PA!Removal /\ Midway(u, r)'
        PROVE  PersonWhole(u)'
    <2>1. Concerns(r, u)
      BY <1>8 DEF Concerns, PA!About, PA!Removal
    <2>2. u \notin mixed => Midway(u, r)
      BY <2>1, <1>t DEF PersonWhole
    <2>3. u \notin mixed => IF u \in PA!About(x) THEN Midway(u, r)' ELSE (u \in role' <=> PA!Has(u)')
      BY <1>8, <2>2 DEF PA!About, PA!Removal
    <2>4. QED
      BY <1>8, <1>t, <2>1, <2>3, Protagonist
  <1>9. ASSUME NEW r \in Reqs, PA!CountApps(r) PROVE PersonWhole(u)'
    <2> DEFINE j == job[r]  x == IF \E app \in Apps : appOf[app] = j.project THEN None ELSE [j EXCEPT !.step = "admins"]
    <2>1. j \in PA!Job /\ j.step = "empty" /\ j # None /\ job' = [job EXCEPT ![r] = x]
          /\ UNCHANGED <<exists, alive, role, scope, mixed>>
      BY <1>9, <1>t DEF PA!CountApps, PA!Reads, PA!Rows, PA!Writes, PA!Running, PA!Goto, PA!End
    <2>2. x = None \/ (x \in PA!Job /\ x.step = "admins")
      BY <2>1 DEF PA!Job, PA!Steps, PA!Removal
    <2>3. PA!Has(u)' <=> PA!Has(u)
      BY <2>1 DEF PA!Has
    <2>4. Midway(u, r) => IF x = None THEN u \in role' <=> PA!Has(u)' ELSE x.step \in PA!Removal /\ Midway(u, r)'
      BY <2>1, <2>2, <2>3, <1>t DEF Midway, PA!Removal
    <2>5. QED
      BY <1>8, <2>1, <2>4 DEF PA!Removal
  <1>10. ASSUME NEW r \in Reqs, PA!ReadAdmins(r) PROVE PersonWhole(u)'
    <2> DEFINE j == job[r]
               x == [j EXCEPT !.step = "delete", !.users = {v \in People : <<v, j.project>> \in scope}]
    <2>1. j \in PA!Job /\ j.step = "admins" /\ j # None
          /\ UNCHANGED <<exists, alive, role, scope, mixed>>
      BY <1>10, <1>t DEF PA!ReadAdmins, PA!Reads, PA!Rows, PA!Writes, PA!Running
    <2>2. job' = [job EXCEPT ![r] = x]
      BY <1>10 DEF PA!ReadAdmins
    <2>3. x \in PA!Job /\ x.step = "delete" /\ x.project = j.project
          /\ x.users = {v \in People : <<v, j.project>> \in scope}
      BY <2>1 DEF PA!Job, PA!Steps, PA!Removal
    <2>4. PA!Has(u)' <=> PA!Has(u)
      BY <2>1 DEF PA!Has
    <2>5. Midway(u, r) => x.step \in PA!Removal /\ Midway(u, r)'
      BY <2>1, <2>2, <2>3, <2>4, <1>t DEF Midway, PA!Removal
    <2>6. QED
      BY <1>8, <2>1, <2>2, <2>3, <2>5, <1>n DEF PA!Removal
  <1>11. ASSUME NEW r \in Reqs, PA!DeleteProject(r) PROVE PersonWhole(u)'
    <2> DEFINE j == job[r]  x == [j EXCEPT !.step = "clean"]
    <2>1. j \in PA!Job /\ j.step = "delete" /\ j # None /\ UNCHANGED <<alive, role, mixed>>
          /\ scope' = {s \in scope : s[2] # j.project} /\ job' = [job EXCEPT ![r] = x]
      BY <1>11, <1>t DEF PA!DeleteProject, PA!Writes, PA!Running, PA!Goto
    <2>2. x \in PA!Job /\ x.step = "clean" /\ x.users = j.users
      BY <2>1 DEF PA!Job, PA!Steps, PA!Removal
    <2>3. (PA!Has(u)' => PA!Has(u)) /\ (PA!Has(u) /\ <<u, j.project>> \notin scope => PA!Has(u)')
      BY <2>1 DEF PA!Has
    <2>4. Midway(u, r) => x.step \in PA!Removal /\ Midway(u, r)'
      BY <2>1, <2>2, <2>3, <1>t DEF Midway, PA!Removal
    <2>5. QED
      BY <1>8, <2>1, <2>2, <2>4, <1>n DEF PA!Removal
  <1>12. ASSUME NEW r \in Reqs, PA!NobodyLeft(r) PROVE PersonWhole(u)'
    <2>1. job[r].step = "clean" /\ job[r] # None /\ job[r].users = {}
          /\ job' = [job EXCEPT ![r] = None] /\ UNCHANGED <<exists, alive, role, scope, mixed>>
      BY <1>12 DEF PA!NobodyLeft, PA!Reads, PA!Rows, PA!Writes, PA!Running, PA!End
    <2>2. PA!Has(u)' <=> PA!Has(u)
      BY <2>1 DEF PA!Has
    <2>3. Midway(u, r) => (u \in role' <=> PA!Has(u)')
      BY <2>1, <2>2 DEF Midway
    <2>4. QED
      BY <1>8, <2>1, <2>3 DEF PA!Removal
  <1>13. ASSUME NEW r \in Reqs, PA!CountHis(r) PROVE PersonWhole(u)'
    <2> DEFINE j == job[r]
    <2>1. j \in PA!Job /\ j.step = "clean" /\ j # None
          /\ UNCHANGED <<exists, alive, role, scope, mixed>>
      BY <1>13, <1>t DEF PA!CountHis, PA!Reads, PA!Rows, PA!Writes, PA!Running
    <2>2. PICK v \in j.users :
            IF PA!Has(v) THEN job' = [job EXCEPT ![r].users = @ \ {v}]
            ELSE job' = [job EXCEPT ![r].step = "cleanDrop", ![r].users = @ \ {v}, ![r].user = v]
      BY <1>13 DEF PA!CountHis
    <2>3. v \in People
      BY <2>1 DEF PA!Job
    <2>4. PA!Has(u)' <=> PA!Has(u)
      BY <2>1 DEF PA!Has
    <2>5. CASE PA!Has(v)
      <3> DEFINE x == [j EXCEPT !.users = @ \ {v}]
      <3>1. job' = [job EXCEPT ![r] = x]
        BY <2>2, <2>5
      <3>2. x \in PA!Job /\ x.step = "clean" /\ x.users = j.users \ {v}
        BY <2>1 DEF PA!Job
      <3>3. Midway(u, r) => x.step \in PA!Removal /\ Midway(u, r)'
        BY <2>1, <2>4, <2>5, <3>1, <3>2, <1>t DEF Midway, PA!Removal
      <3>4. QED
        BY <1>8, <2>1, <3>1, <3>2, <3>3, <1>n DEF PA!Removal
    <2>6. CASE ~PA!Has(v)
      <3> DEFINE x == [j EXCEPT !.step = "cleanDrop", !.users = @ \ {v}, !.user = v]
      <3>1. job' = [job EXCEPT ![r] = x]
        BY <2>2, <2>6
      <3>2. x \in PA!Job /\ x.step = "cleanDrop" /\ x.users = j.users \ {v} /\ x.user = v
        BY <2>1, <2>3 DEF PA!Job, PA!Steps, PA!Removal
      <3>3. Midway(u, r) => x.step \in PA!Removal /\ Midway(u, r)'
        BY <2>1, <2>4, <2>6, <3>1, <3>2, <1>t DEF Midway, PA!Removal
      <3>4. QED
        BY <1>8, <2>1, <3>1, <3>2, <3>3, <1>n DEF PA!Removal
    <2>7. QED
      BY <2>5, <2>6
  <1>14. ASSUME NEW r \in Reqs, PA!DropHis(r) PROVE PersonWhole(u)'
    <2> DEFINE j == job[r]  x == [j EXCEPT !.step = "clean", !.user = None]
    <2>1. j \in PA!Job /\ j.step = "cleanDrop" /\ j # None
          /\ UNCHANGED <<exists, alive, scope, mixed>> /\ role' = role \ {j.user}
      BY <1>14, <1>t DEF PA!DropHis, PA!Writes, PA!Running
    <2>2. job' = [job EXCEPT ![r] = x]
      BY <1>14 DEF PA!DropHis
    <2>3. x \in PA!Job /\ x.step = "clean" /\ x.users = j.users
      BY <2>1 DEF PA!Job, PA!Steps, PA!Removal
    <2>4. PA!Has(u)' <=> PA!Has(u)
      BY <2>1 DEF PA!Has
    <2>5. Midway(u, r) => x.step \in PA!Removal /\ Midway(u, r)'
      BY <2>1, <2>2, <2>3, <2>4, <1>t DEF Midway, PA!Removal
    <2>6. QED
      BY <1>8, <2>1, <2>2, <2>3, <2>5, <1>n DEF PA!Removal
  <1>15. ASSUME NEW r \in Reqs, NEW app \in Apps, NEW v \in People \cup {None}, NEW p \in Projects,
                PA!CreateApp(r, app, v, p)
         PROVE  PersonWhole(u)'
    BY <1>15, <1>t, Bystander DEF PA!CreateApp, PA!NoWork, PA!Rows, Concerns, PA!About
  <1>16. ASSUME NEW r \in Reqs, PA!InsertApp(r) PROVE PersonWhole(u)'
    BY <1>16, <1>t, Bystander DEF PA!InsertApp, PA!Writes, PA!Running, PA!End, Concerns, PA!About
  <1>17. ASSUME NEW r \in Reqs, PA!Abort(r) PROVE PersonWhole(u)'
    <2>1. CASE u \in PA!About(job[r])
      BY <1>17, <2>1 DEF PA!Abort, PersonWhole
    <2>2. CASE u \notin PA!About(job[r])
      BY <1>17, <2>2, <1>t, Bystander DEF PA!Abort, PA!End, PA!Rows, Concerns, PA!About
    <2>3. QED
      BY <2>1, <2>2
  <1>18. ASSUME NEW app \in Apps, PA!DeleteApp(app) PROVE PersonWhole(u)'
    BY <1>18, <1>t DEF PA!DeleteApp, PersonWhole, Concerns, PA!About, Midway, PA!Has
  <1>19. ASSUME NEW v \in People, PA!EraseUser(v) PROVE PersonWhole(u)'
    <2>1. exists' = exists /\ job' = job /\ mixed' = mixed /\ alive' = alive \ {v}
          /\ role' = role \ {v} /\ scope' = {s \in scope : s[1] # v}
      BY <1>19 DEF PA!EraseUser
    <2>2. CASE u = v
      <3>1. u \notin role' /\ u \notin alive' /\ ~PA!Has(u)' /\ \A p : <<u, p>> \notin scope'
        BY <2>1, <2>2 DEF PA!Has
      <3>2. QED
        BY <2>1, <3>1, <1>t DEF PersonWhole, Concerns, PA!About, Midway
    <2>3. CASE u # v
      <3>1. /\ u \in role' <=> u \in role
            /\ u \in alive' <=> u \in alive
            /\ PA!Has(u)' <=> PA!Has(u)
            /\ \A p : <<u, p>> \in scope' => <<u, p>> \in scope
        BY <2>1, <2>3 DEF PA!Has
      <3>2. QED
        BY <2>1, <3>1, <1>t DEF PersonWhole, Concerns, PA!About, Midway
    <2>4. QED
      BY <2>2, <2>3
  <1>20. QED
    BY <1>1, <1>2, <1>3, <1>4, <1>5, <1>6, <1>7, <1>9, <1>10, <1>11, <1>12, <1>13, <1>14, <1>15,
       <1>16, <1>17, <1>18, <1>19 DEF PA!Next

LEMMA ProjectInvStep == ProjectInv /\ [PA!Next]_projectVars => ProjectInv'
  <1> SUFFICES ASSUME ProjectInv, [PA!Next]_projectVars PROVE ProjectInv'
    OBVIOUS
  <1>1. CASE PA!Next
    BY <1>1, ProjectTypesStep, PersonWholeStep DEF ProjectInv
  <1>2. CASE UNCHANGED projectVars
    <2>1. ProjectTyped' /\ RowsAlive'
      BY <1>2 DEF projectVars, ProjectInv, ProjectTyped, RowsAlive, PA!TypeOK
    <2>2. ASSUME NEW u \in People PROVE PersonWhole(u)'
      <3>1. \A r \in Reqs : (Midway(u, r)' <=> Midway(u, r)) /\ (Concerns(r, u)' <=> Concerns(r, u))
        BY <1>2 DEF projectVars, Midway, PA!Has, Concerns, PA!About
      <3>2. QED
        BY <1>2, <3>1 DEF projectVars, ProjectInv, PersonWhole, PA!Has
    <2>3. QED
      BY <2>1, <2>2 DEF ProjectInv
  <1>3. QED
    BY <1>1, <1>2

LEMMA ProjectSteps == [AdministrationNext]_<<subject, rosterVars, usersSide, clientsSide, accessSide>>
                      => [PA!Next]_projectVars
  BY DEF AdministrationNext, RosterAlone, SecretsAlone, ProjectsAlone, UsersAlone, LogoutAlone,
     ScreensAlone, HandoutsAlone, GroupsAlone, clientsSide

\* Somebody has the role of a project administrator exactly while a project is left to
\* him (project-admins.service), unless a request about him is in flight, overlapped another or was
\* cut off between its two statements.
THEOREM AppointmentsAreWhole == AdministrationSpec => []AppointmentWhole
  <1>1. AdministrationInit => ProjectInv
    BY ProjectInvInit DEF AdministrationInit
  <1>2. ProjectInv /\ [AdministrationNext]_<<subject, rosterVars, usersSide, clientsSide, accessSide>>
          => ProjectInv'
    BY ProjectInvStep, ProjectSteps
  <1>3. ProjectInv => AppointmentWhole
    BY DEF ProjectInv, AppointmentWhole, PA!AppointmentWhole, PersonWhole, Concerns
  <1>4. QED
    BY <1>1, <1>2, <1>3, PTL DEF AdministrationSpec
-----------------------------------------------------------------------------
(* Users and their departments. *)

\* What a request holds, by its step.
Holds(w) ==
  /\ w.step \in {"dup", "insert", "password", "setDept", "temp"} => w.who \in Persons
  /\ w.step \in {"dup", "insert", "setDept", "row", "temp", "carry", "commit"} => w.name \in Names
  /\ w.step \in {"count", "delete", "carry", "commit"} => w.id \in Depts

UsersTyped == OB!TypeOK /\ \A r \in Reqs : busy[r] # None => Holds(busy[r])

LEMMA UsersTypesInit == OB!Init => UsersTyped
  BY DEF OB!Init, UsersTyped, OB!TypeOK

LEMMA UsersTypesStep == UsersTyped /\ OB!Next => UsersTyped'
  <1> SUFFICES ASSUME UsersTyped, OB!Next PROVE UsersTyped'
    OBVIOUS
  <1>n. None \notin Names
    BY AdministrationAssumption
  <1>c. OB!Catalogue \subseteq Names
    BY DEF UsersTyped, OB!TypeOK, OB!Catalogue
  <1>t. /\ row \in [Persons -> {None} \cup OB!UserRow] /\ dept \in [Depts -> {None} \cup Names]
        /\ busy \in [Reqs -> {None} \cup OB!Request] /\ crossed \in BOOLEAN /\ returned \subseteq Persons
    BY DEF UsersTyped, OB!TypeOK
  <1>a. \A r \in Reqs : busy[r] # None => busy[r] \in OB!Request /\ Holds(busy[r])
    BY <1>t DEF UsersTyped
  \* The requests after a step of one of them.
  <1>b. ASSUME NEW r \in Reqs, NEW x, x = None \/ (x \in OB!Request /\ Holds(x)),
               busy' = [busy EXCEPT ![r] = x], crossed' \in BOOLEAN,
               row' \in [Persons -> {None} \cup OB!UserRow],
               dept' \in [Depts -> {None} \cup Names], returned' \subseteq Persons
        PROVE  UsersTyped'
    <2>1. busy' \in [Reqs -> {None} \cup OB!Request]
      BY <1>b, <1>t
    <2>2. ASSUME NEW q \in Reqs, busy'[q] # None PROVE Holds(busy'[q])
      BY <1>b, <2>2, <1>t, <1>a
    <2>3. QED
      BY <1>b, <2>1, <2>2 DEF UsersTyped, OB!TypeOK, Holds
  <1>e. ASSUME NEW r \in Reqs, NEW x \in OB!Request, Holds(x), OB!Enter(r, x), UNCHANGED OB!Tables
        PROVE  UsersTyped'
    BY <1>b, <1>e, <1>t DEF OB!Enter, OB!Cross, OB!Tables
  \* The rows of the users after one of them is written.
  <1>r. ASSUME NEW p \in Persons, NEW u \in {None} \cup OB!UserRow, row' = [row EXCEPT ![p] = u]
        PROVE  row' \in [Persons -> {None} \cup OB!UserRow]
    BY <1>r, <1>t
  <1>i. ASSUME NEW p \in Persons, NEW n \in Names, OB!Insert(p, n)
        PROVE  row' \in [Persons -> {None} \cup OB!UserRow]
    BY <1>i, <1>t DEF OB!Insert, OB!NewRow, OB!UserRow
  <1>1. ASSUME NEW r \in Reqs, NEW p \in Persons, NEW n \in Names, NEW w \in BOOLEAN,
               OB!Update(r, p, n) \/ OB!Create(r, p, n, w)
        PROVE  UsersTyped'
    BY <1>1, <1>e DEF OB!Update, OB!Create, OB!Idle, OB!Request, OB!Steps, Holds
  <1>2. ASSUME NEW r \in Reqs, NEW f \in SUBSET Persons, NEW n \in Names, OB!Import(r, f, n)
        PROVE  UsersTyped'
    <2>1. [OB!Idle EXCEPT !.step = "row", !.name = n, !.todo = {p \in f : ~OB!Exists(p)}] \in OB!Request
      BY DEF OB!Idle, OB!Request, OB!Steps
    <2>2. Holds([OB!Idle EXCEPT !.step = "row", !.name = n, !.todo = {p \in f : ~OB!Exists(p)}])
      BY DEF OB!Idle, Holds
    <2>3. QED
      BY <1>2, <1>e, <2>1, <2>2 DEF OB!Import
  <1>3. ASSUME NEW r \in Reqs, OB!Duplicate(r) \/ OB!FileDone(r) \/ OB!Abort(r) PROVE UsersTyped'
    <2>1. busy[r] \in OB!Request /\ Holds(busy[r])
      BY <1>3, <1>a DEF OB!Duplicate, OB!FileDone, OB!Abort, OB!At
    <2>2. busy[r].step = "dup" => [busy[r] EXCEPT !.step = "insert"] \in OB!Request
                                  /\ Holds([busy[r] EXCEPT !.step = "insert"])
      BY <2>1 DEF OB!Request, OB!Steps, Holds
    <2>3. QED
      BY <1>3, <1>b, <1>t, <2>2
      DEF OB!Duplicate, OB!FileDone, OB!Abort, OB!At, OB!Leave, OB!Step, OB!Tables
  <1>4. ASSUME NEW r \in Reqs, OB!InsertUser(r) PROVE UsersTyped'
    <2>1. busy[r] \in OB!Request /\ Holds(busy[r]) /\ busy[r].step = "insert"
      BY <1>4, <1>a DEF OB!InsertUser, OB!At
    <2>2. [busy[r] EXCEPT !.step = "password"] \in OB!Request /\ Holds([busy[r] EXCEPT !.step = "password"])
      BY <2>1 DEF OB!Request, OB!Steps, Holds
    <2>3. row' \in [Persons -> {None} \cup OB!UserRow]
      BY <1>4, <1>i, <2>1 DEF OB!InsertUser, Holds
    <2>4. QED
      BY <1>4, <1>b, <1>t, <2>2, <2>3 DEF OB!InsertUser, OB!Leave, OB!Step
  <1>5. ASSUME NEW r \in Reqs, OB!SetPassword(r) PROVE UsersTyped'
    <2>1. busy[r].who \in Persons
      BY <1>5, <1>a DEF OB!SetPassword, OB!At, Holds
    <2>2. row' \in [Persons -> {None} \cup OB!UserRow]
      BY <1>5, <1>t, <2>1 DEF OB!SetPassword, OB!UserRow, OB!Exists
    <2>3. QED
      BY <1>5, <1>b, <1>t, <2>2 DEF OB!SetPassword, OB!Leave
  <1>6. ASSUME NEW r \in Reqs, OB!WriteDept(r) PROVE UsersTyped'
    <2>1. busy[r].who \in Persons /\ busy[r].name \in Names
      BY <1>6, <1>a DEF OB!WriteDept, OB!At, Holds
    <2>2. row' \in [Persons -> {None} \cup OB!UserRow]
      BY <1>6, <1>t, <2>1 DEF OB!WriteDept, OB!UserRow, OB!Exists
    <2>3. QED
      BY <1>6, <1>b, <1>t, <2>2 DEF OB!WriteDept, OB!Leave
  <1>7. ASSUME NEW r \in Reqs, OB!CreateRow(r) PROVE UsersTyped'
    <2>1. busy[r] \in OB!Request /\ busy[r].name \in Names
      BY <1>7, <1>a DEF OB!CreateRow, OB!At, Holds
    <2>2. PICK p \in busy[r].todo :
            /\ OB!Insert(p, busy[r].name)
            /\ busy' = [busy EXCEPT ![r].todo = @ \ {p}, ![r].who = p,
                                    ![r].step = IF OB!Exists(p) THEN "row" ELSE "temp"]
      BY <1>7 DEF OB!CreateRow
    <2>3. p \in Persons
      BY <2>1 DEF OB!Request
    <2> DEFINE x == [busy[r] EXCEPT !.todo = @ \ {p}, !.who = p,
                                    !.step = IF OB!Exists(p) THEN "row" ELSE "temp"]
    <2>4. x \in OB!Request /\ Holds(x)
      BY <2>1, <2>3 DEF OB!Request, OB!Steps, Holds
    <2>5. busy' = [busy EXCEPT ![r] = x]
      BY <2>2
    <2>6. row' \in [Persons -> {None} \cup OB!UserRow]
      BY <1>i, <2>1, <2>2, <2>3
    <2>7. QED
      BY <1>7, <1>b, <1>t, <2>4, <2>5, <2>6 DEF OB!CreateRow
  <1>8. ASSUME NEW r \in Reqs, OB!RowFails(r) PROVE UsersTyped'
    <2>1. busy[r] \in OB!Request /\ Holds(busy[r])
      BY <1>8, <1>a DEF OB!RowFails, OB!At
    <2>2. PICK p \in busy[r].todo : busy' = [busy EXCEPT ![r].todo = @ \ {p}]
      BY <1>8 DEF OB!RowFails
    <2>3. [busy[r] EXCEPT !.todo = @ \ {p}] \in OB!Request /\ Holds([busy[r] EXCEPT !.todo = @ \ {p}])
      BY <2>1 DEF OB!Request, OB!Steps, Holds
    <2>4. QED
      BY <1>8, <1>b, <1>t, <2>2, <2>3 DEF OB!RowFails, OB!Tables
  <1>9. ASSUME NEW r \in Reqs, OB!IssueTemp(r) PROVE UsersTyped'
    <2>1. busy[r] \in OB!Request /\ Holds(busy[r]) /\ busy[r].step = "temp"
      BY <1>9, <1>a DEF OB!IssueTemp, OB!At
    <2>2. [busy[r] EXCEPT !.step = "row"] \in OB!Request /\ Holds([busy[r] EXCEPT !.step = "row"])
      BY <2>1 DEF OB!Request, OB!Steps, Holds
    <2>3. row' \in [Persons -> {None} \cup OB!UserRow]
      BY <1>9, <1>t, <2>1 DEF OB!IssueTemp, OB!UserRow, OB!Exists, OB!Live, Holds
    <2>4. QED
      BY <1>9, <1>b, <1>t, <2>2, <2>3 DEF OB!IssueTemp, OB!Step
  <1>10. ASSUME NEW p \in Persons, OB!Lifecycle(p) PROVE UsersTyped'
    <2>1. row' \in [Persons -> {None} \cup OB!UserRow] /\ returned' \subseteq Persons
      BY <1>10, <1>t DEF OB!Lifecycle, OB!SoftDelete, OB!Reactivate, OB!Erase, OB!UserRow, OB!Exists,
         OB!Live
    <2>2. UNCHANGED <<dept, busy, crossed>>
      BY <1>10 DEF OB!Lifecycle
    <2>3. QED
      BY <2>1, <2>2 DEF UsersTyped, OB!TypeOK, Holds
  <1>11. ASSUME NEW d \in Depts, NEW n \in Names, OB!AddDept(d, n) PROVE UsersTyped'
    BY <1>11 DEF OB!AddDept, UsersTyped, OB!TypeOK, Holds
  <1>12. ASSUME NEW r \in Reqs, NEW d \in Depts, OB!RemoveDept(r, d) PROVE UsersTyped'
    <2>1. dept[d] \in Names
      BY <1>12, <1>t DEF OB!RemoveDept
    <2>2. QED
      BY <1>12, <1>e, <2>1 DEF OB!RemoveDept, OB!Idle, OB!Request, OB!Steps, Holds
  <1>13. ASSUME NEW r \in Reqs, NEW d \in Depts, NEW n \in Names, OB!RenameDept(r, d, n) PROVE UsersTyped'
    BY <1>13, <1>e DEF OB!RenameDept, OB!Idle, OB!Request, OB!Steps, Holds
  <1>14. ASSUME NEW r \in Reqs, OB!CountUsers(r) \/ OB!DeleteDept(r) PROVE UsersTyped'
    <2>1. busy[r] \in OB!Request /\ Holds(busy[r])
      BY <1>14, <1>a DEF OB!CountUsers, OB!DeleteDept, OB!At
    <2>2. busy[r].step = "count" => [busy[r] EXCEPT !.step = "delete"] \in OB!Request
                                    /\ Holds([busy[r] EXCEPT !.step = "delete"])
      BY <2>1 DEF OB!Request, OB!Steps, Holds
    <2>3. QED
      BY <1>14, <1>b, <1>t, <2>2 DEF OB!CountUsers, OB!DeleteDept, OB!At, OB!Leave, OB!Step, OB!Tables
  <1>15. ASSUME NEW r \in Reqs, OB!Carry(r) PROVE UsersTyped'
    <2> DEFINE them == {p \in Persons : OB!Exists(p) /\ row[p].dept = dept[busy[r].id]}
               x == [busy[r] EXCEPT !.step = "commit", !.seen = them]
    <2>1. busy[r] \in OB!Request /\ Holds(busy[r]) /\ busy[r].step = "carry"
      BY <1>15, <1>a DEF OB!Carry, OB!At
    <2>2. x \in OB!Request /\ Holds(x)
      BY <2>1 DEF OB!Request, OB!Steps, Holds
    <2>3. busy' = [busy EXCEPT ![r] = x]
      BY <1>15 DEF OB!Carry
    <2>4. QED
      BY <1>15, <1>b, <1>t, <2>2, <2>3 DEF OB!Carry, OB!Tables
  <1>16. ASSUME NEW r \in Reqs, OB!CommitRename(r) PROVE UsersTyped'
    <2>1. busy[r].name \in Names /\ busy[r].id \in Depts
      BY <1>16, <1>a DEF OB!CommitRename, OB!At, Holds
    <2>2. dept' \in [Depts -> {None} \cup Names]
      BY <1>16, <1>t, <2>1 DEF OB!CommitRename
    <2>3. row' \in [Persons -> {None} \cup OB!UserRow]
      BY <1>16, <1>t, <2>1 DEF OB!CommitRename, OB!UserRow, OB!Exists
    <2>4. QED
      BY <1>16, <1>b, <1>t, <2>2, <2>3 DEF OB!CommitRename, OB!Leave
  <1>17. QED
    BY <1>1, <1>2, <1>3, <1>4, <1>5, <1>6, <1>7, <1>8, <1>9, <1>10, <1>11, <1>12, <1>13, <1>14,
       <1>15, <1>16
    DEF OB!Next

\* While no writer of the catalogue has overlapped another request, one that is
\* on its way is alone, and what the others have read of it is still true.
WritersAlone == \A r, q \in Reqs : OB!Changes(busy[r]) /\ busy[q] # None => q = r
Knows(r) ==
  busy[r] # None =>
    /\ busy[r].step \in {"dup", "insert", "setDept", "row", "temp"} => busy[r].name \in OB!Catalogue
    /\ busy[r].step \in {"count", "delete", "carry", "commit"} => dept[busy[r].id] # None
    /\ busy[r].step \in {"count", "delete"} => busy[r].name = dept[busy[r].id]
    /\ busy[r].step = "delete" =>
         \A p \in Persons : OB!Live(p) /\ row[p].dept = busy[r].name => p \in returned
    /\ busy[r].step = "commit" =>
         \A p \in Persons : OB!Exists(p) /\ row[p].dept = dept[busy[r].id] => p \in busy[r].seen
Labelled(p) == OB!Live(p) => row[p].dept \in OB!Catalogue \/ p \in returned

UsersInv ==
  /\ UsersTyped
  /\ crossed \/ (WritersAlone /\ (\A r \in Reqs : Knows(r)) /\ \A p \in Persons : Labelled(p))

LEMMA UsersInvInit == OB!Init => UsersInv
  BY UsersTypesInit DEF UsersInv, OB!Init, WritersAlone, Knows, Labelled, OB!Live, OB!Exists, OB!Changes

\* A step of a request that is alone, or that leaves the catalogue to others.
LEMMA WritersStayAlone ==
  ASSUME UsersTyped, WritersAlone, NEW r \in Reqs, NEW x, busy' = [busy EXCEPT ![r] = x],
         busy[r] # None, OB!Changes(x) => OB!Changes(busy[r])
  PROVE  WritersAlone'
  <1>1. \A q \in Reqs : busy'[q] = IF q = r THEN x ELSE busy[q]
    BY DEF UsersTyped, OB!TypeOK
  <1>2. QED
    BY <1>1 DEF WritersAlone, OB!Changes

\* A request that changes no table but its own step.
LEMMA ReaderStep ==
  ASSUME UsersInv, ~crossed, NEW r \in Reqs, NEW x, busy' = [busy EXCEPT ![r] = x],
         busy[r] # None, OB!Changes(x) => OB!Changes(busy[r]), UNCHANGED OB!Tables,
         Knows(r)'
  PROVE  WritersAlone' /\ (\A q \in Reqs : Knows(q)') /\ \A p \in Persons : Labelled(p)'
  <1>1. WritersAlone'
    BY WritersStayAlone DEF UsersInv
  <1>2. ASSUME NEW q \in Reqs PROVE Knows(q)'
    <2>1. CASE q # r
      <3>1. busy'[q] = busy[q] /\ Knows(q)
        BY <2>1 DEF UsersInv, UsersTyped, OB!TypeOK
      <3>2. QED
        BY <3>1 DEF OB!Tables, Knows, OB!Catalogue, OB!Live, OB!Exists
    <2>2. QED
      BY <2>1
  <1>3. \A p \in Persons : Labelled(p)'
    BY DEF UsersInv, OB!Tables, Labelled, OB!Catalogue, OB!Live, OB!Exists
  <1>4. QED
    BY <1>1, <1>2, <1>3

\* A request that writes rows of users: nobody is at work on the catalogue.
LEMMA WriterStep ==
  ASSUME UsersInv, ~crossed, NEW r \in Reqs, NEW x, busy' = [busy EXCEPT ![r] = x],
         busy[r] # None, ~OB!Changes(busy[r]), ~OB!Changes(x), dept' = dept,
         x # None => x.step \in {"password"} \/ x.name \in OB!Catalogue,
         \A p \in Persons : Labelled(p) => Labelled(p)'
  PROVE  WritersAlone' /\ (\A q \in Reqs : Knows(q)') /\ \A p \in Persons : Labelled(p)'
  <1>1. WritersAlone'
    BY WritersStayAlone DEF UsersInv
  <1>2. ASSUME NEW q \in Reqs PROVE Knows(q)'
    <2>1. ~OB!Changes(busy[q]) /\ Knows(q)
      BY DEF UsersInv, WritersAlone
    <2>2. busy'[q] = IF q = r THEN x ELSE busy[q]
      BY DEF UsersInv, UsersTyped, OB!TypeOK
    <2>3. QED
      BY <2>1, <2>2 DEF Knows, OB!Changes, OB!Catalogue
  <1>3. \A p \in Persons : Labelled(p)'
    BY DEF UsersInv
  <1>4. QED
    BY <1>1, <1>2, <1>3

LEMMA UsersInvStep == UsersInv /\ OB!Next => UsersInv'
  <1> DEFINE Kept == WritersAlone' /\ (\A q \in Reqs : Knows(q)') /\ \A p \in Persons : Labelled(p)'
  <1> SUFFICES ASSUME UsersInv, OB!Next, UsersTyped', ~crossed' PROVE Kept
    BY UsersTypesStep DEF UsersInv
  <1>k. /\ row \in [Persons -> {None} \cup OB!UserRow] /\ dept \in [Depts -> {None} \cup Names]
        /\ busy \in [Reqs -> {None} \cup OB!Request] /\ crossed \in BOOLEAN
    BY DEF UsersInv, UsersTyped, OB!TypeOK
  <1>a. \A r \in Reqs : busy[r] # None => busy[r] \in OB!Request /\ Holds(busy[r])
    BY <1>k DEF UsersInv, UsersTyped
  <1>n. None \notin Names /\ None \notin OB!Request
    BY AdministrationAssumption
  <1>h. ASSUME ~crossed PROVE WritersAlone /\ (\A r \in Reqs : Knows(r)) /\ \A p \in Persons : Labelled(p)
    BY <1>h DEF UsersInv
  \* A request that starts and overlaps nobody, or changes nothing.
  <1>e. ASSUME NEW r \in Reqs, NEW x, OB!Enter(r, x), UNCHANGED OB!Tables, x # None,
               x.step \in {"count", "carry"} \/ (x.step \in {"dup", "setDept", "row"} /\ x.name \in OB!Catalogue),
               x.step \in {"count", "carry"} => dept[x.id] # None,
               x.step = "count" => x.name = dept[x.id]
        PROVE  Kept
    <2>1. ~crossed /\ busy[r] = None /\ busy' = [busy EXCEPT ![r] = x]
          /\ \A q \in Reqs \ {r} : busy[q] = None \/ (~OB!Changes(x) /\ ~OB!Changes(busy[q]))
      BY <1>e DEF OB!Enter, OB!Cross
    <2>2. \A q \in Reqs : busy'[q] = IF q = r THEN x ELSE busy[q]
      BY <2>1, <1>k
    <2>3. WritersAlone'
      BY <2>1, <2>2, <1>h DEF WritersAlone, OB!Changes
    <2>4. Knows(r)'
      BY <1>e, <2>2 DEF Knows, OB!Tables, OB!Catalogue
    <2>5. ASSUME NEW q \in Reqs \ {r} PROVE Knows(q)'
      BY <1>e, <2>1, <2>2, <1>h DEF Knows, OB!Tables, OB!Catalogue, OB!Live, OB!Exists
    <2>6. \A p \in Persons : Labelled(p)'
      BY <1>e, <2>1, <1>h DEF Labelled, OB!Tables, OB!Catalogue, OB!Live, OB!Exists
    <2>7. QED
      BY <2>3, <2>4, <2>5, <2>6
  <1>1. ASSUME NEW r \in Reqs, NEW p \in Persons, NEW n \in Names, NEW w \in BOOLEAN,
               OB!Update(r, p, n) \/ OB!Create(r, p, n, w)
        PROVE  Kept
    <2>1. CASE OB!Update(r, p, n)
      <3> DEFINE x == [OB!Idle EXCEPT !.step = "setDept", !.who = p, !.name = n]
      <3>1. OB!Enter(r, x) /\ UNCHANGED OB!Tables /\ n \in OB!Catalogue
        BY <2>1 DEF OB!Update
      <3>2. x.step = "setDept" /\ x.name = n /\ x \in OB!Request
        BY DEF OB!Idle, OB!Request, OB!Steps
      <3>3. QED
        BY <1>e, <1>n, <3>1, <3>2
    <2>2. CASE OB!Create(r, p, n, w)
      <3> DEFINE x == [OB!Idle EXCEPT !.who = p, !.name = n, !.with = w]
      <3>1. OB!Enter(r, x) /\ UNCHANGED OB!Tables /\ n \in OB!Catalogue
        BY <2>2 DEF OB!Create
      <3>2. x.step = "dup" /\ x.name = n /\ x \in OB!Request
        BY DEF OB!Idle, OB!Request, OB!Steps
      <3>3. QED
        BY <1>e, <1>n, <3>1, <3>2
    <2>3. QED
      BY <1>1, <2>1, <2>2
  <1>2. ASSUME NEW r \in Reqs, NEW f \in SUBSET Persons, NEW n \in Names, OB!Import(r, f, n) PROVE Kept
    <2> DEFINE todo == {p \in f : ~OB!Exists(p)}
               x == [OB!Idle EXCEPT !.step = "row", !.name = n, !.todo = todo]
    <2>1. OB!Enter(r, x) /\ UNCHANGED OB!Tables /\ n \in OB!Catalogue
      BY <1>2 DEF OB!Import
    <2>2. todo \in SUBSET Persons
      OBVIOUS
    <2> HIDE DEF todo
    <2>3. x.step = "row" /\ x.name = n /\ x \in OB!Request
      BY <2>2 DEF OB!Idle, OB!Request, OB!Steps
    <2> HIDE DEF x
    <2>4. QED
      BY <1>e, <1>n, <2>1, <2>3
  <1>3. ASSUME NEW r \in Reqs, OB!Duplicate(r) \/ OB!FileDone(r) \/ OB!Abort(r) PROVE Kept
    <2>1. ~crossed /\ busy[r] # None /\ UNCHANGED OB!Tables
      BY <1>3 DEF OB!Duplicate, OB!FileDone, OB!Abort, OB!At, OB!Tables
    <2>2. CASE busy' = [busy EXCEPT ![r] = None]
      <3>1. Knows(r)'
        BY <2>2, <1>k DEF Knows
      <3>2. QED
        BY <2>1, <2>2, <3>1, ReaderStep DEF OB!Changes
    <2>3. CASE busy' = [busy EXCEPT ![r].step = "insert"] /\ busy[r].step = "dup"
      <3> DEFINE x == [busy[r] EXCEPT !.step = "insert"]
      <3>1. busy' = [busy EXCEPT ![r] = x] /\ busy'[r] = x
        BY <2>3, <1>k
      <3>2. x.step = "insert" /\ x.name = busy[r].name
        BY <2>1, <1>a DEF OB!Request
      <3>3. Knows(r)'
        BY <2>1, <2>3, <3>1, <3>2, <1>h DEF Knows, OB!Tables, OB!Catalogue
      <3>4. QED
        BY <2>1, <3>1, <3>2, <3>3, ReaderStep DEF OB!Changes
    <2>4. QED
      BY <1>3, <2>2, <2>3 DEF OB!Duplicate, OB!FileDone, OB!Abort, OB!At, OB!Leave, OB!Step
  <1>4. ASSUME NEW r \in Reqs, OB!InsertUser(r) PROVE Kept
    <2>1. ~crossed /\ busy[r] # None /\ busy[r].step = "insert" /\ dept' = dept /\ returned' = returned
          /\ busy[r] \in OB!Request /\ busy[r].who \in Persons
      BY <1>4, <1>a DEF OB!InsertUser, OB!At, Holds
    <2>2. busy[r].name \in OB!Catalogue
      BY <2>1, <1>h DEF Knows
    <2>3. PICK x : busy' = [busy EXCEPT ![r] = x] /\ (x = None \/ x.step = "password")
      <3>1. [busy[r] EXCEPT !.step = "password"].step = "password"
        BY <2>1 DEF OB!Request
      <3>2. QED
        BY <1>4, <3>1 DEF OB!InsertUser, OB!Leave, OB!Step
    <2>4. \A p \in Persons : Labelled(p) => Labelled(p)'
      BY <1>4, <2>1, <2>2, <1>k DEF OB!InsertUser, OB!Insert, OB!NewRow, Labelled, OB!Live,
         OB!Exists, OB!Catalogue
    <2>5. QED
      BY <2>1, <2>3, <2>4, WriterStep DEF OB!Changes
  <1>5. ASSUME NEW r \in Reqs, OB!SetPassword(r) PROVE Kept
    <2>1. ~crossed /\ busy[r] # None /\ busy[r].step = "password" /\ dept' = dept /\ returned' = returned
          /\ busy[r].who \in Persons /\ busy' = [busy EXCEPT ![r] = None]
      BY <1>5, <1>a DEF OB!SetPassword, OB!At, Holds, OB!Leave
    <2>2. \A p \in Persons : Labelled(p) => Labelled(p)'
      BY <1>5, <2>1, <1>k DEF OB!SetPassword, Labelled, OB!Live, OB!Exists, OB!Catalogue, OB!UserRow
    <2>3. QED
      BY <2>1, <2>2, WriterStep DEF OB!Changes
  <1>6. ASSUME NEW r \in Reqs, OB!WriteDept(r) PROVE Kept
    <2>1. ~crossed /\ busy[r] # None /\ busy[r].step = "setDept" /\ dept' = dept
          /\ busy[r].who \in Persons /\ busy' = [busy EXCEPT ![r] = None]
      BY <1>6, <1>a DEF OB!WriteDept, OB!At, Holds, OB!Leave
    <2>2. busy[r].name \in OB!Catalogue
      BY <2>1, <1>h DEF Knows
    <2>3. \A p \in Persons : Labelled(p) => Labelled(p)'
      BY <1>6, <2>1, <2>2, <1>k DEF OB!WriteDept, Labelled, OB!Live, OB!Exists, OB!Catalogue, OB!UserRow
    <2>4. QED
      BY <2>1, <2>3, WriterStep DEF OB!Changes
  <1>7. ASSUME NEW r \in Reqs, OB!CreateRow(r) PROVE Kept
    <2>1. ~crossed /\ busy[r] # None /\ busy[r].step = "row" /\ dept' = dept /\ returned' = returned
          /\ busy[r] \in OB!Request
      BY <1>7, <1>a DEF OB!CreateRow, OB!At
    <2>2. busy[r].name \in OB!Catalogue
      BY <2>1, <1>h DEF Knows
    <2>3. PICK p \in busy[r].todo :
            /\ OB!Insert(p, busy[r].name)
            /\ busy' = [busy EXCEPT ![r].todo = @ \ {p}, ![r].who = p,
                                    ![r].step = IF OB!Exists(p) THEN "row" ELSE "temp"]
      BY <1>7 DEF OB!CreateRow
    <2>4. p \in Persons
      BY <2>1 DEF OB!Request
    <2> DEFINE x == [busy[r] EXCEPT !.todo = @ \ {p}, !.who = p,
                                    !.step = IF OB!Exists(p) THEN "row" ELSE "temp"]
    <2>5. x.step \in {"row", "temp"} /\ x.name = busy[r].name
      BY <2>1 DEF OB!Request
    <2>6. busy' = [busy EXCEPT ![r] = x]
      BY <2>3
    <2>7. \A v \in Persons : Labelled(v) => Labelled(v)'
      BY <2>1, <2>2, <2>3, <2>4, <1>k DEF OB!Insert, OB!NewRow, Labelled, OB!Live, OB!Exists,
         OB!Catalogue
    <2> HIDE DEF x
    <2>8. QED
      BY <2>1, <2>2, <2>5, <2>6, <2>7, WriterStep DEF OB!Changes
  <1>8. ASSUME NEW r \in Reqs, OB!RowFails(r) PROVE Kept
    <2>1. ~crossed /\ busy[r] # None /\ busy[r].step = "row" /\ UNCHANGED OB!Tables
          /\ busy[r] \in OB!Request
      BY <1>8, <1>a DEF OB!RowFails, OB!At, OB!Tables
    <2>2. busy[r].name \in OB!Catalogue
      BY <2>1, <1>h DEF Knows
    <2>3. PICK p \in busy[r].todo : busy' = [busy EXCEPT ![r].todo = @ \ {p}]
      BY <1>8 DEF OB!RowFails
    <2> DEFINE x == [busy[r] EXCEPT !.todo = @ \ {p}]
    <2>4. x.step = "row" /\ x.name = busy[r].name /\ busy' = [busy EXCEPT ![r] = x]
      BY <2>1, <2>3 DEF OB!Request
    <2>5. \A v \in Persons : Labelled(v) => Labelled(v)'
      BY <2>1 DEF OB!Tables, Labelled, OB!Live, OB!Exists, OB!Catalogue
    <2> HIDE DEF x
    <2>6. QED
      BY <2>1, <2>2, <2>4, <2>5, WriterStep DEF OB!Changes, OB!Tables
  <1>9. ASSUME NEW r \in Reqs, OB!IssueTemp(r) PROVE Kept
    <2>1. ~crossed /\ busy[r] # None /\ busy[r].step = "temp" /\ dept' = dept /\ returned' = returned
          /\ busy[r] \in OB!Request /\ busy[r].who \in Persons /\ busy' = [busy EXCEPT ![r].step = "row"]
      BY <1>9, <1>a DEF OB!IssueTemp, OB!At, Holds, OB!Step
    <2>2. busy[r].name \in OB!Catalogue
      BY <2>1, <1>h DEF Knows
    <2> DEFINE x == [busy[r] EXCEPT !.step = "row"]
    <2>3. x.step = "row" /\ x.name = busy[r].name /\ busy' = [busy EXCEPT ![r] = x]
      BY <2>1 DEF OB!Request
    <2>4. \A p \in Persons : Labelled(p) => Labelled(p)'
      BY <1>9, <2>1, <1>k DEF OB!IssueTemp, Labelled, OB!Live, OB!Exists, OB!Catalogue, OB!UserRow
    <2> HIDE DEF x
    <2>5. QED
      BY <2>1, <2>2, <2>3, <2>4, WriterStep DEF OB!Changes
  <1>10. ASSUME NEW p \in Persons, OB!Lifecycle(p) PROVE Kept
    <2>1. ~crossed /\ dept' = dept /\ busy' = busy
      BY <1>10 DEF OB!Lifecycle
    <2>2. \A v \in Persons :
            /\ OB!Exists(v)' => OB!Exists(v) /\ row'[v].dept = row[v].dept
            /\ OB!Live(v)' => OB!Exists(v)' /\ (v \in returned' \/ (OB!Live(v) /\ v \notin returned))
      BY <1>10, <1>k DEF OB!Lifecycle, OB!SoftDelete, OB!Reactivate, OB!Erase, OB!UserRow, OB!Live,
         OB!Exists
    <2>3. OB!Catalogue' = OB!Catalogue
      BY <2>1 DEF OB!Catalogue
    <2>4. ASSUME NEW q \in Reqs PROVE Knows(q)'
      BY <2>1, <2>2, <2>3, <1>h DEF Knows
    <2>6. ASSUME NEW v \in Persons PROVE Labelled(v)'
      BY <2>1, <2>2, <2>3, <1>h DEF Labelled
    <2>7. QED
      BY <2>1, <2>4, <2>6, <1>h DEF WritersAlone
  <1>11. ASSUME NEW d \in Depts, NEW n \in Names, OB!AddDept(d, n) PROVE Kept
    <2>1. ~crossed /\ busy' = busy /\ row' = row /\ returned' = returned /\ dept[d] = None
          /\ dept' = [dept EXCEPT ![d] = n]
      BY <1>11 DEF OB!AddDept
    <2>2. OB!Catalogue \subseteq OB!Catalogue'
      BY <2>1, <1>k DEF OB!Catalogue
    <2>3. ASSUME NEW q \in Reqs PROVE Knows(q)'
      <3>1. busy[q] # None /\ busy[q].step \in {"count", "delete", "carry", "commit"}
              => dept'[busy[q].id] = dept[busy[q].id]
        BY <2>1, <1>a, <1>h, <1>k DEF Knows, Holds
      <3>2. QED
        BY <2>1, <2>2, <3>1, <1>h DEF Knows, OB!Live, OB!Exists
    <2>4. ASSUME NEW v \in Persons PROVE Labelled(v)'
      BY <2>1, <2>2, <1>h DEF Labelled, OB!Live, OB!Exists
    <2>5. QED
      BY <2>1, <2>3, <2>4, <1>h DEF WritersAlone
  <1>12. ASSUME NEW r \in Reqs, NEW d \in Depts, OB!RemoveDept(r, d) PROVE Kept
    <2> DEFINE x == [OB!Idle EXCEPT !.step = "count", !.id = d, !.name = dept[d]]
    <2>1. OB!Enter(r, x) /\ UNCHANGED OB!Tables /\ dept[d] # None
      BY <1>12 DEF OB!RemoveDept
    <2>2. x.step = "count" /\ x.name = dept[d] /\ x.id = d /\ x \in OB!Request
      BY <2>1, <1>k DEF OB!Idle, OB!Request, OB!Steps
    <2> HIDE DEF x
    <2>3. QED
      BY <1>e, <1>n, <2>1, <2>2
  <1>13. ASSUME NEW r \in Reqs, NEW d \in Depts, NEW n \in Names, OB!RenameDept(r, d, n) PROVE Kept
    <2> DEFINE x == [OB!Idle EXCEPT !.step = "carry", !.id = d, !.name = n]
    <2>1. OB!Enter(r, x) /\ UNCHANGED OB!Tables /\ dept[d] # None
      BY <1>13 DEF OB!RenameDept
    <2>2. x.step = "carry" /\ x.id = d /\ x \in OB!Request
      BY <2>1, <1>k DEF OB!Idle, OB!Request, OB!Steps
    <2> HIDE DEF x
    <2>3. QED
      BY <1>e, <1>n, <2>1, <2>2
  <1>14. ASSUME NEW r \in Reqs, OB!CountUsers(r) PROVE Kept
    <2>1. ~crossed /\ busy[r] # None /\ busy[r].step = "count" /\ UNCHANGED OB!Tables
          /\ busy[r] \in OB!Request
      BY <1>14, <1>a DEF OB!CountUsers, OB!At, OB!Tables
    <2>2. CASE busy' = [busy EXCEPT ![r] = None]
      <3>1. Knows(r)'
        BY <2>2, <1>k DEF Knows
      <3>2. QED
        BY <2>1, <2>2, <3>1, ReaderStep DEF OB!Changes
    <2>3. CASE busy' = [busy EXCEPT ![r].step = "delete"] /\ OB!NobodyCarries(busy[r].name)
      <3> DEFINE x == [busy[r] EXCEPT !.step = "delete"]
      <3>1. busy' = [busy EXCEPT ![r] = x] /\ busy'[r] = x
        BY <2>3, <1>k
      <3>2. x.step = "delete" /\ x.name = busy[r].name /\ x.id = busy[r].id
        BY <2>1 DEF OB!Request
      <3> HIDE DEF x
      <3>3. Knows(r)'
        BY <2>1, <2>3, <3>1, <3>2, <1>h DEF Knows, OB!Tables, OB!Catalogue, OB!NobodyCarries,
           OB!Live, OB!Exists
      <3>4. QED
        BY <2>1, <3>1, <3>2, <3>3, ReaderStep DEF OB!Changes
    <2>4. QED
      BY <1>14, <2>2, <2>3 DEF OB!CountUsers, OB!Leave, OB!Step
  <1>15. ASSUME NEW r \in Reqs, OB!DeleteDept(r) PROVE Kept
    <2>1. ~crossed /\ busy[r] # None /\ busy[r].step = "delete" /\ row' = row /\ returned' = returned
          /\ busy[r] \in OB!Request /\ busy[r].id \in Depts /\ busy' = [busy EXCEPT ![r] = None]
          /\ dept' = [dept EXCEPT ![busy[r].id] = None]
      BY <1>15, <1>a DEF OB!DeleteDept, OB!At, Holds, OB!Leave
    <2>2. \A q \in Reqs : busy'[q] = None
      BY <2>1, <1>h, <1>k DEF WritersAlone, OB!Changes
    <2>3. ASSUME NEW v \in Persons PROVE Labelled(v)'
      <3>1. OB!Live(v) /\ row[v].dept = dept[busy[r].id] => v \in returned
        BY <2>1, <1>h DEF Knows
      <3>2. OB!Catalogue \ {dept[busy[r].id]} \subseteq OB!Catalogue'
        BY <2>1, <1>k DEF OB!Catalogue
      <3>3. QED
        BY <2>1, <3>1, <3>2, <1>h DEF Labelled, OB!Live, OB!Exists
    <2>4. QED
      BY <2>2, <2>3 DEF WritersAlone, OB!Changes, Knows
  <1>16. ASSUME NEW r \in Reqs, OB!Carry(r) PROVE Kept
    <2> DEFINE them == {p \in Persons : OB!Exists(p) /\ row[p].dept = dept[busy[r].id]}
               x == [busy[r] EXCEPT !.step = "commit", !.seen = them]
    <2>1. ~crossed /\ busy[r] # None /\ busy[r].step = "carry" /\ UNCHANGED OB!Tables
          /\ busy[r] \in OB!Request
      BY <1>16, <1>a DEF OB!Carry, OB!At, OB!Tables
    <2>2. busy' = [busy EXCEPT ![r] = x] /\ busy'[r] = x
      BY <1>16, <1>k DEF OB!Carry
    <2>3. x.step = "commit" /\ x.id = busy[r].id /\ x.seen = them
      BY <2>1 DEF OB!Request
    <2> HIDE DEF x
    <2>4. Knows(r)'
      BY <2>1, <2>2, <2>3, <1>h DEF Knows, OB!Tables, OB!Exists
    <2>5. QED
      BY <2>1, <2>2, <2>3, <2>4, ReaderStep DEF OB!Changes
  <1>17. ASSUME NEW r \in Reqs, OB!CommitRename(r) PROVE Kept
    <2> DEFINE rn == busy[r]
               free == dept[rn.id] # None /\ \A e \in Depts \ {rn.id} : dept[e] # rn.name
    <2>1. ~crossed /\ rn # None /\ rn.step = "commit" /\ returned' = returned /\ rn.id \in Depts
          /\ rn.name \in Names /\ busy' = [busy EXCEPT ![r] = None]
      BY <1>17, <1>a DEF OB!CommitRename, OB!At, Holds, OB!Leave
    <2>2. \A q \in Reqs : busy'[q] = None
      BY <2>1, <1>h, <1>k DEF WritersAlone, OB!Changes
    <2>3. CASE ~free
      BY <1>17, <2>1, <2>2, <2>3, <1>h DEF OB!CommitRename, WritersAlone, Knows, Labelled, OB!Changes,
         OB!Catalogue, OB!Live, OB!Exists
    <2>4. CASE free
      <3>1. dept' = [dept EXCEPT ![rn.id] = rn.name]
            /\ row' = [p \in Persons |-> IF p \in rn.seen /\ OB!Exists(p)
                                         THEN [row[p] EXCEPT !.dept = rn.name] ELSE row[p]]
        BY <1>17, <2>4 DEF OB!CommitRename
      <3>2. rn.name \in OB!Catalogue' /\ OB!Catalogue \ {dept[rn.id]} \subseteq OB!Catalogue'
        BY <2>1, <3>1, <1>k, <1>n DEF OB!Catalogue
      <3>3. ASSUME NEW v \in Persons PROVE Labelled(v)'
        <4>1. CASE v \in rn.seen /\ OB!Exists(v)
          <5>1. row'[v].dept = rn.name
            BY <3>1, <4>1, <1>k DEF OB!Exists, OB!UserRow
          <5>2. QED
            BY <3>2, <5>1 DEF Labelled
        <4>2. CASE ~(v \in rn.seen /\ OB!Exists(v))
          <5>1. row'[v] = row[v]
            BY <3>1, <4>2
          <5>2. OB!Live(v) => row[v].dept # dept[rn.id]
            BY <2>1, <4>2, <1>h DEF Knows, OB!Live
          <5>3. QED
            BY <2>1, <3>2, <5>1, <5>2, <1>h DEF Labelled, OB!Live, OB!Exists
        <4>3. QED
          BY <4>1, <4>2
      <3>4. QED
        BY <2>2, <3>3 DEF WritersAlone, OB!Changes, Knows
    <2>5. QED
      BY <2>3, <2>4
  <1>18. QED
    BY <1>1, <1>2, <1>3, <1>4, <1>5, <1>6, <1>7, <1>8, <1>9, <1>10, <1>11, <1>12, <1>13, <1>14,
       <1>15, <1>16, <1>17 DEF OB!Next

LEMMA UsersInvKept == UsersInv /\ [OB!Next]_userVars => UsersInv'
  <1> SUFFICES ASSUME UsersInv, [OB!Next]_userVars PROVE UsersInv'
    OBVIOUS
  <1>1. CASE OB!Next
    BY <1>1, UsersInvStep
  <1>2. CASE UNCHANGED userVars
    BY <1>2 DEF userVars, UsersInv, UsersTyped, OB!TypeOK, WritersAlone, Knows, Labelled, OB!Live,
       OB!Exists, OB!Catalogue, OB!Changes
  <1>3. QED
    BY <1>1, <1>2

LEMMA UserSteps == [AdministrationNext]_<<subject, rosterVars, usersSide, clientsSide, accessSide>>
                      => [OB!Next]_userVars
  BY DEF AdministrationNext, RosterAlone, SecretsAlone, ProjectsAlone, UsersAlone, LogoutAlone,
     ScreensAlone, HandoutsAlone, GroupsAlone, usersSide

\* The department written on a live user (users.service, departments.service) is in the
\* catalogue, unless the catalogue was written while another request was on its way or the user came
\* back from deletion.
THEOREM LabelsHaveCauses == AdministrationSpec => []LabelHasCause
  <1>1. AdministrationInit => UsersInv
    BY UsersInvInit DEF AdministrationInit
  <1>2. UsersInv /\ [AdministrationNext]_<<subject, rosterVars, usersSide, clientsSide, accessSide>>
          => UsersInv'
    BY UsersInvKept, UserSteps
  <1>3. UsersInv => LabelHasCause
    BY DEF UsersInv, LabelHasCause, OB!LabelHasCause, Labelled
  <1>4. QED
    BY <1>1, <1>2, <1>3, PTL DEF AdministrationSpec
-----------------------------------------------------------------------------
(* Back-channel logout. *)

\* The application has, or is about to have, a session of its own from s.
Comes(app, s) == <<app, s>> \in local \/ \E f \in flows : f.app = app /\ f.s = s
Told(app, s)  == <<app, s>> \in excused \/ \E p \in posts : p.app = app

\* What a revocation that is past its reads knows of a session that lives.
Seen(r, app, s) ==
  run[r] # None =>
    /\ run[r].at = 2 => s \in run[r].ids \/ <<app, s>> \in excused
    /\ run[r].at = 3 => <<app, s>> \in run[r].targets \/ <<app, s>> \in excused
    /\ run[r].at = 4 => Told(app, s)

PairSound(app, s) ==
  Comes(app, s) =>
    /\ s \in begun
    /\ s \in live => app \in clients[s]
    /\ s \notin live /\ app \notin Deaf => Told(app, s)
    /\ s \in live /\ app \notin Deaf => \A r \in Runs : Seen(r, app, s)

LogoutInv == BL!TypeOK /\ \A app \in Apps, s \in Ids : PairSound(app, s)

LEMMA LogoutInvInit == BL!Init => LogoutInv
  BY DEF BL!Init, LogoutInv, BL!TypeOK, BL!Pairs, PairSound, Comes

\* The four steps by their number.
LEMMA LogoutOrder ==
  /\ DOMAIN BL!Order = 1 .. 4 /\ Len(BL!Order) = 4
  /\ BL!Order[1] = "list" /\ BL!Order[2] = "find" /\ BL!Order[3] = "post" /\ BL!Order[4] = "delete"
  BY DEF BL!Order

LEMMA LogoutAt ==
  ASSUME BL!TypeOK, NEW r \in Runs
  PROVE  /\ BL!At(r, "list") <=> run[r] # None /\ run[r].at = 1
         /\ BL!At(r, "find") <=> run[r] # None /\ run[r].at = 2
         /\ BL!At(r, "post") <=> run[r] # None /\ run[r].at = 3
         /\ BL!At(r, "delete") <=> run[r] # None /\ run[r].at = 4
         /\ BL!Past(r, "list") <=> run[r] # None /\ run[r].at > 1
         /\ BL!Past(r, "find") <=> run[r] # None /\ run[r].at > 2
  <1>1. run[r] # None => run[r].at \in 1 .. 4
    BY LogoutOrder DEF BL!TypeOK
  <1>2. QED
    BY <1>1, LogoutOrder DEF BL!At, BL!Past

LEMMA LogoutTypesStep == BL!TypeOK /\ BL!Next => BL!TypeOK'
  <1> SUFFICES ASSUME BL!TypeOK, BL!Next PROVE BL!TypeOK'
    OBVIOUS
  <1> USE LogoutOrder DEF BL!TypeOK, BL!Pairs
  <1>1. ASSUME NEW s \in Ids, BL!SignIn(s) PROVE BL!TypeOK'
    BY <1>1 DEF BL!SignIn
  <1>2. ASSUME NEW s \in Ids, BL!RevokeQuietly(s) PROVE BL!TypeOK'
    BY <1>2 DEF BL!RevokeQuietly
  <1>3. ASSUME NEW s \in Ids, NEW app \in Apps, BL!Authorize(app, s) PROVE BL!TypeOK'
    BY <1>3 DEF BL!Authorize
  <1>4. ASSUME NEW f \in flows, BL!Exchange(f) PROVE BL!TypeOK'
    BY <1>4 DEF BL!Exchange
  <1>5. ASSUME NEW f \in flows, BL!StoreSession(f) PROVE BL!TypeOK'
    BY <1>5 DEF BL!StoreSession
  <1>6. ASSUME NEW p \in posts, BL!ReceiveLogout(p) PROVE BL!TypeOK'
    BY <1>6 DEF BL!ReceiveLogout
  <1>7. ASSUME NEW p \in posts, BL!PostFails(p) PROVE BL!TypeOK'
    BY <1>7 DEF BL!PostFails
  <1>8. ASSUME NEW l \in local, BL!LeaveApp(l) PROVE BL!TypeOK'
    BY <1>8 DEF BL!LeaveApp
  <1>9. ASSUME NEW r \in Runs, BL!Revoke(r) PROVE BL!TypeOK'
    BY <1>9 DEF BL!Revoke
  \* The next step of a revocation.
  <1>a. ASSUME NEW r \in Runs, run[r] # None, NEW ids \in SUBSET Ids, NEW targets \in SUBSET BL!Pairs,
               BL!Advance(r, ids, targets)
        PROVE  run' \in [Runs -> {None} \cup [at: DOMAIN BL!Order, ids: SUBSET Ids, targets: SUBSET BL!Pairs]]
    BY <1>a DEF BL!Advance
  <1>10. ASSUME NEW r \in Runs, BL!List(r) PROVE BL!TypeOK'
    <2>1. run' \in [Runs -> {None} \cup [at: DOMAIN BL!Order, ids: SUBSET Ids, targets: SUBSET BL!Pairs]]
      BY <1>10, <1>a DEF BL!List, BL!At
    <2>2. QED
      BY <1>10, <2>1 DEF BL!List
  <1>11. ASSUME NEW r \in Runs, BL!Find(r) PROVE BL!TypeOK'
    <2>1. run' \in [Runs -> {None} \cup [at: DOMAIN BL!Order, ids: SUBSET Ids, targets: SUBSET BL!Pairs]]
      <3>1. PICK fails \in SUBSET (run[r].ids \cap live) :
               BL!Advance(r, run[r].ids,
                 {t \in BL!Pairs : t[2] \in (run[r].ids \cap live) \ fails /\ t[1] \in clients[t[2]]})
        BY <1>11 DEF BL!Find
      <3>2. run[r] # None /\ run[r].ids \in SUBSET Ids
        BY <1>11 DEF BL!Find, BL!At
      <3>3. {t \in BL!Pairs : t[2] \in (run[r].ids \cap live) \ fails /\ t[1] \in clients[t[2]]} \in SUBSET BL!Pairs
        OBVIOUS
      <3>4. QED
        BY <1>a, <3>1, <3>2, <3>3
    <2>2. QED
      BY <1>11, <2>1 DEF BL!Find
  <1>12. ASSUME NEW r \in Runs, BL!Post(r) PROVE BL!TypeOK'
    <2>1. run' \in [Runs -> {None} \cup [at: DOMAIN BL!Order, ids: SUBSET Ids, targets: SUBSET BL!Pairs]]
      BY <1>12, <1>a DEF BL!Post, BL!At
    <2>2. QED
      BY <1>12, <2>1 DEF BL!Post, BL!At
  <1>13. ASSUME NEW r \in Runs, BL!Delete(r) PROVE BL!TypeOK'
    <2>1. run' \in [Runs -> {None} \cup [at: DOMAIN BL!Order, ids: SUBSET Ids, targets: SUBSET BL!Pairs]]
      BY <1>13, <1>a DEF BL!Delete, BL!At
    <2>2. QED
      BY <1>13, <2>1 DEF BL!Delete
  <1>14. ASSUME NEW r \in Runs, BL!DeleteFails(r) PROVE BL!TypeOK'
    BY <1>14 DEF BL!DeleteFails
  <1>15. QED
    BY <1>1, <1>2, <1>3, <1>4, <1>5, <1>6, <1>7, <1>8, <1>9, <1>10, <1>11, <1>12, <1>13, <1>14
    DEF BL!Next

LEMMA PairStep ==
  ASSUME LogoutInv, BL!Next, NEW app \in Apps, NEW s \in Ids
  PROVE  PairSound(app, s)'
  <1>t. BL!TypeOK /\ PairSound(app, s)
    BY DEF LogoutInv
  <1>k. live \subseteq begun /\ clients \in [Ids -> SUBSET Apps]
        /\ \A r \in Runs : run[r] # None => run[r].at \in 1 .. 4
    BY <1>t, LogoutOrder DEF BL!TypeOK
  <1>1. ASSUME NEW t \in Ids, BL!SignIn(t) PROVE PairSound(app, s)'
    <2>1. CASE s # t
      BY <1>1, <2>1, <1>t DEF BL!SignIn, PairSound, Comes, Told, Seen
    <2>2. CASE s = t
      BY <1>1, <2>2, <1>t DEF BL!SignIn, PairSound, Comes
    <2>3. QED
      BY <2>1, <2>2
  <1>2. ASSUME NEW t \in Ids, BL!RevokeQuietly(t) PROVE PairSound(app, s)'
    <2>1. CASE s # t
      <3>1. clients'[s] = clients[s] /\ (s \in live' <=> s \in live) /\ excused \subseteq excused'
        BY <1>2, <2>1, <1>k DEF BL!RevokeQuietly
      <3>2. QED
        BY <1>2, <3>1, <1>t DEF BL!RevokeQuietly, PairSound, Comes, Told, Seen
    <2>2. CASE s = t
      BY <1>2, <2>2, <1>k DEF BL!RevokeQuietly, PairSound, Told
    <2>3. QED
      BY <2>1, <2>2
  <1>3. ASSUME NEW t \in Ids, NEW other \in Apps, BL!Authorize(other, t) PROVE PairSound(app, s)'
    <2>1. UNCHANGED <<live, begun, local, run, posts>> /\ t \in live /\ excused \subseteq excused'
          /\ flows' = flows \cup {[app |-> other, s |-> t, step |-> "code"]}
      BY <1>3 DEF BL!Authorize
    <2>2. CASE other = app /\ t = s
      <3>1. s \in begun /\ app \in clients'[s]
        BY <1>3, <2>1, <2>2, <1>k DEF BL!Authorize
      <3>2. CASE BL!Unseen(s)
        BY <1>3, <2>1, <2>2, <3>1, <3>2 DEF BL!Authorize, PairSound, Seen, Told
      <3>3. CASE ~BL!Unseen(s)
        <4>1. \A r \in Runs : run[r] # None => run[r].at \in {1, 2} /\ (run[r].at = 2 => s \in run[r].ids)
          BY <3>3, <1>t, <1>k, LogoutAt DEF BL!Unseen
        <4>2. QED
          BY <2>1, <2>2, <3>1, <4>1 DEF PairSound, Seen
      <3>4. QED
        BY <3>2, <3>3
    <2>3. CASE ~(other = app /\ t = s)
      <3>1. (Comes(app, s)' => Comes(app, s)) /\ (app \in clients[s] => app \in clients'[s])
        BY <1>3, <2>1, <2>3, <1>k DEF BL!Authorize, Comes
      <3>2. QED
        BY <2>1, <3>1, <1>t DEF PairSound, Told, Seen
    <2>4. QED
      BY <2>2, <2>3
  <1>4. ASSUME NEW f \in flows, BL!Exchange(f) PROVE PairSound(app, s)'
    <2>1. Comes(app, s)' => Comes(app, s)
      BY <1>4, <1>t DEF BL!Exchange, Comes, BL!TypeOK
    <2>2. QED
      BY <1>4, <2>1, <1>t DEF BL!Exchange, PairSound, Told, Seen
  <1>5. ASSUME NEW f \in flows, BL!StoreSession(f) PROVE PairSound(app, s)'
    <2>1. Comes(app, s)' => Comes(app, s)
      BY <1>5 DEF BL!StoreSession, Comes
    <2>2. QED
      BY <1>5, <2>1, <1>t DEF BL!StoreSession, PairSound, Told, Seen
  <1>6. ASSUME NEW p \in posts, BL!ReceiveLogout(p) PROVE PairSound(app, s)'
    <2>1. UNCHANGED <<live, begun, clients, flows, run>> /\ excused \subseteq excused'
      BY <1>6 DEF BL!ReceiveLogout
    <2>2. CASE p.app = app
      <3>1. Comes(app, s)' => <<app, s>> \in excused' /\ Comes(app, s)
        BY <1>6, <2>2 DEF BL!ReceiveLogout, Comes
      <3>2. QED
        BY <2>1, <3>1, <1>t DEF PairSound, Told, Seen
    <2>3. CASE p.app # app
      <3>1. (Comes(app, s)' => Comes(app, s)) /\ (Told(app, s) => Told(app, s)')
        BY <1>6, <2>1, <2>3 DEF BL!ReceiveLogout, Comes, Told
      <3>2. QED
        BY <2>1, <3>1, <1>t DEF PairSound, Seen
    <2>4. QED
      BY <2>2, <2>3
  <1>7. ASSUME NEW p \in posts, BL!PostFails(p) PROVE PairSound(app, s)'
    <2>1. UNCHANGED <<live, begun, clients, flows, local, run>> /\ excused \subseteq excused'
      BY <1>7 DEF BL!PostFails
    <2>2. s \in begun /\ Told(app, s) => Told(app, s)'
      BY <1>7 DEF BL!PostFails, Told
    <2>3. QED
      BY <2>1, <2>2, <1>t DEF PairSound, Comes, Seen
  <1>8. ASSUME NEW l \in local, BL!LeaveApp(l) PROVE PairSound(app, s)'
    BY <1>8, <1>t DEF BL!LeaveApp, PairSound, Comes, Told, Seen
  \* A revocation takes a step, the others do not.
  <1>a. ASSUME NEW r \in Runs, NEW x, run' = [run EXCEPT ![r] = x],
               UNCHANGED <<live, begun, clients, flows, local>>,
               posts \subseteq posts', excused \subseteq excused',
               Comes(app, s) /\ s \in live /\ app \notin Deaf => Seen(r, app, s)'
        PROVE  PairSound(app, s)'
    <2>1. Comes(app, s)' = Comes(app, s) /\ (Told(app, s) => Told(app, s)')
      BY <1>a DEF Comes, Told
    <2>2. \A q \in Runs \ {r} : Seen(q, app, s) => Seen(q, app, s)'
      BY <1>a, <2>1, <1>t DEF Seen, BL!TypeOK
    <2>3. QED
      BY <1>a, <2>1, <2>2, <1>t DEF PairSound
  <1>b. ASSUME NEW r \in Runs, run[r] # None, run[r].at < 4, NEW ids, NEW targets, BL!Advance(r, ids, targets)
        PROVE  /\ run' = [run EXCEPT ![r] = [at |-> run[r].at + 1, ids |-> ids, targets |-> targets]]
               /\ run'[r] = [at |-> run[r].at + 1, ids |-> ids, targets |-> targets]
    <2>1. run[r].at # Len(BL!Order)
      BY <1>b, LogoutOrder
    <2>2. QED
      BY <1>b, <2>1, <1>t DEF BL!Advance, BL!TypeOK
  <1>9. ASSUME NEW r \in Runs, BL!Revoke(r) PROVE PairSound(app, s)'
    <2>1. run' = [run EXCEPT ![r] = [at |-> 1, ids |-> {}, targets |-> {}]]
          /\ run'[r] = [at |-> 1, ids |-> {}, targets |-> {}]
          /\ UNCHANGED <<live, begun, clients, flows, local, posts, excused>>
      BY <1>9, <1>t DEF BL!Revoke, BL!TypeOK
    <2>2. Seen(r, app, s)'
      BY <2>1 DEF Seen
    <2>3. QED
      BY <1>a, <2>1, <2>2
  <1>10. ASSUME NEW r \in Runs, BL!List(r) PROVE PairSound(app, s)'
    <2>1. PICK ids \in {live, {}} :
            /\ BL!Advance(r, ids, {})
            /\ excused' = IF ids = live THEN excused ELSE excused \cup (Apps \X live)
      BY <1>10 DEF BL!List
    <2>2. run[r] # None /\ run[r].at = 1 /\ UNCHANGED <<live, begun, clients, flows, local, posts>>
      BY <1>10, <1>t, LogoutAt DEF BL!List
    <2>3. run' = [run EXCEPT ![r] = [at |-> run[r].at + 1, ids |-> ids, targets |-> {}]]
          /\ run'[r] = [at |-> run[r].at + 1, ids |-> ids, targets |-> {}]
      <3>1. run[r].at # Len(BL!Order)
        BY <2>2, LogoutOrder
      <3>2. QED
        BY <2>1, <3>1, <1>t DEF BL!Advance, BL!TypeOK
    <2>4. s \in live => s \in ids \/ <<app, s>> \in excused'
      BY <2>1
    <2>5. s \in live => Seen(r, app, s)'
      BY <2>2, <2>3, <2>4 DEF Seen
    <2>6. QED
      BY <1>a, <2>1, <2>2, <2>3, <2>5
  <1>11. ASSUME NEW r \in Runs, BL!Find(r) PROVE PairSound(app, s)'
    <2>1. run[r] # None /\ run[r].at = 2 /\ UNCHANGED <<live, begun, clients, flows, local, posts>>
      BY <1>11, <1>t, LogoutAt DEF BL!Find
    <2>2. PICK fails \in SUBSET (run[r].ids \cap live) :
            /\ BL!Advance(r, run[r].ids,
                 {t \in BL!Pairs : t[2] \in (run[r].ids \cap live) \ fails /\ t[1] \in clients[t[2]]})
            /\ excused' = excused \cup (Apps \X fails)
      BY <1>11 DEF BL!Find
    <2> DEFINE targets == {t \in BL!Pairs : t[2] \in (run[r].ids \cap live) \ fails /\ t[1] \in clients[t[2]]}
    <2>3. run' = [run EXCEPT ![r] = [at |-> run[r].at + 1, ids |-> run[r].ids, targets |-> targets]]
          /\ run'[r] = [at |-> run[r].at + 1, ids |-> run[r].ids, targets |-> targets]
      <3>1. run[r].at # Len(BL!Order)
        BY <2>1, LogoutOrder
      <3>2. BL!Advance(r, run[r].ids, targets)
        BY <2>2
      <3> HIDE DEF targets
      <3>3. QED
        BY <3>1, <3>2, <1>t DEF BL!Advance, BL!TypeOK
    <2>4. Comes(app, s) /\ s \in live /\ app \notin Deaf => <<app, s>> \in targets \/ <<app, s>> \in excused'
      <3>1. Comes(app, s) /\ s \in live /\ app \notin Deaf
              => app \in clients[s] /\ (s \in run[r].ids \/ <<app, s>> \in excused)
        BY <2>1, <1>t DEF PairSound, Seen
      <3>2. QED
        BY <2>2, <3>1 DEF BL!Pairs
    <2>5. Comes(app, s) /\ s \in live /\ app \notin Deaf => Seen(r, app, s)'
      BY <2>1, <2>3, <2>4 DEF Seen
    <2> HIDE DEF targets
    <2>6. QED
      BY <1>a, <2>1, <2>2, <2>3, <2>5
  <1>12. ASSUME NEW r \in Runs, BL!Post(r) PROVE PairSound(app, s)'
    <2>1. run[r] # None /\ run[r].at = 3 /\ UNCHANGED <<live, begun, clients, flows, local, excused>>
          /\ posts' = posts \cup {[app |-> other, of |-> r] : other \in {t[1] : t \in run[r].targets} \ Deaf}
          /\ BL!Advance(r, run[r].ids, run[r].targets)
      BY <1>12, <1>t, LogoutAt DEF BL!Post
    <2>2. run' = [run EXCEPT ![r] = [at |-> run[r].at + 1, ids |-> run[r].ids, targets |-> run[r].targets]]
          /\ run'[r] = [at |-> run[r].at + 1, ids |-> run[r].ids, targets |-> run[r].targets]
      BY <1>b, <2>1
    <2>3. <<app, s>> \in run[r].targets /\ app \notin Deaf => \E p \in posts' : p.app = app
      <3> SUFFICES ASSUME <<app, s>> \in run[r].targets, app \notin Deaf PROVE \E p \in posts' : p.app = app
        OBVIOUS
      <3>1. [app |-> app, of |-> r] \in posts'
        BY <2>1
      <3>2. QED
        BY <3>1
    <2>4. Comes(app, s) /\ s \in live /\ app \notin Deaf => Told(app, s)'
      BY <2>1, <2>3, <1>t DEF PairSound, Seen, Told
    <2>5. Comes(app, s) /\ s \in live /\ app \notin Deaf => Seen(r, app, s)'
      BY <2>1, <2>2, <2>4 DEF Seen
    <2>6. QED
      BY <1>a, <2>1, <2>2, <2>5
  <1>13. ASSUME NEW r \in Runs, BL!Delete(r) PROVE PairSound(app, s)'
    <2>1. run[r] # None /\ run[r].at = 4 /\ live' = {} /\ UNCHANGED <<begun, flows, local, posts, excused>>
      BY <1>13, <1>t, LogoutAt DEF BL!Delete
    <2>2. Comes(app, s) /\ app \notin Deaf => Told(app, s)
      BY <2>1, <1>t DEF PairSound, Seen
    <2>3. QED
      BY <2>1, <2>2, <1>t DEF PairSound, Comes, Told
  <1>14. ASSUME NEW r \in Runs, BL!DeleteFails(r) PROVE PairSound(app, s)'
    <2>1. run' = [run EXCEPT ![r] = None] /\ UNCHANGED <<live, begun, clients, flows, local, posts, excused>>
          /\ run'[r] = None
      BY <1>14, <1>t DEF BL!DeleteFails, BL!TypeOK
    <2>2. Seen(r, app, s)'
      BY <2>1 DEF Seen
    <2>3. QED
      BY <1>a, <2>1, <2>2
  <1>15. QED
    BY <1>1, <1>2, <1>3, <1>4, <1>5, <1>6, <1>7, <1>8, <1>9, <1>10, <1>11, <1>12, <1>13, <1>14
    DEF BL!Next

LEMMA LogoutInvStep == LogoutInv /\ [BL!Next]_logoutVars => LogoutInv'
  <1> SUFFICES ASSUME LogoutInv, [BL!Next]_logoutVars PROVE LogoutInv'
    OBVIOUS
  <1>1. CASE BL!Next
    BY <1>1, LogoutTypesStep, PairStep DEF LogoutInv
  <1>2. CASE UNCHANGED logoutVars
    BY <1>2 DEF logoutVars, LogoutInv, BL!TypeOK, PairSound, Comes, Told, Seen
  <1>3. QED
    BY <1>1, <1>2

LEMMA LogoutSteps == [AdministrationNext]_<<subject, rosterVars, usersSide, clientsSide, accessSide>>
                      => [BL!Next]_logoutVars
  BY DEF AdministrationNext, RosterAlone, SecretsAlone, ProjectsAlone, UsersAlone, LogoutAlone,
     ScreensAlone, HandoutsAlone, GroupsAlone, accessSide

\* An application with a logout address keeps a session whose sign-on session ended only while a post to
\* it is on its way or for a cause that is recorded: it came after the revocation had looked, the
\* read failed, the token was lost, the session ended alone (backchannel-logout.service).
THEOREM AppLogoutsHaveCauses == AdministrationSpec => []AppLogoutHasCause
  <1>1. AdministrationInit => LogoutInv
    BY LogoutInvInit DEF AdministrationInit
  <1>2. LogoutInv /\ [AdministrationNext]_<<subject, rosterVars, usersSide, clientsSide, accessSide>>
          => LogoutInv'
    BY LogoutInvStep, LogoutSteps
  <1>3. LogoutInv => AppLogoutHasCause
    <2> SUFFICES ASSUME LogoutInv, NEW l \in local, l[2] \notin live, l[1] \notin Deaf
                 PROVE  l \in excused \/ \E p \in posts : p.app = l[1]
      BY DEF AppLogoutHasCause, BL!AppLogoutHasCause
    <2>1. l[1] \in Apps /\ l[2] \in Ids /\ l = <<l[1], l[2]>>
      BY DEF LogoutInv, BL!TypeOK, BL!Pairs
    <2>2. Told(l[1], l[2])
      BY <2>1 DEF LogoutInv, PairSound, Comes
    <2>3. QED
      BY <2>1, <2>2 DEF Told
  <1>4. QED
    BY <1>1, <1>2, <1>3, PTL DEF AdministrationSpec
-----------------------------------------------------------------------------
(* Screens with a list of their own. *)

\* A choice that was opened while nothing else was in flight is the only one
\* anything is asked for until it is closed.
OneChoice == open # None /\ ~late => \A ch \in Choices \ {open} : loads[ch] = 0 /\ acts[ch] = 0

\* A screen that asks for its list on demand empties the old one.
ScreenInv == SC!TypeOK /\ OneChoice /\ SC!WrongListHasCause

LEMMA AskingResets == \A s \in SC!Screens : s.asks => s.resets
  BY DEF SC!Screens, SC!Plain, SC!MembersDrawer, SC!DepartmentMembersDrawer, SC!UserGroupsDrawer,
     SC!ClientGroupsPanel, SC!AdminsPanel, SC!ImportModal, SC!UserList, SC!UserPicker, SC!AuditList, SC!Docs

LEMMA ScreenInvInit == SC!Init => ScreenInv
  <1> SUFFICES ASSUME SC!Init PROVE ScreenInv
    OBVIOUS
  <1>1. 0 \in 0 .. MaxInFlight
    BY AdministrationAssumption
  <1>2. SC!TypeOK
    BY <1>1 DEF SC!Init, SC!TypeOK, SC!Nothing
  <1>3. QED
    BY <1>2 DEF SC!Init, ScreenInv, OneChoice, SC!WrongListHasCause

LEMMA ScreenTypesStep == SC!TypeOK /\ SC!Next => SC!TypeOK'
  <1> SUFFICES ASSUME SC!TypeOK, SC!Next PROVE SC!TypeOK'
    OBVIOUS
  <1> DEFINE Counts == [Choices -> 0 .. MaxInFlight]
             Lists  == {None} \cup [of: Choices, mixed: BOOLEAN]
  <1>m. MaxInFlight \in Nat /\ MaxInFlight >= 1
    BY AdministrationAssumption
  <1>t. /\ screen \in SC!Screens /\ open \in Choices \cup {None} /\ rows \in Lists
        /\ loads \in Counts /\ acts \in Counts /\ owed \in BOOLEAN /\ late \in BOOLEAN
    BY DEF SC!TypeOK
  <1>q. ASSUME screen' \in SC!Screens, open' \in Choices \cup {None}, rows' \in Lists,
               loads' \in Counts, acts' \in Counts, owed' \in BOOLEAN, late' \in BOOLEAN
        PROVE  SC!TypeOK'
    BY <1>q DEF SC!TypeOK
  <1>l. \A ch \in Choices : SC!ListOf(ch) \in Lists
    BY DEF SC!ListOf
  <1>0. SC!Nothing \in Counts
    BY <1>m DEF SC!Nothing
  \* One request more, one less.
  <1>u. ASSUME NEW f \in Counts, NEW ch \in Choices, f[ch] < MaxInFlight
        PROVE  [f EXCEPT ![ch] = @ + 1] \in Counts
    BY <1>u, <1>m
  <1>d. ASSUME NEW f \in Counts, NEW ch \in Choices, f[ch] > 0
        PROVE  [f EXCEPT ![ch] = @ - 1] \in Counts
    BY <1>d, <1>m
  <1> HIDE DEF Counts, Lists
  <1>1. ASSUME NEW ch \in Choices, SC!Choose(ch) PROVE SC!TypeOK'
    BY <1>1, <1>t, <1>q, <1>l, <1>u DEF SC!Choose, SC!Emptied, Lists
  <1>2. ASSUME NEW ch \in Choices, SC!Arrive(ch) \/ SC!Fail(ch) PROVE SC!TypeOK'
    BY <1>2, <1>t, <1>q, <1>l, <1>d DEF SC!Arrive, SC!Fail
  <1>3. ASSUME NEW ch \in Choices, SC!ActEnds(ch) PROVE SC!TypeOK'
    <2>1. acts' \in Counts /\ UNCHANGED <<screen, late>>
      BY <1>3, <1>t, <1>d DEF SC!ActEnds
    <2>2. CASE SC!Reload(ch)
      BY <2>1, <2>2, <1>t, <1>q, <1>u DEF SC!Reload, Lists
    <2>3. CASE SC!Patch(ch)
      <3>1. rows # None => [rows EXCEPT !.mixed = @ \/ ch # open] \in Lists
        BY <1>t DEF Lists
      <3>2. QED
        BY <2>1, <2>3, <3>1, <1>t, <1>q DEF SC!Patch
    <2>4. CASE SC!Show(ch)
      BY <2>1, <2>4, <1>t, <1>q, <1>l DEF SC!Show
    <2>5. QED
      BY <1>3, <2>2, <2>3, <2>4 DEF SC!ActEnds
  <1>4. ASSUME NEW ch \in Choices, SC!ActFails(ch) PROVE SC!TypeOK'
    BY <1>4, <1>t, <1>q, <1>d DEF SC!ActFails
  <1>5. CASE SC!Close
    BY <1>5, <1>0, <1>t, <1>q DEF SC!Close, Lists
  <1>6. CASE SC!Ask
    <2>1. open \in Choices /\ loads[open] < MaxInFlight
      BY <1>6, <1>t, <1>m DEF SC!Ask, SC!Idle, SC!InFlight, Counts
    <2>2. QED
      BY <1>6, <2>1, <1>t, <1>q, <1>u DEF SC!Ask
  <1>7. CASE SC!Act
    <2>1. open \in Choices /\ acts[open] < MaxInFlight
      BY <1>7, <1>t DEF SC!Act
    <2>2. QED
      BY <1>7, <2>1, <1>t, <1>q, <1>u DEF SC!Act
  <1>8. QED
    BY <1>1, <1>2, <1>3, <1>4, <1>5, <1>6, <1>7 DEF SC!Next

LEMMA ScreenInvStep == ScreenInv /\ [SC!Next]_screenVars => ScreenInv'
  <1> SUFFICES ASSUME ScreenInv, [SC!Next]_screenVars PROVE ScreenInv'
    OBVIOUS
  <1>t. SC!TypeOK /\ OneChoice /\ SC!WrongListHasCause
    BY DEF ScreenInv
  <1>k. loads \in [Choices -> 0 .. MaxInFlight] /\ acts \in [Choices -> 0 .. MaxInFlight]
        /\ MaxInFlight \in Nat /\ screen \in SC!Screens
    BY <1>t, AdministrationAssumption DEF SC!TypeOK
  <1>1. ASSUME NEW ch \in Choices, SC!Choose(ch) PROVE OneChoice' /\ SC!WrongListHasCause'
    <2>1. OneChoice'
      BY <1>1, <1>k DEF SC!Choose, OneChoice, SC!InFlight
    <2>2. SC!WrongListHasCause'
      BY <1>1, <1>k, AskingResets DEF SC!Choose, SC!WrongListHasCause, SC!Emptied, SC!ListOf
    <2>3. QED
      BY <2>1, <2>2
  <1>2. ASSUME NEW ch \in Choices, SC!Arrive(ch) PROVE OneChoice' /\ SC!WrongListHasCause'
    BY <1>2, <1>t, <1>k DEF SC!Arrive, OneChoice, SC!WrongListHasCause, SC!ListOf
  <1>3. ASSUME NEW ch \in Choices, SC!Fail(ch) \/ SC!ActFails(ch) PROVE OneChoice' /\ SC!WrongListHasCause'
    BY <1>3, <1>t, <1>k DEF SC!Fail, SC!ActFails, OneChoice, SC!WrongListHasCause
  <1>4. ASSUME NEW ch \in Choices, SC!ActEnds(ch) PROVE OneChoice' /\ SC!WrongListHasCause'
    <2>1. acts[ch] > 0 /\ acts' = [acts EXCEPT ![ch] = @ - 1] /\ UNCHANGED <<screen, late>>
      BY <1>4 DEF SC!ActEnds
    <2>2. open # None /\ ~late => ch = open
      BY <2>1, <1>t DEF OneChoice
    <2>3. CASE SC!Reload(ch)
      BY <2>1, <2>2, <2>3, <1>t, <1>k DEF SC!Reload, OneChoice, SC!WrongListHasCause
    <2>4. CASE SC!Patch(ch)
      <3>1. OneChoice'
        BY <2>1, <2>2, <2>4, <1>t, <1>k DEF SC!Patch, OneChoice
      <3>2. open # None /\ rows # None /\ ~late => rows'.of = rows.of /\ rows'.mixed = rows.mixed /\ rows' = rows
        BY <2>2, <2>4, <1>t DEF SC!Patch, SC!TypeOK
      <3>3. SC!WrongListHasCause'
        BY <2>1, <2>4, <3>2, <1>t DEF SC!Patch, SC!WrongListHasCause
      <3>4. QED
        BY <3>1, <3>3
    <2>5. CASE SC!Show(ch)
      BY <2>1, <2>2, <2>5, <1>t, <1>k DEF SC!Show, SC!ListOf, OneChoice, SC!WrongListHasCause
    <2>6. QED
      BY <1>4, <2>3, <2>4, <2>5 DEF SC!ActEnds
  <1>5. ASSUME SC!Close PROVE OneChoice' /\ SC!WrongListHasCause'
    BY <1>5 DEF SC!Close, OneChoice, SC!WrongListHasCause
  <1>6. ASSUME SC!Ask \/ SC!Act PROVE OneChoice' /\ SC!WrongListHasCause'
    BY <1>6, <1>t, <1>k DEF SC!Ask, SC!Act, OneChoice, SC!WrongListHasCause
  <1>7. CASE UNCHANGED screenVars
    BY <1>7 DEF screenVars, ScreenInv, SC!TypeOK, OneChoice, SC!WrongListHasCause
  <1>8. CASE SC!Next
    <2>1. OneChoice' /\ SC!WrongListHasCause'
      BY <1>8, <1>1, <1>2, <1>3, <1>4, <1>5, <1>6 DEF SC!Next
    <2>2. QED
      BY <1>8, <1>t, <2>1, ScreenTypesStep DEF ScreenInv
  <1>9. QED
    BY <1>7, <1>8

LEMMA ScreenSteps == [AdministrationNext]_<<subject, rosterVars, usersSide, clientsSide, accessSide>>
                      => [SC!Next]_screenVars
  BY DEF AdministrationNext, RosterAlone, SecretsAlone, ProjectsAlone, UsersAlone, LogoutAlone,
     ScreensAlone, HandoutsAlone, GroupsAlone, accessSide

\* A drawer of the portal shows a list under the title of another choice only when the
\* request for another choice was in flight as it was opened, or the screen does not empty its list
\* (AdminGroups, AdminDepartments, AdminUsers).
THEOREM WrongListsHaveCauses == AdministrationSpec => []WrongListHasCause
  <1>1. AdministrationInit => ScreenInv
    BY ScreenInvInit DEF AdministrationInit
  <1>2. ScreenInv /\ [AdministrationNext]_<<subject, rosterVars, usersSide, clientsSide, accessSide>>
          => ScreenInv'
    BY ScreenInvStep, ScreenSteps
  <1>3. ScreenInv => WrongListHasCause
    BY DEF ScreenInv, WrongListHasCause
  <1>4. QED
    BY <1>1, <1>2, <1>3, PTL DEF AdministrationSpec
-----------------------------------------------------------------------------
(* What is handed out once. *)

Removes(e) == e.way \in {"unhook", "disable"}
\* A request nothing has interfered with is the only one, nothing is on the card
\* meanwhile, and what the server accepts is what it was or what the request made.
LoneRequest ==
  \A e \in asked : e.of \notin unsure =>
    /\ asked = {e} /\ card = None /\ e.heard
    /\ ~e.served => inForce[e.of] = 0 \/ noted[e.of] = inForce[e.of]
    /\ e.served => inForce[e.of] = (IF Removes(e) THEN 0 ELSE e.n)
\* What the card shows, if nothing has interfered with it, is what the server accepts.
CardIsInForce == card # None /\ card.of \notin unsure => asked = {} /\ inForce[card.of] = card.n

HandoutInv == HO!TypeOK /\ LoneRequest /\ CardIsInForce /\ HO!SeenIsInForce

LEMMA HandoutInvInit == HO!Init => HandoutInv
  BY AdministrationAssumption
  DEF HO!Init, HandoutInv, HO!TypeOK, LoneRequest, CardIsInForce, HO!SeenIsInForce

LEMMA HandoutAsk ==
  ASSUME HandoutInv, NEW way \in HO!Ways, NEW cd \in HO!Credentials, HO!Ask(way, cd)
  PROVE  HandoutInv'
  <1>m. MaxAsks \in Nat /\ None \notin HO!Requests
    BY AdministrationAssumption
  <1> DEFINE e == [n |-> asks + 1, of |-> cd, way |-> way, served |-> FALSE, heard |-> TRUE]
  <1>1. e.of = cd /\ e.served = FALSE /\ e.heard = TRUE
    OBVIOUS
  <1>2. card = None /\ asked' = asked \cup {e} /\ UNCHANGED <<page, drawer, card, inForce, noted>>
        /\ unsure' = IF asked = {} THEN unsure ELSE unsure \cup {cd} \cup {f.of : f \in asked}
    BY DEF HO!Ask
  <1>3. HO!TypeOK'
    <2>1. asks \in 0 .. MaxAsks /\ asks < MaxAsks /\ asks' = asks + 1
      BY DEF HO!Ask, HandoutInv, HO!TypeOK
    <2>2. asks + 1 \in 1 .. MaxAsks /\ asks' \in 0 .. MaxAsks
      BY <2>1, <1>m
    <2>3. e \in HO!Requests
      BY <2>2 DEF HO!Requests
    <2>4. held' \subseteq {"saving", "panel", "busy"}
      BY DEF HO!Ask, HO!Flag, HandoutInv, HO!TypeOK
    <2>5. unsure' \subseteq HO!Credentials
      BY <1>2 DEF HandoutInv, HO!TypeOK, HO!Requests
    <2> HIDE DEF e
    <2>6. QED
      BY <1>2, <2>2, <2>3, <2>4, <2>5 DEF HandoutInv, HO!TypeOK
  <1> HIDE DEF e
  <1>4. LoneRequest'
    <2> SUFFICES ASSUME NEW f \in asked', f.of \notin unsure'
                 PROVE  /\ asked' = {f} /\ card' = None /\ f.heard
                        /\ ~f.served => inForce'[f.of] = 0 \/ noted'[f.of] = inForce'[f.of]
                        /\ f.served => inForce'[f.of] = (IF Removes(f) THEN 0 ELSE f.n)
      BY DEF LoneRequest
    <2>1. asked = {} /\ f = e
      BY <1>1, <1>2
    <2>2. inForce[cd] = 0 \/ noted[cd] = inForce[cd]
      BY <1>1, <1>2, <2>1 DEF HandoutInv, HO!SeenIsInForce
    <2>3. QED
      BY <1>1, <1>2, <2>1, <2>2
  <1>5. CardIsInForce' /\ HO!SeenIsInForce'
    BY <1>1, <1>2 DEF HandoutInv, CardIsInForce, HO!SeenIsInForce
  <1>6. QED
    BY <1>3, <1>4, <1>5 DEF HandoutInv

LEMMA RequestMarked ==
  ASSUME NEW N, NEW C, NEW W,
         NEW e \in [n: N, of: C, way: W, served: BOOLEAN, heard: BOOLEAN]
  PROVE  /\ e.of \in C /\ e.n \in N
         /\ [e EXCEPT !.served = TRUE] \in [n: N, of: C, way: W, served: BOOLEAN, heard: BOOLEAN]
         /\ [e EXCEPT !.heard = FALSE] \in [n: N, of: C, way: W, served: BOOLEAN, heard: BOOLEAN]
         /\ [e EXCEPT !.served = TRUE].of = e.of /\ [e EXCEPT !.heard = FALSE].of = e.of
  OBVIOUS

LEMMA HandoutInvStep == HandoutInv /\ HO!Next => HandoutInv'
  <1> SUFFICES ASSUME HandoutInv, HO!Next PROVE HandoutInv'
    OBVIOUS
  <1>t. HO!TypeOK /\ LoneRequest /\ CardIsInForce /\ HO!SeenIsInForce
    BY DEF HandoutInv
  <1>k. /\ page \in {"workspace", "profile", "login"} /\ drawer \in Places \cup {None}
        /\ held \subseteq {"saving", "panel", "busy"}
        /\ asked \subseteq HO!Requests /\ card \in HO!Requests \cup {None}
        /\ asks \in 0 .. MaxAsks
        /\ inForce \in [HO!Credentials -> 0 .. MaxAsks] /\ noted \in [HO!Credentials -> 0 .. MaxAsks]
        /\ unsure \subseteq HO!Credentials
    BY <1>t DEF HO!TypeOK
  <1>m. MaxAsks \in Nat /\ None \notin HO!Requests
    BY AdministrationAssumption
  <1>r. ASSUME NEW e \in HO!Requests
        PROVE  /\ e.of \in HO!Credentials /\ e.n \in 0 .. MaxAsks
               /\ [e EXCEPT !.served = TRUE] \in HO!Requests /\ [e EXCEPT !.heard = FALSE] \in HO!Requests
               /\ [e EXCEPT !.served = TRUE].of = e.of /\ [e EXCEPT !.heard = FALSE].of = e.of
    <2>1. e.n \in 0 .. MaxAsks
      BY <1>m DEF HO!Requests
    <2>2. QED
      BY <2>1, RequestMarked DEF HO!Requests
  <1>1. ASSUME NEW p \in Places,
               \/ HO!CreateApp(p) \/ HO!Rotate(p) \/ HO!SaveWebhook(p) \/ HO!RemoveWebhook(p)
               \/ HO!Enrol(p) \/ HO!Confirm(p) \/ HO!Disable(p)
        PROVE  HandoutInv'
    <2>1. <<p, "secret">> \in HO!Credentials /\ <<p, "hook">> \in HO!Credentials /\ <<p, "codes">> \in HO!Credentials
      BY DEF HO!Credentials, HO!Kinds
    <2>2. {"create", "rotate", "webhook", "unhook", "enrol", "confirm", "disable"} \subseteq HO!Ways
      BY DEF HO!Ways
    <2>3. PICK way \in HO!Ways, cd \in HO!Credentials : HO!Ask(way, cd)
      BY <1>1, <2>1, <2>2 DEF HO!CreateApp, HO!Rotate, HO!SaveWebhook, HO!RemoveWebhook, HO!Enrol,
         HO!Confirm, HO!Disable
    <2>4. QED
      BY <2>3, HandoutAsk
  <1>2. ASSUME NEW p \in Places, HO!Open(p) PROVE HandoutInv'
    BY <1>2, <1>t DEF HO!Open, HandoutInv, HO!TypeOK, LoneRequest, CardIsInForce, HO!SeenIsInForce
  <1>3. CASE HO!Close
    BY <1>3, <1>t DEF HO!Close, HandoutInv, HO!TypeOK, LoneRequest, CardIsInForce, HO!SeenIsInForce
  <1>4. ASSUME NEW e \in asked, HO!Serve(e) PROVE HandoutInv'
    <2> DEFINE f == [e EXCEPT !.served = TRUE]
    <2>1. ~e.served /\ asked' = (asked \ {e}) \cup {f}
          /\ UNCHANGED <<page, drawer, held, card, asks, noted, unsure>>
          /\ inForce' = [inForce EXCEPT ![e.of] = IF Removes(e) THEN 0 ELSE e.n]
      BY <1>4 DEF HO!Serve, Removes
    <2>2. e \in HO!Requests /\ f \in HO!Requests /\ f.of = e.of /\ e.of \in HO!Credentials
      BY <1>k, <1>r
    <2>3. f.n = e.n /\ f.way = e.way /\ f.heard = e.heard /\ f.served = TRUE
      BY <2>2 DEF HO!Requests
    <2> HIDE DEF f
    <2>4. HO!TypeOK'
      <3>1. inForce' \in [HO!Credentials -> 0 .. MaxAsks]
        <4>1. (IF Removes(e) THEN 0 ELSE e.n) \in 0 .. MaxAsks
          <5>1. 0 \in 0 .. MaxAsks /\ e.n \in 0 .. MaxAsks
            BY <2>2, <1>m DEF HO!Requests
          <5>2. QED
            BY <5>1
        <4>2. QED
          BY <2>1, <4>1, <1>k
      <3>2. QED
        BY <2>1, <2>2, <3>1, <1>k DEF HO!TypeOK
    <2>5. \A cd \in HO!Credentials : inForce'[cd] = IF cd = e.of THEN (IF Removes(e) THEN 0 ELSE e.n) ELSE inForce[cd]
      BY <2>1, <1>k
    <2>6. LoneRequest'
      <3> SUFFICES ASSUME NEW g \in asked', g.of \notin unsure'
                   PROVE  /\ asked' = {g} /\ card' = None /\ g.heard
                          /\ ~g.served => inForce'[g.of] = 0 \/ noted'[g.of] = inForce'[g.of]
                          /\ g.served => inForce'[g.of] = (IF Removes(g) THEN 0 ELSE g.n)
        BY DEF LoneRequest
      <3>1. CASE g = f
        <4>1. asked = {e} /\ card = None /\ e.heard
          BY <2>1, <2>2, <3>1, <1>t DEF LoneRequest
        <4>2. QED
          BY <2>1, <2>2, <2>3, <2>5, <3>1, <4>1 DEF Removes
      <3>2. CASE g # f
        BY <2>1, <3>2, <1>t DEF LoneRequest
      <3>3. QED
        BY <3>1, <3>2
    <2>7. CardIsInForce'
      BY <2>1, <1>t DEF CardIsInForce
    <2>8. HO!SeenIsInForce'
      BY <2>1, <2>2, <2>5, <1>t DEF HO!SeenIsInForce
    <2>9. QED
      BY <2>4, <2>6, <2>7, <2>8 DEF HandoutInv
  <1>5. ASSUME NEW e \in asked, HO!Refuse(e) PROVE HandoutInv'
    <2>1. ~e.served /\ asked' = asked \ {e} /\ UNCHANGED <<page, drawer, card, asks, inForce, noted, unsure>>
          /\ held' \subseteq held
      BY <1>5 DEF HO!Refuse, HO!Released
    <2>2. HO!TypeOK'
      BY <2>1, <1>k DEF HO!TypeOK
    <2>3. LoneRequest' /\ CardIsInForce'
      BY <2>1, <1>t DEF LoneRequest, CardIsInForce
    <2>4. HO!SeenIsInForce'
      BY <2>1, <1>t DEF HO!SeenIsInForce, LoneRequest
    <2>5. QED
      BY <2>2, <2>3, <2>4 DEF HandoutInv
  <1>6. ASSUME NEW e \in asked, HO!Answer(e) PROVE HandoutInv'
    <2>1. e.served /\ asked' = asked \ {e} /\ UNCHANGED <<page, asks, inForce, noted, unsure>>
          /\ held' \subseteq held /\ drawer' \in {None, drawer}
          /\ card' = IF e.heard /\ ~Removes(e) THEN e ELSE card
      BY <1>6 DEF HO!Answer, HO!Released, HO!Shown, Removes
    <2>2. e \in HO!Requests /\ e # None
      BY <1>k, <1>m
    <2>3. HO!TypeOK'
      BY <2>1, <2>2, <1>k DEF HO!TypeOK
    <2>4. LoneRequest'
      BY <2>1, <1>t DEF LoneRequest
    <2>5. CardIsInForce'
      BY <2>1, <2>2, <1>t DEF LoneRequest, CardIsInForce
    <2>6. HO!SeenIsInForce'
      <3> SUFFICES ASSUME NEW cd \in HO!Credentials, cd \notin unsure, inForce[cd] # 0, ~\E f \in asked' : f.of = cd,
                          noted[cd] # inForce[cd]
                   PROVE  card' # None /\ card'.of = cd
        BY <2>1 DEF HO!SeenIsInForce
      <3>1. CASE e.of = cd
        BY <2>1, <2>2, <3>1, <1>t DEF LoneRequest
      <3>2. CASE e.of # cd
        <4>1. card # None /\ card.of = cd
          BY <2>1, <3>2, <1>t DEF HO!SeenIsInForce
        <4>2. QED
          BY <4>1, <1>t DEF CardIsInForce
      <3>3. QED
        BY <3>1, <3>2
    <2>7. QED
      BY <2>3, <2>4, <2>5, <2>6 DEF HandoutInv
  <1>7. ASSUME NEW e \in asked, HO!Lose(e) PROVE HandoutInv'
    <2> DEFINE f == [e EXCEPT !.heard = FALSE]
    <2>1. UNCHANGED <<page, drawer, card, asks, inForce, noted>> /\ unsure' = unsure \cup {e.of}
          /\ asked' = (asked \ {e}) \cup (IF e.served THEN {} ELSE {f}) /\ held' \subseteq held
      BY <1>7 DEF HO!Lose, HO!Released
    <2>2. e \in HO!Requests /\ f \in HO!Requests /\ f.of = e.of /\ e.of \in HO!Credentials
      BY <1>k, <1>r
    <2> HIDE DEF f
    <2>3. HO!TypeOK'
      BY <2>1, <2>2, <1>k DEF HO!TypeOK
    <2>4. LoneRequest'
      BY <2>1, <2>2, <1>t DEF LoneRequest
    <2>5. CardIsInForce'
      BY <2>1, <1>t DEF CardIsInForce
    <2>6. HO!SeenIsInForce'
      BY <2>1, <1>t DEF HO!SeenIsInForce
    <2>7. QED
      BY <2>3, <2>4, <2>5, <2>6 DEF HandoutInv
  <1>8. CASE HO!Reload
    <2>1. UNCHANGED <<page, asks, inForce, noted>> /\ card' = None /\ drawer' = None /\ held' = {}
          /\ asked' = {[e EXCEPT !.heard = FALSE] : e \in asked}
          /\ unsure' = unsure \cup {e.of : e \in asked} \cup (IF card = None THEN {} ELSE {card.of})
      BY <1>8 DEF HO!Reload
    <2>a. \A e \in asked : [e EXCEPT !.heard = FALSE] \in HO!Requests /\ [e EXCEPT !.heard = FALSE].of = e.of
      BY <1>k, <1>r
    <2>2. \A f \in asked' : f \in HO!Requests /\ \E e \in asked : f.of = e.of
      BY <2>1, <2>a, Zenon
    <2>3. \A e \in asked : \E f \in asked' : f.of = e.of
      BY <2>1, <2>a, Zenon
    <2>4. HO!TypeOK'
      <3>1. unsure' \subseteq HO!Credentials
        BY <2>1, <1>k, <1>r
      <3>2. QED
        BY <2>1, <2>2, <3>1, <1>k DEF HO!TypeOK
    <2>5. \A f \in asked' : f.of \in unsure'
      BY <2>1, <2>2
    <2>6. LoneRequest' /\ CardIsInForce'
      BY <2>1, <2>5 DEF LoneRequest, CardIsInForce
    <2>7. HO!SeenIsInForce'
      BY <2>1, <2>3, <1>t DEF HO!SeenIsInForce
    <2>8. QED
      BY <2>4, <2>6, <2>7 DEF HandoutInv
  <1>9. CASE HO!PutAway
    <2>1. UNCHANGED <<page, held, asked, asks, inForce>> /\ card # None /\ card' = None
          /\ noted' = [noted EXCEPT ![card.of] = card.n] /\ drawer' \in {None, drawer}
          /\ unsure' = IF asked = {} /\ inForce[card.of] = card.n THEN unsure \ {card.of} ELSE unsure
      BY <1>9 DEF HO!PutAway
    <2>2. card \in HO!Requests /\ card.of \in HO!Credentials /\ card.n \in 0 .. MaxAsks
      BY <2>1, <1>k, <1>r
    <2>3. HO!TypeOK'
      BY <2>1, <2>2, <1>k DEF HO!TypeOK
    <2>4. \A cd \in HO!Credentials : noted'[cd] = IF cd = card.of THEN card.n ELSE noted[cd]
      BY <2>1, <1>k
    <2>5. LoneRequest'
      <3> SUFFICES ASSUME NEW g \in asked, g.of \notin unsure' PROVE FALSE
        BY <2>1 DEF LoneRequest
      <3>1. g.of \notin unsure
        BY <2>1
      <3>2. QED
        BY <2>1, <3>1, <1>t DEF LoneRequest
    <2>6. CardIsInForce'
      BY <2>1 DEF CardIsInForce
    <2>7. HO!SeenIsInForce'
      <3> SUFFICES ASSUME NEW cd \in HO!Credentials, cd \notin unsure', inForce[cd] # 0, ~\E f \in asked : f.of = cd
                   PROVE  noted'[cd] = inForce[cd]
        BY <2>1 DEF HO!SeenIsInForce
      <3>1. CASE cd = card.of
        BY <2>1, <2>4, <3>1, <1>t DEF CardIsInForce
      <3>2. CASE cd # card.of
        BY <2>1, <2>4, <3>2, <1>t DEF HO!SeenIsInForce
      <3>3. QED
        BY <3>1, <3>2
    <2>8. QED
      BY <2>3, <2>5, <2>6, <2>7 DEF HandoutInv
  <1>10. QED
    BY <1>1, <1>2, <1>3, <1>4, <1>5, <1>6, <1>7, <1>8, <1>9 DEF HO!Next

LEMMA HandoutInvKept == HandoutInv /\ [HO!Next]_handoutVars => HandoutInv'
  <1> SUFFICES ASSUME HandoutInv, [HO!Next]_handoutVars PROVE HandoutInv'
    OBVIOUS
  <1>1. CASE HO!Next
    BY <1>1, HandoutInvStep
  <1>2. CASE UNCHANGED handoutVars
    BY <1>2 DEF handoutVars, HandoutInv, HO!TypeOK, LoneRequest, CardIsInForce, HO!SeenIsInForce
  <1>3. QED
    BY <1>1, <1>2
-----------------------------------------------------------------------------
(* Secrets of a client. *)

SecretRow == [status: CS!Statuses, left: 0 .. Grace]
Rotation  == [step: {"rotate", "update", "insert"}, rows: SUBSET (1 .. MaxSecrets)]
TokenAsk  == [step: {"ask", "verified"}, secret: 1 .. MaxSecrets, dead: SUBSET (1 .. MaxSecrets)]

LEMMA SameCardinality == \A S : CS!Cardinality(S) = Cardinality(S)
  BY DEF CS!Cardinality, Cardinality

\* A rotation in flight has room for the secret it will insert.
Room == Len(secrets) + Cardinality(CS!Rotating) <= MaxSecrets
SecretsTyped == CS!TypeOK /\ Len(secrets) >= 1 /\ Room

LEMMA WorkKinds ==
  ASSUME CS!TypeOK, NEW r \in Reqs, work[r] # None
  PROVE  /\ work[r].step \in {"rotate", "update", "insert"} => work[r] \in Rotation
         /\ work[r].step \in {"ask", "verified"} => work[r] \in TokenAsk
         /\ work[r].step \in {"rotate", "update", "insert", "ask", "verified"}
  BY DEF CS!TypeOK, CS!Work, Rotation, TokenAsk

LEMMA RotatingFinite ==
  /\ IsFiniteSet(CS!Rotating) /\ Cardinality(CS!Rotating) \in Nat
  <1>1. CS!Rotating \subseteq Reqs /\ IsFiniteSet(Reqs)
    BY RosterAssumption DEF CS!Rotating
  <1>2. QED
    BY <1>1, FS_Subset, FS_CardinalityType

LEMMA SecretRows ==
  ASSUME CS!TypeOK
  PROVE  /\ Len(secrets) \in Nat /\ secrets \in [1 .. Len(secrets) -> SecretRow]
         /\ secrets \in Seq(SecretRow) /\ CS!Nrs = 1 .. Len(secrets)
  BY LenProperties DEF CS!TypeOK, SecretRow, CS!Nrs

LEMMA RowsAreSeq ==
  ASSUME NEW n \in Nat, NEW f \in [1 .. n -> SecretRow]
  PROVE  f \in Seq(SecretRow) /\ Len(f) = n
  OBVIOUS

LEMMA SecretsTypedInit == CS!Init => SecretsTyped
  <1> SUFFICES ASSUME CS!Init PROVE SecretsTyped
    OBVIOUS
  <1>1. CS!Rotating = {}
    BY DEF CS!Init, CS!Rotating
  <1>2. Cardinality({}) = 0
    BY FS_EmptySet
  <1>3. Len(secrets) = 1 /\ Room
    BY <1>1, <1>2, AdministrationAssumption DEF CS!Init, Room
  <1>4. CS!TypeOK
    <2>1. [status |-> "active", left |-> 0] \in SecretRow
      BY AdministrationAssumption DEF SecretRow, CS!Statuses
    <2>2. secrets \in Seq(SecretRow)
      BY <2>1 DEF CS!Init
    <2>3. Len(secrets) <= MaxSecrets
      BY <1>3, AdministrationAssumption
    <2>4. QED
      BY <2>2, <2>3 DEF CS!Init, CS!TypeOK, SecretRow
  <1>5. QED
    BY <1>3, <1>4 DEF SecretsTyped

\* A request in or out of the rotations changes the room by one.
LEMMA RoomKept ==
  ASSUME SecretsTyped, NEW r \in Reqs, NEW x, work' = [work EXCEPT ![r] = x],
         Len(secrets)' = Len(secrets),
         x = None \/ (x.step \in {"rotate", "update", "insert"} => r \in CS!Rotating)
  PROVE  Room'
  <1>1. CS!Rotating' \subseteq CS!Rotating
    BY DEF CS!Rotating, SecretsTyped, CS!TypeOK
  <1>2. Cardinality(CS!Rotating') <= Cardinality(CS!Rotating) /\ Cardinality(CS!Rotating') \in Nat
    BY <1>1, RotatingFinite, FS_Subset, FS_CardinalityType
  <1>3. QED
    BY <1>2, RotatingFinite, SecretRows, AdministrationAssumption DEF Room, SecretsTyped

\* The rows after a step that adds none.
LEMMA SecretsKept ==
  ASSUME SecretsTyped, secrets' \in Seq(SecretRow), Len(secrets') = Len(secrets),
         client' \in [here: BOOLEAN, disabled: BOOLEAN, m2m: BOOLEAN],
         work' = work, byHand' \subseteq 1 .. MaxSecrets, overlapped' \in BOOLEAN, misused' \in BOOLEAN
  PROVE  SecretsTyped'
  BY DEF SecretsTyped, CS!TypeOK, Room, CS!Rotating, SecretRow

\* A request takes a step, or begins, or ends; the rows stay.
LEMMA RequestKept ==
  ASSUME SecretsTyped, NEW r \in Reqs, NEW x \in CS!Work \cup {None}, work' = [work EXCEPT ![r] = x],
         UNCHANGED <<secrets, client, byHand>>, overlapped' \in BOOLEAN, misused' \in BOOLEAN, Room'
  PROVE  SecretsTyped'
  BY DEF SecretsTyped, CS!TypeOK

LEMMA SecretsTypedStep == SecretsTyped /\ CS!Next => SecretsTyped'
  <1> SUFFICES ASSUME SecretsTyped, CS!Next PROVE SecretsTyped'
    OBVIOUS
  <1>t. CS!TypeOK /\ Len(secrets) >= 1 /\ Room
    BY DEF SecretsTyped
  <1>s. Len(secrets) \in Nat /\ secrets \in [1 .. Len(secrets) -> SecretRow]
        /\ secrets \in Seq(SecretRow) /\ CS!Nrs = 1 .. Len(secrets)
    BY <1>t, SecretRows
  <1>k. /\ client \in [here: BOOLEAN, disabled: BOOLEAN, m2m: BOOLEAN] /\ Len(secrets) <= MaxSecrets
        /\ work \in [Reqs -> CS!Work \cup {None}] /\ byHand \subseteq 1 .. MaxSecrets
        /\ overlapped \in BOOLEAN /\ misused \in BOOLEAN
    BY <1>t DEF CS!TypeOK
  <1>m. MaxSecrets \in Nat /\ Grace \in Nat
    BY AdministrationAssumption
  <1>a. CS!Active \subseteq 1 .. MaxSecrets /\ CS!Nrs \subseteq 1 .. MaxSecrets
    BY <1>s, <1>k, <1>m DEF CS!Active
  <1>1. ASSUME NEW r \in Reqs, CS!Rotate(r) PROVE SecretsTyped'
    <2> DEFINE x == [step |-> "rotate", rows |-> {}]
    <2>1. work[r] = None /\ UNCHANGED <<secrets, client, byHand, misused>>
          /\ work' = [work EXCEPT ![r] = x] /\ Len(secrets) + Cardinality(CS!Rotating) < MaxSecrets
      BY <1>1, SameCardinality DEF CS!Rotate, CS!Set
    <2>0. overlapped' \in BOOLEAN
      BY <1>1, <1>k DEF CS!Rotate
    <2>2. x \in CS!Work /\ x.step = "rotate" /\ x # None
      BY AdministrationAssumption DEF CS!Work
    <2> HIDE DEF x
    <2>3. CS!Rotating' = CS!Rotating \cup {r} /\ r \notin CS!Rotating
      BY <2>1, <2>2, <1>k DEF CS!Rotating
    <2>4. Cardinality(CS!Rotating') = Cardinality(CS!Rotating) + 1
      BY <2>3, RotatingFinite, FS_AddElement
    <2>5. Room'
      BY <2>1, <2>4, <1>s, <1>m, RotatingFinite DEF Room
    <2>6. QED
      BY <1>k, <2>0, <2>1, <2>2, <2>5, RequestKept
  <1>2. ASSUME NEW r \in Reqs, CS!Look(r) PROVE SecretsTyped'
    <2> DEFINE x == [step |-> "update", rows |-> CS!Active]
    <2>1. work[r] # None /\ work[r].step = "rotate" /\ UNCHANGED CS!Rows /\ work' = [work EXCEPT ![r] = x]
      BY <1>2 DEF CS!Look, CS!Set
    <2>2. x \in CS!Work
      BY <1>a DEF CS!Work
    <2> HIDE DEF x
    <2>3. r \in CS!Rotating /\ UNCHANGED <<secrets, client, byHand, overlapped, misused>>
      BY <2>1 DEF CS!Rotating, CS!Rows
    <2>4. Room'
      BY <2>1, <2>3, RoomKept
    <2>5. QED
      BY <1>k, <2>1, <2>2, <2>3, <2>4, RequestKept
  <1>3. ASSUME NEW r \in Reqs, CS!Take(r) PROVE SecretsTyped'
    <2> DEFINE x == [step |-> "insert", rows |-> work[r].rows \cap CS!Active]
    <2>1. work[r] # None /\ work[r].step = "update" /\ UNCHANGED CS!Rows /\ work' = [work EXCEPT ![r] = x]
      BY <1>3 DEF CS!Take, CS!Set
    <2>2. x \in CS!Work
      BY <1>a DEF CS!Work
    <2> HIDE DEF x
    <2>3. r \in CS!Rotating /\ UNCHANGED <<secrets, client, byHand, overlapped, misused>>
      BY <2>1 DEF CS!Rotating, CS!Rows
    <2>4. Room'
      BY <2>1, <2>3, RoomKept
    <2>5. QED
      BY <1>k, <2>1, <2>2, <2>3, <2>4, RequestKept
  <1>4. ASSUME NEW r \in Reqs, CS!Commit(r) PROVE SecretsTyped'
    <2>1. work[r] # None /\ work[r].step = "insert" /\ work' = [work EXCEPT ![r] = None]
          /\ UNCHANGED <<client, byHand, overlapped, misused>>
      BY <1>4 DEF CS!Commit, CS!Set
    <2>2. CASE UNCHANGED secrets
      <3>1. Room'
        BY <2>1, <2>2, RoomKept
      <3>2. QED
        BY <1>k, <2>1, <2>2, <3>1, RequestKept
    <2>3. CASE secrets' = Append(CS!Retire(work[r].rows), [status |-> "active", left |-> 0])
      <3> DEFINE kept_ == CS!Retire(work[r].rows)
      <3>1. kept_ \in Seq(SecretRow) /\ Len(kept_) = Len(secrets)
        <4>1. kept_ \in [1 .. Len(secrets) -> SecretRow]
          BY <1>s, <1>m DEF CS!Retire, SecretRow, CS!Statuses
        <4>2. QED
          BY <4>1, <1>s, RowsAreSeq
      <3>2. [status |-> "active", left |-> 0] \in SecretRow
        BY <1>m DEF SecretRow, CS!Statuses
      <3> HIDE DEF kept_
      <3>3. secrets' \in Seq(SecretRow) /\ Len(secrets') = Len(secrets) + 1
        BY <2>3, <3>1, <3>2, AppendProperties DEF kept_
      <3>4. CS!Rotating' = CS!Rotating \ {r} /\ r \in CS!Rotating
        BY <2>1, <1>k DEF CS!Rotating
      <3>5. Cardinality(CS!Rotating') = Cardinality(CS!Rotating) - 1
        BY <3>4, RotatingFinite, FS_RemoveElement
      <3>6. Room'
        BY <3>3, <3>5, <1>t, <1>s, <1>m, RotatingFinite DEF Room
      <3>7. Len(secrets') <= MaxSecrets
        <4>1. Cardinality(CS!Rotating)' >= 0 /\ Cardinality(CS!Rotating)' \in Int
          BY <3>4, <3>5, RotatingFinite, FS_RemoveElement, FS_CardinalityType
        <4>2. QED
          BY <3>3, <3>6, <4>1, <1>s, <1>m DEF Room
      <3>8. work' \in [Reqs -> CS!Work \cup {None}]
        BY <2>1, <1>k
      <3>9. CS!TypeOK'
        BY <2>1, <3>3, <3>7, <3>8, <1>k DEF CS!TypeOK, SecretRow
      <3>10. QED
        BY <3>3, <3>6, <3>9, <1>t, <1>s DEF SecretsTyped
    <2>4. QED
      BY <1>4, <2>2, <2>3 DEF CS!Commit
  <1>5. ASSUME NEW r \in Reqs, CS!Abort(r) PROVE SecretsTyped'
    <2>1. work' = [work EXCEPT ![r] = None] /\ UNCHANGED <<secrets, client, byHand, overlapped, misused>>
      BY <1>5 DEF CS!Abort, CS!Set, CS!Rows
    <2>2. Room'
      BY <2>1, RoomKept
    <2>3. QED
      BY <1>k, <2>1, <2>2, RequestKept
  <1>6. ASSUME NEW r \in Reqs, NEW i \in CS!Nrs, CS!Ask(r, i) PROVE SecretsTyped'
    <2> DEFINE x == [step |-> "ask", secret |-> i, dead |-> CS!Nrs \ CS!Valid]
    <2>1. work' = [work EXCEPT ![r] = x] /\ UNCHANGED <<secrets, client, byHand, overlapped, misused>>
      BY <1>6 DEF CS!Ask, CS!Set, CS!Rows
    <2>2. x \in CS!Work /\ x.step = "ask"
      BY <1>a DEF CS!Work
    <2> HIDE DEF x
    <2>3. Room'
      BY <2>1, <2>2, RoomKept
    <2>4. QED
      BY <1>k, <2>1, <2>2, <2>3, RequestKept
  <1>7. ASSUME NEW r \in Reqs, CS!Verify(r) PROVE SecretsTyped'
    <2> DEFINE x == IF CS!Served /\ work[r].secret \in CS!Valid THEN [work[r] EXCEPT !.step = "verified"] ELSE None
    <2>1. work' = [work EXCEPT ![r] = x] /\ UNCHANGED <<secrets, client, byHand, overlapped, misused>>
          /\ work[r] # None /\ work[r].step = "ask"
      BY <1>7 DEF CS!Verify, CS!Set, CS!Rows
    <2>2. work[r] \in TokenAsk
      BY <1>t, <2>1, WorkKinds
    <2>3. x = None \/ (x \in CS!Work /\ x.step = "verified")
      BY <2>2 DEF TokenAsk, CS!Work
    <2> HIDE DEF x
    <2>4. Room'
      BY <2>1, <2>3, RoomKept
    <2>5. QED
      BY <1>k, <2>1, <2>3, <2>4, RequestKept
  <1>8. ASSUME NEW r \in Reqs, CS!Grant(r) PROVE SecretsTyped'
    <2>1. work' = [work EXCEPT ![r] = None] /\ UNCHANGED <<secrets, client, byHand, overlapped>>
      BY <1>8 DEF CS!Grant, CS!Set
    <2>2. misused' \in BOOLEAN
      BY <1>8, <1>k DEF CS!Grant
    <2>3. Room'
      BY <2>1, RoomKept
    <2>4. QED
      BY <1>k, <2>1, <2>2, <2>3, RequestKept
  <1>9. ASSUME NEW i \in CS!Nrs, CS!RevokeSecret(i) PROVE SecretsTyped'
    <2>1. UNCHANGED <<client, work, overlapped, misused>> /\ byHand' \subseteq 1 .. MaxSecrets
      BY <1>9, <1>a, <1>k DEF CS!RevokeSecret
    <2>2. [status |-> "revoked", left |-> 0] \in SecretRow
      BY <1>m DEF SecretRow, CS!Statuses
    <2>3. secrets' \in Seq(SecretRow) /\ Len(secrets') = Len(secrets)
      BY <1>9, <1>s, <2>2, ExceptSeq DEF CS!RevokeSecret
    <2>4. QED
      BY <2>1, <2>3, <1>k, SecretsKept
  <1>10. CASE CS!Administer
    <2>1. UNCHANGED <<secrets, work, byHand, overlapped, misused>>
      BY <1>10 DEF CS!Administer
    <2>2. client' \in [here: BOOLEAN, disabled: BOOLEAN, m2m: BOOLEAN]
      BY <1>10, <1>k DEF CS!Administer, CS!Delete, CS!SetDisabled, CS!SetM2m
    <2>3. QED
      BY <2>1, <2>2, <1>k, <1>s, SecretsKept
  <1>11. CASE CS!Hour \/ CS!Purge
    <2>1. UNCHANGED <<client, work, byHand, overlapped, misused>>
      BY <1>11 DEF CS!Hour, CS!Purge
    <2>2. secrets' \in [1 .. Len(secrets) -> SecretRow]
      <3>1. ASSUME NEW i \in 1 .. Len(secrets)
            PROVE  /\ secrets[i].left > 0 => [secrets[i] EXCEPT !.left = @ - 1] \in SecretRow
                   /\ [secrets[i] EXCEPT !.status = "revoked"] \in SecretRow
        <4>1. secrets[i] \in SecretRow
          BY <1>s
        <4>2. QED
          BY <4>1, <1>m DEF SecretRow, CS!Statuses
      <3>2. CASE CS!Hour
        BY <3>1, <3>2, <1>s DEF CS!Hour
      <3>3. CASE CS!Purge
        BY <3>1, <3>3, <1>s DEF CS!Purge
      <3>4. QED
        BY <1>11, <3>2, <3>3
    <2>3. secrets' \in Seq(SecretRow) /\ Len(secrets') = Len(secrets)
      BY <2>2, <1>s, RowsAreSeq
    <2>4. QED
      BY <2>1, <2>3, <1>k, SecretsKept
  <1>12. QED
    BY <1>1, <1>2, <1>3, <1>4, <1>5, <1>6, <1>7, <1>8, <1>9, <1>10, <1>11 DEF CS!Next

\* The secrets a rotation is about to retire are active, and its own; while no
\* two rotations overlapped, they are all there are.
Inserting(r) == work[r] # None /\ work[r].step = "insert"
RowsHeld ==
  /\ \A r \in Reqs : Inserting(r) => work[r].rows \subseteq CS!Active
  /\ \A q, r \in Reqs : Inserting(q) /\ Inserting(r) /\ q # r => work[q].rows \cap work[r].rows = {}
OneRotation ==
  ~overlapped =>
    /\ \A q, r \in CS!Rotating : q = r
    /\ \A r \in CS!Rotating : work[r].step \in {"update", "insert"} => CS!Active \subseteq work[r].rows
\* A secret that was dead when a request came in stays dead.
DeadStays ==
  \A r \in Reqs : work[r] # None /\ work[r].step \in {"ask", "verified"} =>
    /\ work[r].dead \subseteq CS!Nrs \ CS!Valid
    /\ work[r].step = "verified" => work[r].secret \notin work[r].dead

SecretsInv == SecretsTyped /\ RowsHeld /\ OneRotation /\ DeadStays /\ CS!SecretsSound

LEMMA SecretsInvInit == CS!Init => SecretsInv
  <1> SUFFICES ASSUME CS!Init PROVE SecretsInv
    OBVIOUS
  <1>1. CS!Rotating = {}
    BY DEF CS!Init, CS!Rotating
  <1>2. RowsHeld /\ OneRotation /\ DeadStays
    BY <1>1 DEF CS!Init, RowsHeld, OneRotation, DeadStays, Inserting
  <1>3. CS!Nrs = {1} /\ Len(secrets) = 1 /\ secrets[1].status = "active"
    BY DEF CS!Init, CS!Nrs
  <1>4. CS!Active = {1}
    BY <1>3 DEF CS!Active
  <1>5. CS!SecretsSound
    BY <1>3, <1>4 DEF CS!Init, CS!SecretsSound, CS!NewestWorks, CS!OneCurrent
  <1>6. QED
    BY <1>2, <1>5, SecretsTypedInit DEF SecretsInv

\* A request takes a step and no row changes.
LEMMA SecretsRequest ==
  ASSUME SecretsInv, NEW r \in Reqs, NEW x, work' = [work EXCEPT ![r] = x], UNCHANGED secrets,
         \/ x = None
         \/ /\ x.step = "insert" /\ Inserting(r) = FALSE /\ r \in CS!Rotating
            /\ x.rows \subseteq CS!Active /\ x.rows \cap CS!Held = {}
            /\ ~overlapped => CS!Active \subseteq x.rows
         \/ x.step = "update" /\ r \in CS!Rotating /\ CS!Active \subseteq x.rows
         \/ x.step = "rotate" /\ (~overlapped' => CS!Rotating = {})
         \/ /\ x.step \in {"ask", "verified"} /\ x.dead \subseteq CS!Nrs \ CS!Valid
            /\ x.step = "verified" => x.secret \notin x.dead,
         overlapped => overlapped'
  PROVE  RowsHeld' /\ OneRotation' /\ DeadStays'
  <1>1. \A q \in Reqs : work'[q] = IF q = r THEN x ELSE work[q]
    BY DEF SecretsInv, SecretsTyped, CS!TypeOK
  <1>2. CS!Nrs' = CS!Nrs /\ CS!Active' = CS!Active /\ CS!Valid' = CS!Valid
    BY DEF CS!Nrs, CS!Active, CS!Valid
  <1>3. \A q \in Reqs \ {r} : Inserting(q)' <=> Inserting(q)
    BY <1>1 DEF Inserting
  <1>4. \A q \in Reqs : Inserting(q) => work[q].rows \subseteq CS!Held
    BY DEF CS!Held, Inserting
  <1>5. RowsHeld'
    <2>1. ASSUME NEW q \in Reqs, Inserting(q)' PROVE work'[q].rows \subseteq CS!Active'
      BY <1>1, <1>2, <1>3, <2>1 DEF SecretsInv, RowsHeld, Inserting
    <2>2. ASSUME NEW q \in Reqs, NEW p \in Reqs, Inserting(q)', Inserting(p)', q # p
          PROVE  work'[q].rows \cap work'[p].rows = {}
      <3>1. CASE q # r /\ p # r
        BY <1>1, <1>3, <2>2, <3>1 DEF SecretsInv, RowsHeld
      <3>2. CASE q = r
        BY <1>1, <1>3, <1>4, <2>2, <3>2 DEF Inserting
      <3>3. CASE p = r
        BY <1>1, <1>3, <1>4, <2>2, <3>3 DEF Inserting
      <3>4. QED
        BY <3>1, <3>2, <3>3
    <2>3. QED
      BY <2>1, <2>2 DEF RowsHeld
  <1>6. OneRotation'
    <2> SUFFICES ASSUME ~overlapped' PROVE OneRotation'
      BY DEF OneRotation
    <2>1. ~overlapped /\ OneRotation
      BY DEF SecretsInv
    <2>2. CS!Rotating' \subseteq CS!Rotating \/ (CS!Rotating = {} /\ CS!Rotating' = {r} /\ x.step = "rotate")
      BY <1>1 DEF CS!Rotating
    <2>3. \A q, p \in CS!Rotating' : q = p
      BY <2>1, <2>2 DEF OneRotation
    <2>4. ASSUME NEW q \in CS!Rotating', work'[q].step \in {"update", "insert"}
          PROVE  CS!Active' \subseteq work'[q].rows
      <3>1. q \in Reqs /\ work'[q] # None
        BY <2>4 DEF CS!Rotating
      <3>2. CASE q = r
        BY <1>1, <1>2, <2>1, <2>4, <3>1, <3>2
      <3>3. CASE q # r
        BY <1>1, <1>2, <2>1, <2>4, <3>1, <3>3 DEF OneRotation, CS!Rotating
      <3>4. QED
        BY <3>2, <3>3
    <2>5. QED
      BY <2>3, <2>4 DEF OneRotation
  <1>7. DeadStays'
    BY <1>1, <1>2 DEF SecretsInv, DeadStays
  <1>8. QED
    BY <1>5, <1>6, <1>7

\* The rows change and no request does: what is active stays among the active,
\* what a rotation holds stays active, and nothing comes alive.
LEMMA SecretsRows ==
  ASSUME SecretsInv, UNCHANGED <<work, overlapped, misused>>,
         CS!Nrs' = CS!Nrs, Len(secrets') = Len(secrets),
         CS!Active' \subseteq CS!Active, CS!Valid' \subseteq CS!Valid,
         \A r \in Reqs : Inserting(r) => CS!Active \cap work[r].rows \subseteq CS!Active',
         CS!Active \cup byHand \subseteq CS!Active' \cup byHand'
  PROVE  RowsHeld' /\ OneRotation' /\ DeadStays' /\ CS!SecretsSound'
  <1>1. \A r \in Reqs : Inserting(r)' <=> Inserting(r)
    BY DEF Inserting
  <1>2. RowsHeld'
    BY <1>1 DEF SecretsInv, RowsHeld
  <1>3. OneRotation'
    BY DEF SecretsInv, OneRotation, CS!Rotating
  <1>4. DeadStays'
    BY DEF SecretsInv, DeadStays
  <1>5. CS!SecretsSound'
    BY DEF SecretsInv, CS!SecretsSound, CS!NewestWorks, CS!OneCurrent
  <1>6. QED
    BY <1>2, <1>3, <1>4, <1>5

LEMMA SecretsInvStep == SecretsInv /\ CS!Next => SecretsInv'
  <1> DEFINE Kept == RowsHeld' /\ OneRotation' /\ DeadStays' /\ CS!SecretsSound'
  <1> SUFFICES ASSUME SecretsInv, CS!Next, SecretsTyped' PROVE Kept
    BY SecretsTypedStep DEF SecretsInv
  <1>t. SecretsTyped /\ CS!TypeOK /\ RowsHeld /\ OneRotation /\ DeadStays /\ CS!SecretsSound
    BY DEF SecretsInv, SecretsTyped
  <1>s. Len(secrets) \in Nat /\ secrets \in [1 .. Len(secrets) -> SecretRow]
        /\ secrets \in Seq(SecretRow) /\ CS!Nrs = 1 .. Len(secrets)
    BY <1>t, SecretRows
  <1>m. Grace \in Nat
    BY AdministrationAssumption
  <1>h. ASSUME UNCHANGED <<secrets, byHand, misused>>, overlapped => overlapped' PROVE CS!SecretsSound'
    BY <1>h, <1>t DEF CS!SecretsSound, CS!NewestWorks, CS!OneCurrent, CS!Active, CS!Nrs
  <1>1. ASSUME NEW r \in Reqs, CS!Rotate(r) PROVE Kept
    <2> DEFINE x == [step |-> "rotate", rows |-> {}]
    <2>1. UNCHANGED <<secrets, client, byHand, misused>> /\ work' = [work EXCEPT ![r] = x]
          /\ (overlapped' <=> (overlapped \/ CS!Rotating # {}))
      BY <1>1 DEF CS!Rotate, CS!Set
    <2>2. x.step = "rotate"
      OBVIOUS
    <2> HIDE DEF x
    <2>3. QED
      BY <1>h, <2>1, <2>2, SecretsRequest
  <1>2. ASSUME NEW r \in Reqs, CS!Look(r) PROVE Kept
    <2> DEFINE x == [step |-> "update", rows |-> CS!Active]
    <2>1. UNCHANGED <<secrets, client, byHand, misused, overlapped>> /\ work' = [work EXCEPT ![r] = x]
          /\ r \in CS!Rotating
      BY <1>2 DEF CS!Look, CS!Set, CS!Rows, CS!Rotating
    <2>2. x.step = "update" /\ x.rows = CS!Active
      OBVIOUS
    <2> HIDE DEF x
    <2>3. QED
      BY <1>h, <2>1, <2>2, SecretsRequest
  <1>3. ASSUME NEW r \in Reqs, CS!Take(r) PROVE Kept
    <2> DEFINE x == [step |-> "insert", rows |-> work[r].rows \cap CS!Active]
    <2>1. UNCHANGED <<secrets, client, byHand, misused, overlapped>> /\ work' = [work EXCEPT ![r] = x]
          /\ r \in CS!Rotating /\ work[r].step = "update" /\ work[r].rows \cap CS!Held = {}
      BY <1>3 DEF CS!Take, CS!Set, CS!Rows, CS!Rotating
    <2>2. x.step = "insert" /\ x.rows = work[r].rows \cap CS!Active
      OBVIOUS
    <2>3. ~overlapped => CS!Active \subseteq work[r].rows
      BY <2>1, <1>t DEF OneRotation
    <2>4. Inserting(r) = FALSE
      BY <2>1 DEF Inserting
    <2> HIDE DEF x
    <2>5. QED
      BY <1>h, <2>1, <2>2, <2>3, <2>4, SecretsRequest
  <1>4. ASSUME NEW r \in Reqs, CS!Commit(r) PROVE Kept
    <2>1. work[r] # None /\ work[r].step = "insert" /\ work' = [work EXCEPT ![r] = None]
          /\ UNCHANGED <<client, byHand, overlapped, misused>>
      BY <1>4 DEF CS!Commit, CS!Set
    <2>2. CASE UNCHANGED secrets
      BY <1>h, <2>1, <2>2, SecretsRequest
    <2>3. CASE secrets' = Append(CS!Retire(work[r].rows), [status |-> "active", left |-> 0])
      <3> DEFINE rows_ == CS!Retire(work[r].rows)  n == Len(secrets)
      <3>1. rows_ \in Seq(SecretRow) /\ Len(rows_) = n
            /\ \A i \in 1 .. n : rows_[i] = IF i \in work[r].rows THEN [status |-> "retiring", left |-> Grace]
                                           ELSE secrets[i]
        <4>1. rows_ \in [1 .. n -> SecretRow]
          BY <1>s, <1>m DEF CS!Retire, SecretRow, CS!Statuses
        <4>2. \A i \in 1 .. n : rows_[i] = IF i \in work[r].rows THEN [status |-> "retiring", left |-> Grace]
                                           ELSE secrets[i]
          BY <1>s DEF CS!Retire
        <4>3. QED
          BY <4>1, <4>2, <1>s, RowsAreSeq
      <3>2. [status |-> "active", left |-> 0] \in SecretRow
        BY <1>m DEF SecretRow, CS!Statuses
      <3> HIDE DEF rows_
      <3>3. Len(secrets') = n + 1 /\ secrets'[n + 1] = [status |-> "active", left |-> 0]
            /\ \A i \in 1 .. n : secrets'[i] = rows_[i]
        BY <2>3, <3>1, <3>2, <1>s, AppendProperties DEF rows_
      <3>4. CS!Nrs' = 1 .. (n + 1) /\ CS!Nrs = 1 .. n
        BY <3>3, <1>s DEF CS!Nrs
      <3>5. CS!Active' = (CS!Active \ work[r].rows) \cup {n + 1}
        BY <3>1, <3>3, <3>4, <1>s DEF CS!Active
      <3>6. work[r].rows \subseteq CS!Active
        BY <2>1, <1>t DEF RowsHeld, Inserting
      <3>7. CS!Valid' \cap CS!Nrs \subseteq CS!Valid /\ CS!Nrs \subseteq CS!Nrs'
        <4>1. CS!Active \subseteq CS!Valid
          BY DEF CS!Active, CS!Valid
        <4>2. ASSUME NEW i \in 1 .. n, i \in CS!Valid', i \notin work[r].rows PROVE i \in CS!Valid
          BY <3>1, <3>3, <3>4, <4>2 DEF CS!Valid
        <4>3. QED
          BY <3>4, <3>6, <4>1, <4>2, <1>s
      <3>8. \A q \in Reqs : work'[q] = IF q = r THEN None ELSE work[q]
        BY <2>1, <1>t DEF CS!TypeOK
      <3>9. RowsHeld'
        <4>1. ASSUME NEW q \in Reqs, Inserting(q)' PROVE q # r /\ Inserting(q) /\ work'[q] = work[q]
          BY <3>8, <4>1 DEF Inserting
        <4>2. ASSUME NEW q \in Reqs, Inserting(q)' PROVE work'[q].rows \subseteq CS!Active'
          <5>1. work[q].rows \cap work[r].rows = {} /\ work[q].rows \subseteq CS!Active
            BY <2>1, <4>1, <4>2, <1>t DEF RowsHeld, Inserting
          <5>2. QED
            BY <3>5, <4>1, <4>2, <5>1
        <4>3. QED
          BY <4>1, <4>2, <1>t DEF RowsHeld
      <3>10. OneRotation' /\ CS!OneCurrent'
        <4>1. r \in CS!Rotating
          BY <2>1 DEF CS!Rotating
        <4>2. CASE overlapped
          BY <2>1, <4>2 DEF OneRotation, CS!OneCurrent
        <4>3. CASE ~overlapped
          <5>1. CS!Rotating' = {} /\ CS!Active \subseteq work[r].rows
            BY <2>1, <3>8, <4>1, <4>3, <1>t DEF OneRotation, CS!Rotating
          <5>2. QED
            BY <3>3, <3>5, <5>1 DEF OneRotation, CS!OneCurrent
        <4>4. QED
          BY <4>2, <4>3
      <3>11. DeadStays'
        BY <3>7, <3>8, <1>t DEF DeadStays
      <3>12. CS!NewestWorks'
        BY <3>3, <3>5 DEF CS!NewestWorks
      <3>13. QED
        BY <2>1, <3>9, <3>10, <3>11, <3>12, <1>t DEF CS!SecretsSound
    <2>4. QED
      BY <1>4, <2>2, <2>3 DEF CS!Commit
  <1>5. ASSUME NEW r \in Reqs, CS!Abort(r) PROVE Kept
    <2>1. work' = [work EXCEPT ![r] = None] /\ UNCHANGED <<secrets, client, byHand, overlapped, misused>>
      BY <1>5 DEF CS!Abort, CS!Set, CS!Rows
    <2>2. QED
      BY <1>h, <2>1, SecretsRequest
  <1>6. ASSUME NEW r \in Reqs, NEW i \in CS!Nrs, CS!Ask(r, i) PROVE Kept
    <2> DEFINE x == [step |-> "ask", secret |-> i, dead |-> CS!Nrs \ CS!Valid]
    <2>1. work' = [work EXCEPT ![r] = x] /\ UNCHANGED <<secrets, client, byHand, overlapped, misused>>
      BY <1>6 DEF CS!Ask, CS!Set, CS!Rows
    <2>2. x.step = "ask" /\ x.dead = CS!Nrs \ CS!Valid
      OBVIOUS
    <2> HIDE DEF x
    <2>3. QED
      BY <1>h, <2>1, <2>2, SecretsRequest
  <1>7. ASSUME NEW r \in Reqs, CS!Verify(r) PROVE Kept
    <2> DEFINE x == IF CS!Served /\ work[r].secret \in CS!Valid THEN [work[r] EXCEPT !.step = "verified"] ELSE None
    <2>1. work' = [work EXCEPT ![r] = x] /\ UNCHANGED <<secrets, client, byHand, overlapped, misused>>
          /\ work[r] # None /\ work[r].step = "ask"
      BY <1>7 DEF CS!Verify, CS!Set, CS!Rows
    <2>2. work[r] \in TokenAsk /\ work[r].dead \subseteq CS!Nrs \ CS!Valid
      BY <1>t, <2>1, WorkKinds DEF DeadStays
    <2>3. x = None \/ (x.step = "verified" /\ x.dead = work[r].dead /\ x.secret = work[r].secret
                         /\ x.secret \in CS!Valid)
      BY <2>2 DEF TokenAsk
    <2> HIDE DEF x
    <2>4. x = None \/ (x.step = "verified" /\ x.dead \subseteq CS!Nrs \ CS!Valid /\ x.secret \notin x.dead)
      BY <2>2, <2>3
    <2>5. QED
      BY <1>h, <2>1, <2>4, SecretsRequest
  <1>8. ASSUME NEW r \in Reqs, CS!Grant(r) PROVE Kept
    <2>1. work' = [work EXCEPT ![r] = None] /\ UNCHANGED <<secrets, client, byHand, overlapped>>
          /\ work[r] # None /\ work[r].step = "verified"
      BY <1>8 DEF CS!Grant, CS!Set
    <2>2. ~misused'
      BY <1>8, <2>1, <1>t DEF CS!Grant, CS!SecretsSound, DeadStays
    <2>3. misused' = misused
      BY <2>2, <1>t DEF CS!SecretsSound, CS!TypeOK, SecretsTyped
    <2>4. QED
      BY <1>h, <2>1, <2>3, SecretsRequest
  <1>9. ASSUME NEW i \in CS!Nrs, CS!RevokeSecret(i) PROVE Kept
    <2>1. UNCHANGED <<client, work, overlapped, misused>> /\ byHand' = byHand \cup {i} /\ i \notin CS!Held
          /\ secrets' = [secrets EXCEPT ![i] = [status |-> "revoked", left |-> 0]]
      BY <1>9 DEF CS!RevokeSecret
    <2>2. [status |-> "revoked", left |-> 0] \in SecretRow
      BY <1>m DEF SecretRow, CS!Statuses
    <2>3. Len(secrets') = Len(secrets) /\ CS!Nrs' = CS!Nrs
          /\ \A j \in CS!Nrs : secrets'[j] = IF j = i THEN [status |-> "revoked", left |-> 0] ELSE secrets[j]
      BY <1>9, <2>1, <2>2, <1>s, ExceptSeq DEF CS!Nrs
    <2>4. CS!Active' = CS!Active \ {i} /\ CS!Valid' \subseteq CS!Valid
      BY <2>3 DEF CS!Active, CS!Valid
    <2>5. \A r \in Reqs : Inserting(r) => i \notin work[r].rows
      BY <2>1 DEF CS!Held, Inserting
    <2>6. QED
      BY <2>1, <2>3, <2>4, <2>5, SecretsRows
  <1>10. CASE CS!Administer
    <2>1. UNCHANGED <<secrets, work, byHand, overlapped, misused>>
      BY <1>10 DEF CS!Administer
    <2>2. CS!Nrs' = CS!Nrs /\ CS!Active' = CS!Active /\ CS!Valid' = CS!Valid
      BY <2>1 DEF CS!Nrs, CS!Active, CS!Valid
    <2>3. QED
      BY <2>1, <2>2, SecretsRows
  <1>11. CASE CS!Hour \/ CS!Purge
    <2>1. UNCHANGED <<client, work, byHand, overlapped, misused>>
      BY <1>11 DEF CS!Hour, CS!Purge
    <2>2. secrets' = [i \in CS!Nrs |-> secrets'[i]]
      BY <1>11 DEF CS!Hour, CS!Purge
    <2>3. ASSUME NEW i \in CS!Nrs
          PROVE  /\ secrets'[i].status = "active" <=> secrets[i].status = "active"
                 /\ secrets'[i].status = "retiring" => secrets[i].status = "retiring"
                 /\ secrets'[i].left > 0 => secrets[i].left > 0
                 /\ secrets'[i] \in SecretRow
      <3>1. secrets[i] \in SecretRow
        BY <1>s
      <3>2. secrets[i].left \in 0 .. Grace
        BY <3>1 DEF SecretRow
      <3>3. CASE CS!Hour
        BY <3>1, <3>2, <3>3, <1>m DEF CS!Hour, SecretRow
      <3>4. CASE CS!Purge
        BY <3>1, <3>2, <3>4 DEF CS!Purge, SecretRow, CS!Statuses
      <3>5. QED
        BY <1>11, <3>3, <3>4
    <2>4. Len(secrets') = Len(secrets)
      <3>1. secrets' \in [1 .. Len(secrets) -> SecretRow]
        BY <2>2, <2>3, <1>s
      <3>2. QED
        BY <3>1, <1>s, RowsAreSeq
    <2>5. CS!Nrs' = CS!Nrs
      BY <2>4 DEF CS!Nrs
    <2>6. CS!Active' = CS!Active /\ CS!Valid' \subseteq CS!Valid
      BY <2>3, <2>5 DEF CS!Active, CS!Valid
    <2>7. QED
      BY <2>1, <2>4, <2>5, <2>6, SecretsRows
  <1>12. QED
    BY <1>1, <1>2, <1>3, <1>4, <1>5, <1>6, <1>7, <1>8, <1>9, <1>10, <1>11 DEF CS!Next

LEMMA SecretsInvKept == SecretsInv /\ [CS!Next]_secretVars => SecretsInv'
  <1> SUFFICES ASSUME SecretsInv, [CS!Next]_secretVars PROVE SecretsInv'
    OBVIOUS
  <1>1. CASE CS!Next
    BY <1>1, SecretsInvStep
  <1>2. CASE UNCHANGED secretVars
    <2>1. SecretsTyped'
      BY <1>2 DEF secretVars, SecretsInv, SecretsTyped, CS!TypeOK, Room, CS!Rotating
    <2>2. CS!Nrs' = CS!Nrs /\ CS!Active' = CS!Active /\ CS!Valid' = CS!Valid
      BY <1>2 DEF secretVars, CS!Nrs, CS!Active, CS!Valid
    <2>3. QED
      BY <1>2, <2>1, <2>2, SecretsRows DEF secretVars, SecretsInv
  <1>3. QED
    BY <1>1, <1>2

LEMMA SecretSteps == [AdministrationNext]_<<subject, rosterVars, usersSide, clientsSide, accessSide>>
                       => [CS!Next]_secretVars
  BY DEF AdministrationNext, RosterAlone, SecretsAlone, ProjectsAlone, GroupsAlone, UsersAlone,
     LogoutAlone, ScreensAlone, HandoutsAlone, clientsSide

LEMMA HandoutSteps == [AdministrationNext]_<<subject, rosterVars, usersSide, clientsSide, accessSide>>
                        => [HO!Next]_handoutVars
  BY DEF AdministrationNext, RosterAlone, SecretsAlone, ProjectsAlone, GroupsAlone, UsersAlone,
     LogoutAlone, ScreensAlone, HandoutsAlone, accessSide

\* The newest secret of a client works until it is revoked by hand, another is current only
\* if two rotations overlapped, and a revoked or expired one never gets a token (clients.service).  Once
\* all is answered, the credential noted last is the one in force, unless an answer was not heard or
\* two requests overlapped (AdminWorkspace, InteractionLogin).
THEOREM SecretsAreSound == AdministrationSpec => []SecretsSound
  <1>1. AdministrationInit => SecretsInv /\ HandoutInv
    BY SecretsInvInit, HandoutInvInit DEF AdministrationInit
  <1>2. ASSUME SecretsInv, HandoutInv,
               [AdministrationNext]_<<subject, rosterVars, usersSide, clientsSide, accessSide>>
        PROVE  SecretsInv' /\ HandoutInv'
    BY <1>2, SecretsInvKept, SecretSteps, HandoutInvKept, HandoutSteps
  <1>3. SecretsInv /\ HandoutInv => SecretsSound
    BY DEF SecretsInv, HandoutInv, SecretsSound
  <1>4. QED
    BY <1>1, <1>2, <1>3, PTL DEF AdministrationSpec
-----------------------------------------------------------------------------
(* All eight together. *)

LEMMA RosterSteps == [AdministrationNext]_<<subject, rosterVars, usersSide, clientsSide, accessSide>>
                       => [Next]_vars
  BY DEF AdministrationNext, SecretsAlone, ProjectsAlone, GroupsAlone, UsersAlone,
     LogoutAlone, ScreensAlone, HandoutsAlone, rosterVars

\* The invariants of the eight, which rest on no fact about one another.
EightInv ==
  /\ RosterInv /\ SecretsInv /\ ProjectInv /\ GroupInv /\ UsersInv /\ LogoutInv /\ ScreenInv
  /\ HandoutInv

\* Each of the eight machines keeps its types, for any number of requests.
THEOREM AdministrationTypes == AdministrationSpec => []AllTyped
  <1>1. AdministrationInit => EightInv
    BY RosterInvInit, SecretsInvInit, ProjectInvInit, GroupInvInit, UsersInvInit, LogoutInvInit,
       ScreenInvInit, HandoutInvInit DEF AdministrationInit, EightInv
  <1>2. EightInv /\ [AdministrationNext]_<<subject, rosterVars, usersSide, clientsSide, accessSide>>
          => EightInv'
    BY RosterInvStep, RosterSteps, SecretsInvKept, SecretSteps, ProjectInvStep, ProjectSteps,
       GroupInvStep, GroupSteps, UsersInvKept, UserSteps, LogoutInvStep, LogoutSteps,
       ScreenInvStep, ScreenSteps, HandoutInvKept, HandoutSteps DEF EightInv
  <1>3. EightInv => AllTyped
    BY DEF EightInv, AllTyped, RosterInv, SecretsInv, SecretsTyped, ProjectInv, ProjectTyped,
       GroupInv, GroupTyped, UsersInv, UsersTyped, LogoutInv, ScreenInv, HandoutInv
  <1>4. QED
    BY <1>1, <1>2, <1>3, PTL DEF AdministrationSpec
=============================================================================
