-------------------------- MODULE EventFeed_proofs --------------------------
(***************************************************************************)
(* Proofs about EventFeed, for any users, emitters, page size and bounds.   *)
(*                                                                         *)
(* That a payload is read after its event was inserted is why the highest   *)
(* event_id is the current one; it is not inductive by itself, because a    *)
(* payload may be stale while it waits to be queued.  The strengthening     *)
(* names what makes up for it: a stale payload always has a lower number    *)
(* than an emission that is still to come (Heir), or than the delivery that *)
(* is already queued.                                                       *)
(***************************************************************************)
EXTENDS EventFeed, FiniteSetTheorems, WellFoundedInduction, TLAPS

PcMatches == \A e \in Emitters : pc[e] = "idle" <=> emission[e] = None

SeqsDrawn ==
  /\ \A e \in Emitters : emission[e] # None => emission[e].seq <= drawn
  /\ \A u \in Users : newest[u].seq <= drawn

Of(e, u) == emission[e] # None /\ emission[e].user = u

\* An emission whose payload was read before the last change.
Stale(e, u) == Of(e, u) /\ pc[e] = "enqueue" /\ emission[e].groups # version[u]

\* An emission that will queue the current groups under the highest number.
Heir(c, u) ==
  /\ Of(c, u)
  /\ \/ pc[c] = "insert"
     \/ /\ pc[c] \in {"commit", "groups"} \/ (pc[c] = "enqueue" /\ ~Stale(c, u))
        /\ newest[u].seq < emission[c].seq
        /\ \A e \in Emitters : Stale(e, u) => emission[e].seq < emission[c].seq

Settled(u) == /\ newest[u].groups = version[u]
              /\ \A e \in Emitters : Stale(e, u) => emission[e].seq < newest[u].seq

Succession == \A u \in Users \ (unsent \cup apart) : Settled(u) \/ \E c \in Emitters : Heir(c, u)

\* A deletion takes the memberships with it, for good.
Parted == gone \subseteq apart

FeedInv == TypeOK /\ PcMatches /\ SeqsDrawn /\ Parted /\ Succession
-----------------------------------------------------------------------------
LEMMA FeedInvInit == Init => FeedInv
  <1> SUFFICES ASSUME Init PROVE FeedInv
    OBVIOUS
  <1>1. TypeOK
    BY FeedAssumption DEF Init, TypeOK, Event, Emission, Delivery
  <1>2. PcMatches /\ SeqsDrawn /\ Parted
    BY DEF Init, PcMatches, SeqsDrawn, Parted
  <1>3. Succession
    BY DEF Init, Succession, Settled, Stale, Of
  <1>4. QED
    BY <1>1, <1>2, <1>3 DEF FeedInv

\* What the first step of an emission leaves behind.
LEMMA StartTyped ==
  ASSUME TypeOK, NEW e \in Emitters, NEW u \in Users, NEW erase \in BOOLEAN,
         NEW groups \in Nat, Start(e, u, erase, groups)
  PROVE  /\ emission' \in [Emitters -> Emission \cup {None}]
         /\ emission'[e] # None /\ emission'[e].user = u /\ emission'[e].seq = 0
         /\ pc' \in [Emitters -> {"idle", "insert", "commit", "groups", "enqueue", "erase"}]
         /\ pc'[e] = "insert"
         /\ \A x \in Emitters : x # e => emission'[x] = emission[x] /\ pc'[x] = pc[x]
  <1>1. [user |-> u, erase |-> erase, seq |-> 0, groups |-> groups] \in Emission
    BY DEF Emission
  <1>2. [user |-> u, erase |-> erase, seq |-> 0, groups |-> groups] # None
    BY <1>1, FeedAssumption DEF Emission
  <1>3. QED
    BY <1>1, <1>2 DEF Start, Goto, TypeOK

LEMMA TypeStep == TypeOK /\ PcMatches /\ [Next]_vars => TypeOK' /\ PcMatches'
  <1> SUFFICES ASSUME TypeOK, PcMatches, [Next]_vars PROVE TypeOK' /\ PcMatches'
    OBVIOUS
  <1> USE DEF Event, Emission, Delivery, Goto, Finish, EndEmit
  <1>1. ASSUME NEW e \in Emitters, NEW u \in Users, Change(e, u)
        PROVE  TypeOK' /\ PcMatches'
    <2>1. version[u] + 1 \in Nat /\ FALSE \in BOOLEAN
      BY DEF TypeOK
    <2>s. Start(e, u, FALSE, version[u] + 1)
      BY <1>1, Zenon DEF Change
    <2>2. /\ emission' \in [Emitters -> Emission \cup {None}] /\ emission'[e] # None
          /\ pc' \in [Emitters -> {"idle", "insert", "commit", "groups", "enqueue", "erase"}]
          /\ pc'[e] = "insert"
          /\ \A x \in Emitters : x # e => emission'[x] = emission[x] /\ pc'[x] = pc[x]
      BY <2>1, <2>s, StartTyped
    <2>3. QED
      BY <1>1, <2>2, FeedAssumption DEF Change, MayMove, TypeOK, PcMatches, client, history
  <1>2. ASSUME NEW e \in Emitters, DrawSeq(e) PROVE TypeOK' /\ PcMatches'
    <2>1. emission[e] \in Emission
      BY <1>2 DEF DrawSeq, TypeOK, PcMatches
    <2>2. [emission[e] EXCEPT !.seq = drawn + 1] \in Emission
      BY <2>1 DEF TypeOK
    <2>3. QED
      BY <1>2, <2>2, FeedAssumption DEF DrawSeq, TypeOK, PcMatches, client, history
  <1>3. ASSUME NEW e \in Emitters, CommitEvent(e) PROVE TypeOK' /\ PcMatches'
    <2>1. emission[e] \in Emission
      BY <1>3 DEF CommitEvent, TypeOK, PcMatches
    <2>2. [seq |-> emission[e].seq, user |-> emission[e].user] \in Event
      BY <2>1
    <2>3. QED
      BY <1>3, <2>1, <2>2 DEF CommitEvent, TypeOK, PcMatches, client
  <1>4. ASSUME NEW e \in Emitters, ReadGroups(e) PROVE TypeOK' /\ PcMatches'
    <2>1. emission[e] \in Emission
      BY <1>4 DEF ReadGroups, TypeOK, PcMatches
    <2>2. [emission[e] EXCEPT !.groups = version[emission[e].user]] \in Emission
      BY <2>1 DEF TypeOK
    <2>3. QED
      BY <1>4, <2>2, FeedAssumption DEF ReadGroups, Groups, TypeOK, PcMatches, client, history
  <1>5. ASSUME NEW e \in Emitters, EnqueueDelivery(e) PROVE TypeOK' /\ PcMatches'
    <2>1. emission[e] \in Emission
      BY <1>5 DEF EnqueueDelivery, TypeOK, PcMatches
    <2>2. [seq |-> emission[e].seq, groups |-> emission[e].groups] \in Delivery
      BY <2>1
    <2>3. QED
      BY <1>5, <2>1, <2>2, FeedAssumption DEF EnqueueDelivery, TypeOK, PcMatches, client, history
  <1>6. ASSUME NEW e \in Emitters, LoseEmission(e) PROVE TypeOK' /\ PcMatches'
    <2>1. emission[e] \in Emission
      BY <1>6 DEF LoseEmission, TypeOK, PcMatches
    <2>2. QED
      BY <1>6, <2>1, FeedAssumption DEF LoseEmission, TypeOK, PcMatches, client
  <1>7. ASSUME NEW n \in 1..drawn, Purge(n) PROVE TypeOK' /\ PcMatches'
    <2>1. {x.user : x \in {y \in events \ events' : y.seq > cursor}} \subseteq Users
      BY DEF TypeOK
    <2>2. QED
      BY <1>7, <2>1 DEF Purge, TypeOK, PcMatches, client
  <1>8. CASE PollBounds
    <2>1. MaxSeq(events) \subseteq Nat
      BY DEF MaxSeq, TypeOK
    <2>2. QED
      BY <1>8, <2>1 DEF PollBounds, TypeOK, PcMatches, server, history
  <1>9. CASE PollPage
    <2>1. Page(cursor) \subseteq Event
      BY DEF Page, First, Visible, After, TypeOK
    <2>2. CursorOf(Page(cursor)) \subseteq Nat /\ {x.user : x \in Page(cursor)} \subseteq Users
      BY <2>1 DEF CursorOf, MaxSeq, TypeOK
    <2>3. QED
      BY <1>9, <2>2 DEF PollPage, TypeOK, PcMatches, server, history
  <1>10. ASSUME NEW u \in Users, Resolve(u) PROVE TypeOK' /\ PcMatches'
    BY <1>10 DEF Resolve, TypeOK, PcMatches, server
  <1>11. CASE Advance
    BY <1>11 DEF Advance, TypeOK, PcMatches, server, history
  <1>12. CASE LosePoll
    BY <1>12 DEF LosePoll, TypeOK, PcMatches, server
  <1>13. ASSUME NEW e \in Emitters, NEW u \in Users, BeginErase(e, u)
         PROVE  TypeOK' /\ PcMatches'
    <2>1. version[u] \in Nat /\ TRUE \in BOOLEAN /\ Start(e, u, TRUE, version[u])
      BY <1>13 DEF BeginErase, TypeOK
    <2>2. /\ emission' \in [Emitters -> Emission \cup {None}] /\ emission'[e] # None
          /\ pc' \in [Emitters -> {"idle", "insert", "commit", "groups", "enqueue", "erase"}]
          /\ pc'[e] = "insert"
          /\ \A x \in Emitters : x # e => emission'[x] = emission[x] /\ pc'[x] = pc[x]
      BY <2>1, StartTyped
    <2>3. QED
      BY <1>13, <2>2 DEF BeginErase, TypeOK, PcMatches, client, history
  <1>14. ASSUME NEW e \in Emitters, RefuseEvent(e) PROVE TypeOK' /\ PcMatches'
    BY <1>14 DEF RefuseEvent, TypeOK, PcMatches, client, history
  <1>15. ASSUME NEW e \in Emitters, EraseUser(e) PROVE TypeOK' /\ PcMatches'
    <2>1. emission[e] \in Emission
      BY <1>15 DEF EraseUser, TypeOK, PcMatches
    <2>2. QED
      BY <1>15, <2>1 DEF EraseUser, TypeOK, PcMatches, client
  <1>r. ASSUME NEW u \in Users, Rescope(u) PROVE TypeOK' /\ PcMatches'
    BY <1>r, FeedAssumption DEF Rescope, MayMove, TypeOK, PcMatches, client
  <1>16. CASE UNCHANGED vars
    BY <1>16 DEF TypeOK, PcMatches, vars, server, client, history
  <1>17. QED
    BY <1>1, <1>2, <1>3, <1>4, <1>5, <1>6, <1>7, <1>8, <1>9, <1>10, <1>11, <1>12, <1>13,
       <1>14, <1>15, <1>r, <1>16 DEF Next, Emit, Work

LEMMA SeqsStep == TypeOK /\ PcMatches /\ SeqsDrawn /\ [Next]_vars => SeqsDrawn'
  <1> SUFFICES ASSUME TypeOK, PcMatches, SeqsDrawn, [Next]_vars PROVE SeqsDrawn'
    OBVIOUS
  <1> USE DEF Emission, Delivery, Goto, Finish, EndEmit
  <1>1. ASSUME NEW e \in Emitters, NEW u \in Users, Change(e, u) PROVE SeqsDrawn'
    <2>1. version[u] + 1 \in Nat /\ FALSE \in BOOLEAN
      BY DEF TypeOK
    <2>s. Start(e, u, FALSE, version[u] + 1)
      BY <1>1, Zenon DEF Change
    <2>2. /\ emission'[e].seq = 0
          /\ \A x \in Emitters : x # e => emission'[x] = emission[x]
      BY <2>1, <2>s, StartTyped
    <2>3. QED
      BY <1>1, <2>2 DEF Change, TypeOK, SeqsDrawn
  <1>2. ASSUME NEW e \in Emitters, DrawSeq(e) PROVE SeqsDrawn'
    <2>1. emission[e] \in Emission /\ drawn \in Nat /\ drawn' = drawn + 1
      BY <1>2 DEF DrawSeq, TypeOK, PcMatches
    <2>2. [emission[e] EXCEPT !.seq = drawn + 1].seq = drawn + 1
      BY <2>1
    <2>3. \A u \in Users : newest'[u].seq <= drawn'
      BY <1>2, <2>1 DEF DrawSeq, TypeOK, SeqsDrawn
    <2>4. \A x \in Emitters : emission'[x] # None => emission'[x].seq <= drawn'
      BY <1>2, <2>1, <2>2 DEF DrawSeq, TypeOK, SeqsDrawn
    <2>5. QED
      BY <2>3, <2>4 DEF SeqsDrawn
  <1>3. ASSUME NEW e \in Emitters, ReadGroups(e) PROVE SeqsDrawn'
    <2>1. emission[e] \in Emission /\ emission[e] # None
      BY <1>3 DEF ReadGroups, TypeOK, PcMatches
    <2>2. [emission[e] EXCEPT !.groups = Groups(e)].seq = emission[e].seq
      BY <2>1
    <2>3. QED
      BY <1>3, <2>1, <2>2 DEF ReadGroups, TypeOK, SeqsDrawn
  <1>4. ASSUME NEW e \in Emitters, EnqueueDelivery(e) PROVE SeqsDrawn'
    <2>1. emission[e] \in Emission /\ emission[e] # None
      BY <1>4 DEF EnqueueDelivery, TypeOK, PcMatches
    <2>2. QED
      BY <1>4, <2>1 DEF EnqueueDelivery, TypeOK, SeqsDrawn
  <1>5. ASSUME NEW e \in Emitters, LoseEmission(e) PROVE SeqsDrawn'
    BY <1>5 DEF LoseEmission, TypeOK, SeqsDrawn
  <1>e. ASSUME NEW e \in Emitters, NEW u \in Users, BeginErase(e, u) PROVE SeqsDrawn'
    <2>1. version[u] \in Nat /\ TRUE \in BOOLEAN /\ Start(e, u, TRUE, version[u])
      BY <1>e DEF BeginErase, TypeOK
    <2>2. /\ emission'[e].seq = 0
          /\ \A x \in Emitters : x # e => emission'[x] = emission[x]
      BY <2>1, StartTyped
    <2>3. QED
      BY <1>e, <2>2 DEF BeginErase, TypeOK, SeqsDrawn
  <1>f. ASSUME NEW e \in Emitters, RefuseEvent(e) \/ EraseUser(e) PROVE SeqsDrawn'
    BY <1>f DEF RefuseEvent, EraseUser, TypeOK, SeqsDrawn
  <1>6. CASE UNCHANGED <<drawn, emission, newest>>
    BY <1>6 DEF SeqsDrawn
  <1>7. QED
    BY <1>1, <1>2, <1>3, <1>4, <1>5, <1>e, <1>f, <1>6
       DEF Next, Emit, Work, CommitEvent, Purge, PollBounds, PollPage, Resolve, Advance,
           LosePoll, Rescope, vars, server

LEMMA PartedStep == Parted /\ [Next]_vars => Parted'
  <1> SUFFICES ASSUME Parted, [Next]_vars PROVE Parted'
    OBVIOUS
  <1>1. ASSUME NEW e \in Emitters, NEW u \in Users, Change(e, u) PROVE Parted'
    BY <1>1 DEF Change, MayStart, MayMove, Parted
  <1>2. ASSUME NEW u \in Users, Rescope(u) PROVE Parted'
    BY <1>2 DEF Rescope, MayMove, Parted
  <1>3. ASSUME NEW e \in Emitters, EraseUser(e) PROVE Parted'
    BY <1>3 DEF EraseUser, Parted
  <1>4. CASE UNCHANGED <<gone, apart>>
    BY <1>4 DEF Parted
  <1>5. QED
    BY <1>1, <1>2, <1>3, <1>4
       DEF Next, Emit, Work, BeginErase, DrawSeq, CommitEvent, RefuseEvent, ReadGroups,
           EnqueueDelivery, LoseEmission, Purge, PollBounds, PollPage, Resolve, Advance,
           LosePoll, vars, server

LEMMA SuccessionStep == FeedInv /\ [Next]_vars => Succession'
  <1> SUFFICES ASSUME FeedInv, [Next]_vars, NEW u \in Users, u \notin unsent', u \notin apart'
               PROVE  Settled(u)' \/ \E c \in Emitters : Heir(c, u)'
    BY DEF Succession
  <1> USE DEF Emission, Delivery, Goto, Finish, EndEmit
  <1>t. /\ TypeOK /\ PcMatches /\ SeqsDrawn /\ Parted
        /\ newest[u].seq \in Nat /\ newest[u].groups \in Nat /\ version[u] \in Nat
        /\ \A e \in Emitters : emission[e] # None => emission[e] \in Emission
        /\ \A e \in Emitters : Stale(e, u) => emission[e].seq <= drawn
    BY DEF FeedInv, TypeOK, SeqsDrawn, Stale, Of
  <1>c. ASSUME NEW e \in Emitters, NEW v \in Users, Change(e, v)
        PROVE  /\ emission'[e] # None /\ emission'[e].user = v /\ pc'[e] = "insert" /\ pc[e] = "idle"
               /\ \A x \in Emitters : x # e => emission'[x] = emission[x] /\ pc'[x] = pc[x]
    <2>1. version[v] + 1 \in Nat /\ FALSE \in BOOLEAN
      BY <1>t DEF TypeOK
    <2>2. Start(e, v, FALSE, version[v] + 1)
      BY <1>c, Zenon DEF Change
    <2>3. QED
      BY <1>c, <1>t, <2>1, <2>2, StartTyped DEF Change, MayStart
  \* Who changes has an heir, also when the change gives him a group again.
  <1>i. ASSUME NEW e \in Emitters, Change(e, u) PROVE Heir(e, u)'
    BY <1>c, <1>i DEF Heir, Of
  <1> SUFFICES ASSUME \A e \in Emitters : ~Change(e, u)
               PROVE  Settled(u)' \/ \E c \in Emitters : Heir(c, u)'
    BY <1>i
  <1>0. u \notin unsent /\ u \notin apart /\ (Settled(u) \/ \E c \in Emitters : Heir(c, u))
    <2>1. ASSUME NEW e \in Emitters, NEW v \in Users, Change(e, v)
          PROVE  unsent' = unsent /\ (u \in apart => u \in apart')
      BY <2>1 DEF Change, MayMove
    <2>2. ASSUME NEW v \in Users, Rescope(v)
          PROVE  unsent \subseteq unsent' /\ (u \in apart => u \in apart')
      BY <2>2 DEF Rescope, MayMove
    <2>3. ASSUME NEW e \in Emitters, EraseUser(e)
          PROVE  (u \in unsent => u \in unsent') /\ (u \in apart => u \in apart')
      BY <2>3 DEF EraseUser
    <2>4. CASE apart' = apart /\ unsent \subseteq unsent'
      BY <2>4 DEF FeedInv, Succession
    <2>5. CASE \/ \E e \in Emitters : (\E v \in Users : Change(e, v)) \/ EraseUser(e)
               \/ \E v \in Users : Rescope(v)
      BY <2>1, <2>2, <2>3, <2>5 DEF FeedInv, Succession
    <2>6. QED
      BY <2>4, <2>5
         DEF Next, Emit, Work, BeginErase, DrawSeq, CommitEvent, RefuseEvent, ReadGroups,
             EnqueueDelivery, LoseEmission, Purge, PollBounds, PollPage, Resolve, Advance,
             LosePoll, vars, server
  <1>1. ASSUME NEW e \in Emitters, NEW v \in Users, Change(e, v)
        PROVE  Settled(u)' \/ \E c \in Emitters : Heir(c, u)'
    <2>1. v # u
      BY <1>1
    <2>2. version'[u] = version[u] /\ newest' = newest
      BY <1>1, <1>t, <2>1 DEF Change, TypeOK
    <2>3. \A x \in Emitters : Of(x, u)' <=> Of(x, u)
      BY <1>1, <1>t, <1>c, <2>1 DEF PcMatches, Of
    <2>4. \A x \in Emitters : Of(x, u) => emission'[x] = emission[x] /\ pc'[x] = pc[x]
      BY <1>1, <1>t, <1>c DEF PcMatches, Of
    <2>5. \A x \in Emitters : Stale(x, u)' <=> Stale(x, u)
      BY <2>2, <2>3, <2>4 DEF Stale
    <2>6. QED
      BY <1>0, <2>2, <2>3, <2>4, <2>5 DEF Settled, Heir, Stale
  <1>r. ASSUME NEW v \in Users, Rescope(v)
        PROVE  Settled(u)' \/ \E c \in Emitters : Heir(c, u)'
    <2>1. v # u
      BY <1>r DEF Rescope
    <2>2. /\ version'[u] = version[u] /\ UNCHANGED <<pc, emission, newest>>
      BY <1>r, <1>t, <2>1 DEF Rescope, TypeOK
    <2>3. QED
      BY <1>0, <2>2 DEF Settled, Heir, Stale, Of
  <1>2. ASSUME NEW e \in Emitters, DrawSeq(e)
        PROVE  Settled(u)' \/ \E c \in Emitters : Heir(c, u)'
    <2>1. /\ pc[e] = "insert" /\ emission[e] \in Emission /\ emission[e] # None
          /\ drawn \in Nat /\ newest' = newest /\ version' = version
      BY <1>2, <1>t DEF DrawSeq, TypeOK, PcMatches
    <2>2. /\ pc'[e] = "commit" /\ emission'[e] # None
          /\ emission'[e].user = emission[e].user /\ emission'[e].seq = drawn + 1
      BY <1>2, <1>t, <2>1, FeedAssumption DEF DrawSeq, TypeOK
    <2>3. \A x \in Emitters : x # e => emission'[x] = emission[x] /\ pc'[x] = pc[x]
      BY <1>2, <1>t DEF DrawSeq, TypeOK
    <2>4. \A x \in Emitters : Stale(x, u)' <=> Stale(x, u)
      BY <2>1, <2>2, <2>3 DEF Stale, Of
    <2>5. \A x \in Emitters : Stale(x, u) => x # e
      BY <2>1 DEF Stale
    <2>6. CASE Settled(u)
      BY <2>1, <2>3, <2>4, <2>5, <2>6 DEF Settled
    <2>7. CASE Heir(e, u)
      <3>1. \A x \in Emitters : Stale(x, u)' => emission'[x].seq < emission'[e].seq
        <4> SUFFICES ASSUME NEW x \in Emitters, Stale(x, u)
                     PROVE  emission'[x].seq < emission'[e].seq
          BY <2>4
        <4>1. emission'[x] = emission[x] /\ emission[x].seq \in Nat /\ emission[x].seq <= drawn
          BY <1>t, <2>3, <2>5 DEF Stale, Of
        <4>2. QED
          BY <4>1, <2>1, <2>2
      <3>2. newest'[u].seq < emission'[e].seq
        BY <1>t, <2>1, <2>2 DEF SeqsDrawn
      <3>3. QED
        BY <2>2, <2>7, <3>1, <3>2 DEF Heir, Of
    <2>8. ASSUME NEW c \in Emitters, c # e, Heir(c, u) PROVE Heir(c, u)'
      BY <2>1, <2>3, <2>4, <2>5, <2>8 DEF Heir, Of
    <2>9. QED
      BY <1>0, <2>6, <2>7, <2>8
  <1>3. ASSUME NEW e \in Emitters, CommitEvent(e)
        PROVE  Settled(u)' \/ \E c \in Emitters : Heir(c, u)'
    <2>1. /\ emission' = emission /\ newest' = newest /\ version' = version
          /\ \A x \in Emitters : x # e => pc'[x] = pc[x]
          /\ pc[e] = "commit" /\ pc'[e] = "groups"
      BY <1>3, <1>t DEF CommitEvent, TypeOK
    <2>2. \A x \in Emitters : Stale(x, u)' <=> Stale(x, u)
      BY <2>1 DEF Stale, Of
    <2>3. QED
      BY <1>0, <2>1, <2>2 DEF Settled, Heir, Of
  <1>4. ASSUME NEW e \in Emitters, ReadGroups(e)
        PROVE  Settled(u)' \/ \E c \in Emitters : Heir(c, u)'
    <2>1. /\ pc[e] = "groups" /\ emission[e] \in Emission /\ emission[e] # None
          /\ newest' = newest /\ version' = version
      BY <1>4, <1>t DEF ReadGroups, TypeOK, PcMatches
    <2>2. /\ pc'[e] = "enqueue" /\ emission'[e] # None
          /\ emission'[e].user = emission[e].user /\ emission'[e].seq = emission[e].seq
          /\ emission'[e].groups = version[emission[e].user]
      BY <1>4, <1>t, <2>1, FeedAssumption DEF ReadGroups, Groups, TypeOK
    <2>3. \A x \in Emitters : x # e => emission'[x] = emission[x] /\ pc'[x] = pc[x]
      BY <1>4, <1>t DEF ReadGroups, TypeOK
    <2>4. ~Stale(e, u)' /\ ~Stale(e, u)
      BY <2>1, <2>2 DEF Stale, Of
    <2>5. \A x \in Emitters : x # e => (Stale(x, u)' <=> Stale(x, u))
      BY <2>1, <2>3 DEF Stale, Of
    <2>6. QED
      BY <1>0, <2>1, <2>2, <2>3, <2>4, <2>5 DEF Settled, Heir, Of
  <1>5. ASSUME NEW e \in Emitters, EnqueueDelivery(e)
        PROVE  Settled(u)' \/ \E c \in Emitters : Heir(c, u)'
    <2>1. /\ pc[e] = "enqueue" /\ emission[e] \in Emission /\ emission[e] # None
          /\ version' = version /\ pc'[e] \in {"idle", "erase"}
      BY <1>5, <1>t DEF EnqueueDelivery, TypeOK, PcMatches
    <2>2. \A x \in Emitters : x # e => emission'[x] = emission[x] /\ pc'[x] = pc[x]
      BY <1>5, <1>t DEF EnqueueDelivery, TypeOK
    <2>3. ~Stale(e, u)' /\ \A x \in Emitters : x # e => (Stale(x, u)' <=> Stale(x, u))
      BY <2>1, <2>2 DEF Stale, Of
    <2>4. \/ newest'[u] = newest[u] /\ ~(Of(e, u) /\ emission[e].seq > newest[u].seq)
          \/ /\ Of(e, u) /\ emission[e].seq > newest[u].seq
             /\ newest'[u] = [seq |-> emission[e].seq, groups |-> emission[e].groups]
      BY <1>0, <1>5, <1>t, <2>1 DEF EnqueueDelivery, TypeOK, Of
    <2>5. CASE Settled(u)
      <3>1. CASE newest'[u] = newest[u]
        BY <2>1, <2>2, <2>3, <2>5, <3>1 DEF Settled
      <3>2. CASE /\ Of(e, u) /\ emission[e].seq > newest[u].seq
                 /\ newest'[u] = [seq |-> emission[e].seq, groups |-> emission[e].groups]
        <4>1. ~Stale(e, u)
          BY <1>t, <2>1, <2>5, <3>2 DEF Settled
        <4>2. newest'[u].groups = version'[u] /\ newest'[u].seq = emission[e].seq
          BY <2>1, <3>2, <4>1 DEF Stale
        <4>3. \A x \in Emitters : Stale(x, u)' => emission'[x].seq < newest'[u].seq
          <5> SUFFICES ASSUME NEW x \in Emitters, Stale(x, u)'
                       PROVE  emission'[x].seq < newest'[u].seq
            OBVIOUS
          <5>1. x # e /\ emission'[x] = emission[x] /\ Stale(x, u)
            BY <2>2, <2>3
          <5>2. emission[x].seq \in Nat /\ emission[x].seq < newest[u].seq
            BY <1>t, <2>5, <5>1 DEF Settled, Stale, Of
          <5>3. QED
            BY <1>t, <2>1, <3>2, <4>2, <5>1, <5>2
        <4>4. QED
          BY <4>2, <4>3 DEF Settled
      <3>3. QED
        BY <2>4, <3>1, <3>2
    <2>6. ASSUME NEW c \in Emitters, Heir(c, u)
          PROVE  Settled(u)' \/ Heir(c, u)'
      <3>1. CASE pc[c] = "insert"
        BY <2>1, <2>2, <2>6, <3>1 DEF Heir, Of
      <3>2. CASE pc[c] # "insert"
        <4>1. /\ newest[u].seq < emission[c].seq /\ emission[c].seq \in Nat
              /\ \A x \in Emitters : Stale(x, u) => emission[x].seq < emission[c].seq
              /\ ~Stale(c, u)
          BY <1>t, <2>6, <3>2 DEF Heir, Of, Stale
        <4>2. CASE Of(e, u) /\ (c = e \/ emission[c].seq <= emission[e].seq)
          <5>1. ~Stale(e, u)
            BY <1>t, <2>1, <4>1, <4>2
          <5>2. /\ newest'[u] = [seq |-> emission[e].seq, groups |-> emission[e].groups]
                /\ emission[c].seq <= emission[e].seq
            BY <1>t, <2>1, <2>4, <4>1, <4>2
          <5>3. newest'[u].groups = version'[u] /\ newest'[u].seq = emission[e].seq
            BY <2>1, <4>2, <5>1, <5>2 DEF Stale
          <5>4. \A x \in Emitters : Stale(x, u)' => emission'[x].seq < newest'[u].seq
            <6> SUFFICES ASSUME NEW x \in Emitters, Stale(x, u)'
                         PROVE  emission'[x].seq < newest'[u].seq
              OBVIOUS
            <6>1. x # e /\ emission'[x] = emission[x] /\ Stale(x, u)
              BY <2>2, <2>3
            <6>2. emission[x].seq \in Nat /\ emission[x].seq < emission[c].seq
              BY <1>t, <4>1, <6>1 DEF Stale, Of
            <6>3. QED
              BY <2>1, <4>1, <5>2, <5>3, <6>1, <6>2
          <5>5. QED
            BY <5>3, <5>4 DEF Settled
        <4>3. CASE ~(Of(e, u) /\ (c = e \/ emission[c].seq <= emission[e].seq))
          <5>1. c # e /\ emission'[c] = emission[c] /\ pc'[c] = pc[c]
            BY <2>2, <2>6, <4>3 DEF Heir
          <5>2. newest'[u].seq < emission[c].seq
            BY <1>t, <2>1, <2>4, <4>1, <4>3
          <5>3. \A x \in Emitters : Stale(x, u)' => emission'[x].seq < emission'[c].seq
            BY <2>2, <2>3, <4>1, <5>1
          <5>4. QED
            BY <2>3, <2>6, <3>2, <5>1, <5>2, <5>3 DEF Heir, Of
        <4>4. QED
          BY <4>2, <4>3
      <3>3. QED
        BY <3>1, <3>2
    <2>7. QED
      BY <1>0, <2>5, <2>6
  <1>6. ASSUME NEW e \in Emitters, LoseEmission(e)
        PROVE  Settled(u)' \/ \E c \in Emitters : Heir(c, u)'
    <2>1. emission[e].user # u /\ newest' = newest /\ version' = version
      BY <1>6 DEF LoseEmission
    <2>2. \A x \in Emitters : x # e => emission'[x] = emission[x] /\ pc'[x] = pc[x]
      BY <1>6, <1>t DEF LoseEmission, TypeOK
    <2>3. ~Stale(e, u)' /\ ~Stale(e, u)
      BY <1>6, <1>t, <2>1 DEF LoseEmission, TypeOK, Stale, Of
    <2>4. \A x \in Emitters : Stale(x, u)' <=> Stale(x, u)
      BY <2>1, <2>2, <2>3 DEF Stale, Of
    <2>5. \A x \in Emitters : Of(x, u) => x # e
      BY <2>1 DEF Of
    <2>6. \A x \in Emitters : Stale(x, u) => x # e
      BY <2>5 DEF Stale
    <2>7. CASE Settled(u)
      BY <2>1, <2>2, <2>4, <2>6, <2>7 DEF Settled
    <2>8. ASSUME NEW c \in Emitters, Heir(c, u) PROVE Heir(c, u)'
      BY <2>1, <2>2, <2>4, <2>5, <2>6, <2>8 DEF Heir, Of
    <2>9. QED
      BY <1>0, <2>7, <2>8
  <1>e. ASSUME NEW e \in Emitters, NEW v \in Users, BeginErase(e, v)
        PROVE  Settled(u)' \/ \E c \in Emitters : Heir(c, u)'
    <2>1. /\ pc[e] = "idle" /\ emission[e] = None /\ pc'[e] = "insert"
          /\ version' = version /\ newest' = newest
          /\ \A x \in Emitters : x # e => emission'[x] = emission[x] /\ pc'[x] = pc[x]
      <3>1. version[v] \in Nat /\ TRUE \in BOOLEAN /\ Start(e, v, TRUE, version[v])
        BY <1>e, <1>t DEF BeginErase, TypeOK
      <3>2. QED
        BY <1>e, <1>t, <3>1, StartTyped DEF BeginErase, MayStart, PcMatches
    <2>2. \A x \in Emitters : Stale(x, u)' <=> Stale(x, u)
      BY <2>1 DEF Stale, Of
    <2>3. \A x \in Emitters : Of(x, u) => x # e
      BY <2>1 DEF Of
    <2>4. \A x \in Emitters : Stale(x, u) => x # e
      BY <2>3 DEF Stale
    <2>5. CASE Settled(u)
      BY <2>1, <2>2, <2>4, <2>5 DEF Settled
    <2>6. ASSUME NEW c \in Emitters, Heir(c, u) PROVE Heir(c, u)'
      BY <2>1, <2>2, <2>3, <2>4, <2>6 DEF Heir, Of
    <2>7. QED
      BY <1>0, <2>5, <2>6
  <1>f. ASSUME NEW e \in Emitters, RefuseEvent(e) \/ EraseUser(e)
        PROVE  Settled(u)' \/ \E c \in Emitters : Heir(c, u)'
    <2>1. emission[e] # None /\ emission[e].user # u
      BY <1>0, <1>f, <1>t DEF RefuseEvent, EraseUser, PcMatches, Parted
    <2>2. /\ version' = version /\ newest' = newest
          /\ \A x \in Emitters : x # e => emission'[x] = emission[x] /\ pc'[x] = pc[x]
          /\ emission'[e] \in {None, emission[e]}
      BY <1>f, <1>t DEF RefuseEvent, EraseUser, TypeOK
    <2>3. \A x \in Emitters : (Of(x, u)' <=> Of(x, u)) /\ (Of(x, u) => x # e)
      BY <2>1, <2>2 DEF Of
    <2>4. \A x \in Emitters : (Stale(x, u)' <=> Stale(x, u)) /\ (Stale(x, u) => x # e)
      BY <2>2, <2>3 DEF Stale
    <2>5. CASE Settled(u)
      BY <2>2, <2>4, <2>5 DEF Settled
    <2>6. ASSUME NEW c \in Emitters, Heir(c, u) PROVE Heir(c, u)'
      BY <2>2, <2>3, <2>4, <2>6 DEF Heir
    <2>7. QED
      BY <1>0, <2>5, <2>6
  <1>7. CASE UNCHANGED <<version, pc, emission, newest>>
    BY <1>0, <1>7 DEF Settled, Heir, Stale, Of
  <1>8. QED
    BY <1>1, <1>2, <1>3, <1>4, <1>5, <1>6, <1>e, <1>f, <1>r, <1>7
       DEF Next, Emit, Work, Purge, PollBounds, PollPage, Resolve, Advance, LosePoll,
           vars, server

THEOREM FeedInvariant == Spec => []FeedInv
  <1>1. FeedInv /\ [Next]_vars => FeedInv'
    BY TypeStep, SeqsStep, PartedStep, SuccessionStep DEF FeedInv
  <1>2. QED
    BY <1>1, FeedInvInit, PTL DEF Spec

\* Every variable of the feed keeps its type, whatever fails and in whatever
\* order the statements of emissions, polls and purges run.
THEOREM TypeCorrect == Spec => []TypeOK
  <1>1. FeedInv => TypeOK
    BY DEF FeedInv
  <1>2. QED
    BY <1>1, FeedInvariant, PTL

\* The webhook with the highest event_id of a user carries the current groups
\* of that user once no emission for the user is under way, unless one failed,
\* the groups of the client changed, or the user shares none with it any more; who
\* comes back is current again, however many deliveries were skipped meanwhile.
THEOREM NewestIsCurrent == Spec => []HighestIdIsCurrent
  <1>1. FeedInv => HighestIdIsCurrent
    BY DEF FeedInv, Succession, Settled, Heir, Of, HighestIdIsCurrent, Emitting
  <1>2. QED
    BY <1>1, FeedInvariant, PTL
-----------------------------------------------------------------------------
(* A client that polls.  StaleHasCause is about the moment it has caught up; *)
(* what holds all the time is that whoever is out of date in its view is     *)
(* owed something: an emission that will be seen, an event beyond the        *)
(* cursor, a place on the page it is working off, or an event that was       *)
(* purged so far ahead of it that the next poll is answered by 410.          *)

Coming(u) == \E e \in Emitters : Of(e, u) /\ pc[e] \in {"insert", "commit"}

\* Something a client that has read up to t will still be told of u.
Behind(u, t) == Coming(u) \/ \E x \in events : x.user = u /\ x.seq > t

\* An event of u beyond t went unread, and everything up to some number beyond
\* t went with it: what is there, or commits later, has a higher number.
Past(m) ==
  /\ m <= drawn /\ \A x \in events : m < x.seq
  /\ \A e \in Emitters : pc[e] = "commit" => m < emission[e].seq
Lost(u, t) == u \in unread /\ \E m \in Nat : t < m /\ Past(m)

Owed(u) ==
  /\ Behind(u, cursor) \/ (poll # "page" /\ Lost(u, cursor))
  /\ poll = "resolve" => u \in todo \/ Behind(u, upTo) \/ Lost(u, upTo)

Followed  == Users \ (Hidden \cup gone \cup passed)
FollowInv ==
  /\ IsFiniteSet(events)
  /\ poll = "resolve" => cursor <= upTo
  /\ \A u \in Followed : view[u] # version[u] => Owed(u)

\* An event that is not on a page which is not empty has a number beyond it.
LEMMA PageIsInitial ==
  ASSUME TypeOK, IsFiniteSet(events), NEW top \in MaxSeq(Page(cursor)),
         NEW x \in events, x.user \notin Hidden, cursor < x.seq, x.seq <= top
  PROVE  x \in Page(cursor)
  <1> DEFINE S == Visible(After(cursor))
             Below(y) == {z \in S : z.seq < y.seq}
  <1>1. x \in S /\ S \subseteq events
    BY DEF Visible, After, TypeOK, Event
  <1>2. PICK y \in Page(cursor) : y.seq = top
    BY DEF MaxSeq
  <1>3. y \in S /\ Cardinality(Below(y)) < Limit
    BY <1>2 DEF Page, First
  <1>4. Below(x) \subseteq Below(y) /\ IsFiniteSet(Below(y)) /\ IsFiniteSet(Below(x))
    <2>1. Below(x) \subseteq Below(y)
      BY <1>1, <1>2, <1>3 DEF TypeOK, Event
    <2>2. Below(y) \subseteq events /\ Below(x) \subseteq events
      BY <1>1
    <2>3. QED
      BY <2>1, <2>2, FS_Subset
  <1>5. Cardinality(Below(x)) <= Cardinality(Below(y))
    BY <1>4, FS_Subset
  <1>6. Cardinality(Below(x)) \in Nat /\ Cardinality(Below(y)) \in Nat
    BY <1>4, FS_CardinalityType
  <1>7. Cardinality(Below(x)) < Limit
    BY <1>3, <1>5, <1>6, FeedAssumption
  <1>8. QED
    BY <1>1, <1>7 DEF Page, First

\* The least of some numbers, from the order of the natural numbers being well-founded.
LEMMA LeastNumber ==
  ASSUME NEW S \in SUBSET Nat, S # {}
  PROVE  \E n \in S : \A k \in S : n <= k
  <1> DEFINE Less == {p \in Nat \X Nat : p[1] < p[2]}
  <1>1. IsWellFoundedOn(Less, Nat)
    BY NatLessThanWellFounded DEF OpToRel
  <1>2. PICK n \in S : \A k \in S : ~(<<k, n>> \in Less)
    BY <1>1, WFMin, Zenon
  <1>3. \A k \in S : k \in Nat /\ n \in Nat /\ (k < n => <<k, n>> \in Less)
    OBVIOUS
  <1>4. \A k \in S : k \in Nat /\ n \in Nat /\ ~(k < n)
    <2> HIDE DEF Less
    <2>1. QED
      BY <1>2, <1>3, Zenon
  <1>5. QED
    BY <1>4

LEMMA LeastSeq ==
  ASSUME NEW S \in SUBSET Event, S # {}
  PROVE  \E x \in S : \A y \in S : x.seq <= y.seq
  <1> DEFINE Seqs == {x.seq : x \in S}
  <1>1. Seqs \in SUBSET Nat /\ Seqs # {}
    BY DEF Event
  <1>2. PICK n \in Seqs : \A k \in Seqs : n <= k
    <2> HIDE DEF Seqs
    <2>1. QED
      BY <1>1, LeastNumber
  <1>3. QED
    BY <1>2

\* A page is empty only when nothing is left to be shown.
LEMMA EmptyPage ==
  ASSUME TypeOK, IsFiniteSet(events), Page(cursor) = {}
  PROVE  \A x \in events : x.user \notin Hidden => x.seq <= cursor
  <1> SUFFICES ASSUME NEW x \in events, x.user \notin Hidden, cursor < x.seq PROVE FALSE
    BY DEF TypeOK, Event
  <1> DEFINE S == Visible(After(cursor))
  <1>1. x \in S /\ S \in SUBSET Event
    BY DEF Visible, After, TypeOK
  <1>2. PICK y \in S : \A z \in S : y.seq <= z.seq
    BY <1>1, LeastSeq
  <1>3. {z \in S : z.seq < y.seq} = {}
    BY <1>1, <1>2 DEF Event
  <1>4. Cardinality({z \in S : z.seq < y.seq}) = 0
    BY <1>3, FS_EmptySet
  <1>5. y \in Page(cursor)
    BY <1>2, <1>4, FeedAssumption DEF Page, First
  <1>6. QED
    BY <1>5

LEMMA FollowInvInit == Init => FollowInv
  BY FS_EmptySet DEF Init, FollowInv

LEMMA FollowBounds ==
  FeedInv /\ FollowInv /\ [Next]_vars
    => IsFiniteSet(events)' /\ (poll' = "resolve" => cursor' <= upTo')
  <1> SUFFICES ASSUME FeedInv, FollowInv, [Next]_vars
               PROVE  IsFiniteSet(events)' /\ (poll' = "resolve" => cursor' <= upTo')
    OBVIOUS
  <1>t. TypeOK /\ cursor \in Nat /\ IsFiniteSet(events) /\ \A x \in events : x.seq \in Nat
    BY DEF FeedInv, FollowInv, TypeOK, Event
  <1>1. IsFiniteSet(events)'
    <2>1. ASSUME NEW e \in Emitters, CommitEvent(e) PROVE IsFiniteSet(events')
      BY <1>t, <2>1, FS_AddElement DEF CommitEvent
    <2>2. CASE events' \subseteq events
      BY <1>t, <2>2, FS_Subset
    <2>3. ASSUME NEW e \in Emitters, NEW u \in Users, Change(e, u) \/ BeginErase(e, u)
          PROVE  events' = events
      BY <2>3 DEF Change, BeginErase
    <2>4. ASSUME NEW e \in Emitters,
                 DrawSeq(e) \/ RefuseEvent(e) \/ ReadGroups(e) \/ EnqueueDelivery(e)
                   \/ EraseUser(e) \/ LoseEmission(e)
          PROVE  events' \subseteq events
      BY <2>4 DEF DrawSeq, RefuseEvent, ReadGroups, EnqueueDelivery, EraseUser, LoseEmission
    <2>5. ASSUME NEW n \in 1 .. drawn, Purge(n) PROVE events' \subseteq events
      BY <2>5 DEF Purge
    <2>6. PollBounds \/ Work \/ LosePoll \/ (\E u \in Users : Rescope(u)) \/ UNCHANGED vars
            => events' = events
      BY DEF Rescope, PollBounds, Work, PollPage, Resolve, Advance, LosePoll, vars, server
    <2>7. QED
      BY <2>1, <2>2, <2>3, <2>4, <2>5, <2>6 DEF Next, Emit
  <1>2. poll' = "resolve" => cursor' <= upTo'
    <2>1. CASE PollBounds
      <3>1. ASSUME events # {}, Gone(cursor), upTo' \in MaxSeq(events), cursor' = cursor
            PROVE  cursor' <= upTo'
        BY <1>t, <3>1 DEF Gone, MaxSeq
      <3>2. QED
        BY <2>1, <3>1 DEF PollBounds
    <2>2. CASE PollPage
      <3>1. upTo' \in CursorOf(Page(cursor)) /\ cursor' = cursor
        BY <2>2 DEF PollPage
      <3>2. CASE Page(cursor) = {}
        BY <1>t, <3>1, <3>2 DEF CursorOf
      <3>3. CASE Page(cursor) # {}
        <4>1. PICK y \in Page(cursor) : upTo' = y.seq
          BY <3>1, <3>3 DEF CursorOf, MaxSeq
        <4>2. y \in events /\ y.seq > cursor
          BY <4>1 DEF Page, First, Visible, After
        <4>3. QED
          BY <1>t, <3>1, <4>1, <4>2
      <3>4. QED
        BY <3>2, <3>3
    <2>3. CASE UNCHANGED <<poll, cursor, upTo>>
      BY <2>3 DEF FollowInv
    <2>4. Advance \/ LosePoll => poll' # "resolve"
      BY DEF Advance, LosePoll
    <2>5. QED
      BY <2>1, <2>2, <2>3, <2>4
      DEF Next, Emit, Work, Change, BeginErase, DrawSeq, CommitEvent, RefuseEvent, EraseUser,
          ReadGroups, EnqueueDelivery, LoseEmission, Purge, Rescope, Resolve, vars, client
  <1>3. QED
    BY <1>1, <1>2

\* A step of an emitter: the client stands where it stood, and nothing that is
\* owed gets lost.
LEMMA StillOwed ==
  ASSUME NEW u \in Users, Owed(u), UNCHANGED <<poll, cursor, upTo, todo>>, u \in unread => u \in unread',
         Coming(u) => Behind(u, cursor)' /\ Behind(u, upTo)',
         \A x \in events : x.user = u => x \in events',
         \A m \in Nat : Past(m) => Past(m)'
  PROVE  Owed(u)'
  <1>1. \A t \in {cursor, upTo} : Lost(u, t) => Lost(u, t)'
    BY DEF Lost
  <1>2. /\ Behind(u, cursor) => Behind(u, cursor)'
        /\ Behind(u, upTo) => Behind(u, upTo)'
    BY DEF Behind
  <1>3. QED
    BY <1>1, <1>2 DEF Owed, Lost

\* Emitters that are not about u, or past the commit, change nothing for it.
LEMMA OthersCome ==
  ASSUME NEW u \in Users, NEW e \in Emitters,
         \A x \in Emitters : x # e => emission'[x] = emission[x] /\ pc'[x] = pc[x],
         ~(Of(e, u) /\ pc[e] \in {"insert", "commit"})
  PROVE  Coming(u) => Coming(u)'
  BY DEF Coming, Of

LEMMA EmitterOwes ==
  ASSUME FeedInv, NEW u \in Users, Owed(u), u \notin passed', u \notin gone', NEW e \in Emitters,
         \/ \E v \in Users : Change(e, v) \/ BeginErase(e, v)
         \/ Emit(e) \/ LoseEmission(e)
  PROVE  Owed(u)'
  <1>t. /\ TypeOK /\ PcMatches /\ drawn \in Nat /\ cursor \in Nat /\ upTo \in Nat
        /\ \A x \in Emitters : emission[x] # None => emission[x] \in Emission
        /\ \A x \in events : x.seq \in Nat
    BY DEF FeedInv, TypeOK, Event
  <1> USE DEF Goto, Finish, EndEmit
  <1>1. ASSUME NEW v \in Users, Change(e, v) \/ BeginErase(e, v) PROVE Owed(u)'
    <2>1. /\ emission'[e] # None /\ emission'[e].user = v /\ pc'[e] = "insert"
          /\ pc[e] = "idle" /\ emission[e] = None
          /\ \A x \in Emitters : x # e => emission'[x] = emission[x] /\ pc'[x] = pc[x]
      <3>1. /\ version[v] \in Nat /\ version[v] + 1 \in Nat /\ FALSE \in BOOLEAN /\ TRUE \in BOOLEAN
        BY <1>t DEF TypeOK
      <3>2. Start(e, v, FALSE, version[v] + 1) \/ Start(e, v, TRUE, version[v])
        BY <1>1, Zenon DEF Change, BeginErase
      <3>3. pc[e] = "idle" /\ emission[e] = None
        BY <1>1, <1>t DEF Change, BeginErase, MayStart, PcMatches
      <3>4. QED
        BY <1>t, <3>1, <3>2, <3>3, StartTyped
    <2>2. UNCHANGED <<events, drawn, unread, client>>
      BY <1>1 DEF Change, BeginErase, history
    <2>3. Coming(u) => Coming(u)'
      BY <2>1, OthersCome DEF Of
    <2>4. \A m \in Nat : Past(m) => Past(m)'
      BY <2>1, <2>2 DEF Past
    <2>5. QED
      BY <2>2, <2>3, <2>4, StillOwed DEF client, Behind
  <1>2. CASE DrawSeq(e)
    <2>1. /\ pc[e] = "insert" /\ emission[e] \in Emission /\ emission[e] # None /\ drawn' = drawn + 1
          /\ UNCHANGED <<events, unread, client>>
      BY <1>2, <1>t DEF DrawSeq, PcMatches, history
    <2>2. /\ pc'[e] = "commit" /\ emission'[e] # None
          /\ emission'[e].user = emission[e].user /\ emission'[e].seq = drawn + 1
      <3>1. [emission[e] EXCEPT !.seq = drawn + 1] \in Emission
        BY <1>t, <2>1 DEF Emission
      <3>2. emission'[e] = [emission[e] EXCEPT !.seq = drawn + 1] /\ pc'[e] = "commit"
        BY <1>2, <1>t DEF DrawSeq, TypeOK
      <3>3. QED
        BY <2>1, <3>1, <3>2, FeedAssumption DEF Emission
    <2>3. \A x \in Emitters : x # e => emission'[x] = emission[x] /\ pc'[x] = pc[x]
      BY <1>2, <1>t DEF DrawSeq, TypeOK
    <2>4. Coming(u) => Coming(u)'
      BY <2>1, <2>2, <2>3 DEF Coming, Of
    <2>5. \A m \in Nat : Past(m) => Past(m)'
      BY <1>t, <2>1, <2>2, <2>3 DEF Past
    <2>6. QED
      BY <2>1, <2>4, <2>5, StillOwed DEF client, Behind
  <1>3. CASE CommitEvent(e)
    <2>1. /\ pc[e] = "commit" /\ emission[e] \in Emission /\ emission' = emission
          /\ pc' = [pc EXCEPT ![e] = "groups"] /\ UNCHANGED <<drawn, unread, client>>
          /\ events' = events \cup {[seq |-> emission[e].seq, user |-> emission[e].user]}
      BY <1>3, <1>t DEF CommitEvent, PcMatches
    <2>2. \A x \in Emitters : x # e => emission'[x] = emission[x] /\ pc'[x] = pc[x]
      BY <1>t, <2>1 DEF TypeOK
    <2>3. Coming(u) => Behind(u, cursor)' /\ Behind(u, upTo)'
      <3>1. CASE Of(e, u)
        <4>1. emission[e].seq > cursor /\ emission[e].seq > upTo
          BY <1>3, <1>t, <2>1, <3>1 DEF CommitEvent, Of, Emission
        <4>2. [seq |-> emission[e].seq, user |-> u] \in events'
          BY <2>1, <3>1 DEF Of
        <4>3. QED
          BY <2>1, <4>1, <4>2 DEF Behind, client
      <3>2. CASE ~Of(e, u)
        BY <2>2, <3>2, OthersCome DEF Behind
      <3>3. QED
        BY <3>1, <3>2
    <2>4. \A m \in Nat : Past(m) => Past(m)'
      BY <1>t, <2>1, <2>2 DEF Past, TypeOK
    <2>5. QED
      BY <2>1, <2>3, <2>4, StillOwed DEF client
  <1>4. CASE RefuseEvent(e) \/ ReadGroups(e) \/ EnqueueDelivery(e)
    <2>1. \A x \in Emitters : x # e => emission'[x] = emission[x] /\ pc'[x] = pc[x]
      BY <1>4, <1>t DEF RefuseEvent, ReadGroups, EnqueueDelivery, TypeOK
    <2>2. ~(Of(e, u) /\ pc[e] \in {"insert", "commit"})
      BY <1>4 DEF RefuseEvent, ReadGroups, EnqueueDelivery, Of
    <2>3. pc'[e] # "commit" /\ UNCHANGED <<events, drawn, unread, client>>
      BY <1>4, <1>t DEF RefuseEvent, ReadGroups, EnqueueDelivery, history, TypeOK
    <2>4. \A m \in Nat : Past(m) => Past(m)'
      BY <2>1, <2>3 DEF Past
    <2>5. QED
      BY <2>1, <2>2, <2>3, <2>4, OthersCome, StillOwed DEF client, Behind
  <1>5. CASE EraseUser(e)
    <2>1. /\ emission[e].user # u /\ events' = {x \in events : x.user # emission[e].user}
          /\ UNCHANGED <<drawn, client>> /\ (u \in unread => u \in unread')
      BY <1>5 DEF EraseUser
    <2>2. pc'[e] # "commit" /\ \A x \in Emitters : x # e => emission'[x] = emission[x] /\ pc'[x] = pc[x]
      BY <1>5, <1>t DEF EraseUser, TypeOK
    <2>3. \A m \in Nat : Past(m) => Past(m)'
      BY <2>1, <2>2 DEF Past
    <2>4. QED
      BY <2>1, <2>2, <2>3, OthersCome, StillOwed DEF client, Behind, Of
  <1>6. CASE LoseEmission(e)
    <2>1. UNCHANGED <<events, drawn, unread, client>> /\ ~(Of(e, u) /\ pc[e] \in {"insert", "commit"})
      BY <1>6 DEF LoseEmission, Of
    <2>2. pc'[e] # "commit" /\ \A x \in Emitters : x # e => emission'[x] = emission[x] /\ pc'[x] = pc[x]
      BY <1>6, <1>t DEF LoseEmission, TypeOK
    <2>3. \A m \in Nat : Past(m) => Past(m)'
      BY <2>1, <2>2 DEF Past
    <2>4. QED
      BY <2>1, <2>2, <2>3, OthersCome, StillOwed DEF client, Behind
  <1>7. QED
    BY <1>1, <1>2, <1>3, <1>4, <1>5, <1>6 DEF Emit

LEMMA FollowStep == FeedInv /\ FollowInv /\ [Next]_vars => FollowInv'
  <1> SUFFICES ASSUME FeedInv, FollowInv, [Next]_vars,
                      NEW u \in Users, u \notin Hidden, u \notin gone', u \notin passed',
                      view'[u] # version'[u]
               PROVE  Owed(u)'
    BY FollowBounds DEF FollowInv, Followed
  <1>t. /\ TypeOK /\ drawn \in Nat /\ cursor \in Nat /\ upTo \in Nat
        /\ IsFiniteSet(events) /\ \A x \in events : x.seq \in Nat /\ x.user \in Users
        /\ poll = "resolve" => cursor <= upTo
    BY DEF FeedInv, FollowInv, TypeOK, Event
  \* Who is resolved by this step is up to date, and who changes in it has an
  \* emission before it.
  <1>0. CASE u \in passed \/ u \in gone
    <2>1. ASSUME NEW v \in Users, Resolve(v) PROVE u = v /\ view'[u] = version'[u]
      BY <1>0, <1>t, <2>1 DEF Resolve, server, TypeOK
    <2>2. (\A v \in Users : ~Resolve(v)) => passed \subseteq passed' \cup gone' /\ gone \subseteq gone'
      BY DEF Next, Emit, Work, Change, BeginErase, DrawSeq, CommitEvent, RefuseEvent, EraseUser,
             Rescope, ReadGroups, EnqueueDelivery, LoseEmission, Purge, PollBounds, PollPage, Advance,
             LosePoll, vars, server, history
    <2>3. gone \subseteq gone'
      BY <2>2 DEF Resolve, server
    <2>4. QED
      BY <1>0, <2>1, <2>2, <2>3
  <1>1. ASSUME NEW e \in Emitters, NEW v \in Users, Change(e, v), v = u PROVE Owed(u)'
    <2>0. version[u] + 1 \in Nat /\ FALSE \in BOOLEAN
      BY <1>t DEF TypeOK
    <2>1. Start(e, u, FALSE, version[u] + 1)
      BY <1>1, Zenon DEF Change
    <2>2. Coming(u)'
      BY <1>t, <2>0, <2>1, StartTyped DEF Coming, Of
    <2>3. QED
      BY <2>2 DEF Owed, Behind
  <1>2. ASSUME u \notin passed, u \notin gone, view[u] # version[u] PROVE Owed(u)'
    <2>0. Owed(u)
      BY <1>2 DEF FollowInv, Followed
    <2>1. ASSUME NEW e \in Emitters,
                 \/ \E v \in Users : Change(e, v) \/ BeginErase(e, v)
                 \/ Emit(e) \/ LoseEmission(e)
          PROVE  Owed(u)'
      BY <2>0, <2>1, EmitterOwes
    <2>2. ASSUME NEW n \in 1 .. drawn, Purge(n) PROVE Owed(u)'
      <3>1. /\ events' = {x \in events : x.seq > n} /\ UNCHANGED <<drawn, pc, emission, client>>
            /\ unread' = unread \cup {x.user : x \in {y \in events \ events' : y.seq > cursor}}
            /\ poll = "page" => u \notin {x.user : x \in {y \in events \ events' : y.seq > cursor}}
            /\ \A e \in Emitters : pc[e] = "commit" => emission[e].seq > n
        BY <2>2 DEF Purge
      <3>2. n \in Nat /\ Past(n)'
        BY <1>t, <3>1 DEF Past, TypeOK
      <3>3. \A m \in Nat : Past(m) => Past(m)'
        BY <3>1 DEF Past
      <3>4. ASSUME NEW t \in Nat, cursor <= t, Behind(u, t)
            PROVE  (Coming(u) \/ \E x \in events : x.user = u /\ x.seq > t)' \/
                     (poll # "page" /\ u \in unread' /\ n > t)
        <4>1. CASE Coming(u)
          BY <3>1, <4>1 DEF Coming, Of
        <4>2. ASSUME NEW x \in events, x.user = u, x.seq > t
              PROVE  x \in events' \/ (poll # "page" /\ u \in unread' /\ n > t)
          <5> SUFFICES ASSUME x \notin events' PROVE poll # "page" /\ u \in unread' /\ n > t
            OBVIOUS
          <5>1. x.seq <= n /\ x.seq > cursor /\ n > t
            BY <1>t, <3>1, <3>2, <3>4, <4>2
          <5>2. u \in {y.user : y \in {z \in events \ events' : z.seq > cursor}}
            BY <4>2, <5>1
          <5>3. QED
            BY <3>1, <5>1, <5>2
        <4>3. QED
          BY <3>4, <4>1, <4>2 DEF Behind
      <3>5. /\ Behind(u, cursor) => Behind(u, cursor)' \/ (poll # "page" /\ Lost(u, cursor)')
            /\ poll = "resolve" /\ Behind(u, upTo) => Behind(u, upTo)' \/ Lost(u, upTo)'
        BY <1>t, <3>1, <3>2, <3>4 DEF Behind, Lost, client
      <3>6. /\ Lost(u, cursor) => Lost(u, cursor)'
            /\ Lost(u, upTo) => Lost(u, upTo)'
        BY <3>1, <3>3 DEF Lost, client
      <3>7. UNCHANGED <<poll, todo>>
        BY <3>1 DEF client
      <3>8. QED
        BY <2>0, <3>5, <3>6, <3>7 DEF Owed
    <2>3. CASE PollBounds
      <3>1. UNCHANGED <<events, drawn, pc, emission, unread>>
        BY <2>3 DEF PollBounds, server, history
      <3>2. poll = "idle" /\ (Behind(u, cursor) \/ Lost(u, cursor))
        BY <2>0, <2>3 DEF PollBounds, Owed
      <3>3. ASSUME NEW t \in Nat, t <= cursor, cursor' = t
            PROVE  (Behind(u, cursor) => Behind(u, cursor)') /\ (Lost(u, cursor) => Lost(u, cursor)')
        <4>1. (\E x \in events : x.user = u /\ x.seq > cursor)
                => \E x \in events : x.user = u /\ x.seq > t
          BY <1>t, <3>3
        <4>2. \A m \in Nat : cursor < m /\ Past(m) => t < m /\ Past(m)
          BY <1>t, <3>3
        <4>3. QED
          BY <3>1, <3>3, <4>1, <4>2 DEF Behind, Coming, Of, Lost, Past
      <3>4. CASE events = {} /\ cursor' = 0 /\ poll' = poll
        BY <1>t, <3>2, <3>3, <3>4 DEF Owed
      <3>5. CASE events # {} /\ Gone(cursor) /\ poll' = "resolve" /\ todo' = Users \ Hidden /\ cursor' = cursor
        BY <1>t, <3>2, <3>3, <3>5 DEF Owed
      <3>6. CASE events # {} /\ ~Gone(cursor) /\ poll' = "page" /\ cursor' = cursor
        <4>1. ~Lost(u, cursor)
          BY <1>t, <3>6 DEF Gone, Lost, Past
        <4>2. QED
          BY <1>t, <3>2, <3>3, <3>6, <4>1 DEF Owed
      <3>7. QED
        BY <2>3, <3>4, <3>5, <3>6 DEF PollBounds
    <2>4. CASE PollPage
      <3>1. /\ poll = "page" /\ UNCHANGED <<events, drawn, pc, emission, unread, cursor>>
            /\ todo' = {x.user : x \in Page(cursor)} /\ upTo' \in CursorOf(Page(cursor))
        BY <2>4 DEF PollPage, server, history
      <3>2. Behind(u, cursor) /\ Behind(u, cursor)'
        BY <2>0, <3>1 DEF Owed, Behind, Coming, Of
      <3>3. u \in todo' \/ Behind(u, upTo)'
        <4>1. CASE Coming(u)
          BY <3>1, <4>1 DEF Behind, Coming, Of
        <4>2. ASSUME NEW x \in events, x.user = u, x.seq > cursor PROVE u \in todo' \/ Behind(u, upTo)'
          <5>1. CASE Page(cursor) = {}
            BY <1>t, <4>2, <5>1, EmptyPage
          <5>2. CASE Page(cursor) # {}
            <6>1. upTo' \in MaxSeq(Page(cursor)) /\ upTo' \in Nat
              <7>1. Page(cursor) \subseteq events
                BY DEF Page, First, Visible, After
              <7>2. QED
                BY <1>t, <3>1, <5>2, <7>1 DEF CursorOf, MaxSeq
            <6>2. CASE x.seq <= upTo'
              BY <1>t, <3>1, <4>2, <6>1, <6>2, PageIsInitial
            <6>3. CASE ~(x.seq <= upTo')
              BY <1>t, <3>1, <4>2, <6>1, <6>3 DEF Behind
            <6>4. QED
              BY <6>2, <6>3
          <5>3. QED
            BY <5>1, <5>2
        <4>3. QED
          BY <3>2, <4>1, <4>2 DEF Behind
      <3>4. QED
        BY <3>2, <3>3 DEF Owed
    <2>5. ASSUME NEW v \in Users, Resolve(v) PROVE Owed(u)'
      <3>1. /\ UNCHANGED <<events, drawn, pc, emission, version, poll, cursor, upTo>>
            /\ todo' = todo \ {v} /\ unread' = unread \ {v} /\ view' = [view EXCEPT ![v] = version[v]]
        BY <2>5 DEF Resolve, server
      <3>2. u # v
        BY <1>t, <3>1 DEF TypeOK
      <3>3. QED
        BY <2>0, <3>1, <3>2 DEF Owed, Behind, Coming, Of, Lost, Past
    <2>6. CASE Advance
      <3>1. /\ UNCHANGED <<events, drawn, pc, emission, unread>>
            /\ poll = "resolve" /\ todo = {} /\ cursor' = upTo /\ poll' = "idle"
        BY <2>6 DEF Advance, server, history
      <3>2. QED
        BY <2>0, <3>1 DEF Owed, Behind, Coming, Of, Lost, Past
    <2>7. CASE LosePoll
      <3>1. UNCHANGED <<events, drawn, pc, emission, unread, cursor>> /\ poll' = "idle"
        BY <2>7 DEF LosePoll, server
      <3>2. QED
        BY <2>0, <3>1 DEF Owed, Behind, Coming, Of, Lost, Past
    <2>r. ASSUME NEW v \in Users, Rescope(v) PROVE Owed(u)'
      <3>1. UNCHANGED <<events, drawn, pc, emission, unread, client>>
        BY <2>r DEF Rescope
      <3>2. QED
        BY <2>0, <3>1 DEF client, Owed, Behind, Coming, Of, Lost, Past
    <2>8. CASE UNCHANGED vars
      BY <2>0, <2>8 DEF vars, server, client, history, Owed, Behind, Coming, Of, Lost, Past
    <2>9. QED
      BY <2>1, <2>2, <2>3, <2>4, <2>5, <2>6, <2>7, <2>r, <2>8 DEF Next, Work
  <1>3. ASSUME view[u] = version[u] PROVE Owed(u)'
    <2>1. ASSUME NEW e \in Emitters, NEW v \in Users, Change(e, v) PROVE v = u
      BY <1>3, <1>t, <2>1 DEF Change, client, TypeOK
    <2>r. ASSUME NEW v \in Users, Rescope(v) PROVE version'[u] = version[u]
      BY <1>t, <2>r DEF Rescope, TypeOK
    <2>2. ASSUME ~\E e \in Emitters, v \in Users : Change(e, v), ~\E v \in Users : Rescope(v)
          PROVE  version' = version
      BY <2>2
      DEF Next, Emit, Work, BeginErase, DrawSeq, CommitEvent, RefuseEvent, EraseUser, ReadGroups,
          EnqueueDelivery, LoseEmission, Purge, PollBounds, PollPage, Resolve, Advance, LosePoll,
          vars, server
    <2>3. ASSUME NEW v \in Users, Resolve(v) PROVE view'[u] = version'[u]
      BY <1>3, <1>t, <2>3 DEF Resolve, server, TypeOK
    <2>4. ASSUME ~\E v \in Users : Resolve(v) PROVE view' = view
      BY <2>4
      DEF Next, Emit, Work, Change, BeginErase, DrawSeq, CommitEvent, RefuseEvent, EraseUser,
          Rescope, ReadGroups, EnqueueDelivery, LoseEmission, Purge, PollBounds, PollPage, Advance,
          LosePoll, vars, client
    <2>5. QED
      BY <1>1, <1>3, <2>1, <2>r, <2>2, <2>3, <2>4
  <1>4. QED
    BY <1>0, <1>2, <1>3

\* A client that is told there is nothing new has every user as he is, unless
\* an emission about him is under way, failed or committed too late, or his
\* event was purged while the table was left empty (listEvents, the purge).
THEOREM CaughtUpIsCurrent == Spec => []StaleHasCause
  <1>1. FeedInv /\ FollowInv => StaleHasCause
    <2> SUFFICES ASSUME FeedInv, FollowInv, CaughtUp,
                        NEW u \in Users \ (Hidden \cup gone \cup Untold), view[u] # version[u]
                 PROVE  Emitting(u)
      BY DEF StaleHasCause
    <2>t. TypeOK /\ cursor \in Nat /\ \A x \in events : x.seq \in Nat
      BY DEF FeedInv, TypeOK, Event
    <2>1. poll = "idle" /\ Page(cursor) = {} /\ (Behind(u, cursor) \/ Lost(u, cursor))
      BY DEF CaughtUp, Untold, FollowInv, Followed, Owed
    <2>2. ~\E x \in events : x.user = u /\ x.seq > cursor
      BY <2>1, <2>t, EmptyPage DEF FollowInv
    <2>3. ~Lost(u, cursor)
      BY <2>t DEF CaughtUp, Untold, Gone, Lost, Past
    <2>4. QED
      BY <2>1, <2>2, <2>3 DEF Behind, Coming, Of, Emitting
  <1>2. Spec => []FollowInv
    BY FollowInvInit, FollowStep, FeedInvariant, PTL DEF Spec
  <1>3. QED
    BY <1>1, <1>2, FeedInvariant, PTL
=============================================================================
