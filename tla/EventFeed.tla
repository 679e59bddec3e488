------------------------------ MODULE EventFeed ------------------------------
(***************************************************************************)
(* How an application that keeps a copy of its users learns of a change:    *)
(* common/user-events.service.ts (table user_events and the deliveries of   *)
(* webhooks), DirectoryService.listEvents (GET /v1/events) and the purge of *)
(* old events in modules/jobs/cleanup.service.ts.                           *)
(*                                                                         *)
(* A change is committed first; the emission follows, statement by          *)
(* statement, and its errors are swallowed.  The number of an event is      *)
(* drawn from a sequence when its INSERT starts, the row is visible when it *)
(* commits: two emissions may commit in the opposite order.  What a change  *)
(* does to a user (lock, groups, password) is a version number; apart says  *)
(* whether he still shares a group with the client.  A deletion for good    *)
(* (UsersService.hardDelete) works the other way round: it emits first, and *)
(* the DELETE takes the events of the user with it.  A change of the groups *)
(* of the client itself, or of the name of a group, emits nothing.          *)
(*                                                                         *)
(* The client is external: it polls, resolves every user it is told of by   *)
(* GET /v1/users/:id (404: he is in none of its groups, and it drops him),  *)
(* moves its cursor once a page is worked off, and on 410 reads all users   *)
(* again (docs/integration/README.md:297-303).                              *)
(***************************************************************************)
EXTENDS Naturals, FiniteSets

CONSTANTS
  Users,
  Hidden,      \* break-glass accounts, left out of every page
  Movers,      \* bound: users whose last group shared with the client comes and goes
  Emitters,    \* requests that change a user, in flight at once
  Limit,       \* rows of a page
  None,
  MaxEvents,   \* bound: numbers drawn
  MaxFaults    \* bound: emissions and polls that fail, changes that emit nothing

ASSUME FeedAssumption ==
  /\ Hidden \subseteq Users /\ Movers \subseteq Users \ Hidden
  /\ Limit \in Nat \ {0} /\ MaxEvents \in Nat /\ MaxFaults \in Nat
  /\ None \notin [user: Users, erase: BOOLEAN, seq: Nat, groups: Nat]

VARIABLES
  version,   \* the users, as the directory shows them
  gone,      \* users deleted for good
  apart,     \* users who share no group with the client (user_groups, client_groups)
  drawn,     \* last value of the sequence user_events.seq
  events,    \* rows of user_events
  pc, emission,             \* the emitters
  newest,    \* of the rows put into webhook_deliveries for a user, the one with
             \* the highest event_id
  poll, cursor, upTo, todo, view,   \* the client
  passed,    \* history: users with an event that failed, that no page shows, or
             \* that there never was
  unread,    \* history: users with an event purged before it was polled
  unsent,    \* history: users with a delivery that was never queued
  faults

server  == <<version, gone, apart, drawn, events, pc, emission, newest, unsent>>
client  == <<poll, cursor, upTo, todo, view>>
history == <<passed, unread, faults>>
vars    == <<server, client, history>>

Event    == [seq: Nat, user: Users]
Emission == [user: Users, erase: BOOLEAN, seq: Nat, groups: Nat]
Delivery == [seq: Nat, groups: Nat]

TypeOK ==
  /\ version \in [Users -> Nat] /\ view \in [Users -> Nat]
  /\ drawn \in Nat /\ cursor \in Nat /\ upTo \in Nat /\ faults \in Nat
  /\ events \subseteq Event /\ newest \in [Users -> Delivery]
  /\ pc \in [Emitters -> {"idle", "insert", "commit", "groups", "enqueue", "erase"}]
  /\ emission \in [Emitters -> Emission \cup {None}]
  /\ poll \in {"idle", "page", "resolve"}
  /\ todo \subseteq Users /\ passed \subseteq Users
  /\ unread \subseteq Users /\ unsent \subseteq Users
  /\ gone \subseteq Users /\ apart \subseteq Users

Init ==
  /\ version = [u \in Users |-> 0] /\ view = [u \in Users |-> 0]
  /\ drawn = 0 /\ cursor = 0 /\ upTo = 0 /\ faults = 0
  /\ events = {} /\ gone = {} /\ apart = Hidden
  /\ newest = [u \in Users |-> [seq |-> 0, groups |-> 0]]
  /\ pc = [e \in Emitters |-> "idle"]
  /\ emission = [e \in Emitters |-> None]
  /\ poll = "idle" /\ todo = {} /\ passed = {} /\ unread = {} /\ unsent = {}
-----------------------------------------------------------------------------
(* Emissions. *)

Goto(e, step) == pc' = [pc EXCEPT ![e] = step]
Finish(e) == Goto(e, "idle") /\ emission' = [emission EXCEPT ![e] = None]

MayStart(e, u) ==
  /\ pc[e] = "idle" /\ u \notin gone
  /\ drawn + Cardinality({x \in Emitters : pc[x] = "insert"}) < MaxEvents
Start(e, u, erase, groups) ==
  /\ emission' = [emission EXCEPT ![e] =
                    [user |-> u, erase |-> erase, seq |-> 0, groups |-> groups]]
  /\ Goto(e, "insert")

\* A change may take the last group shared with the client from u, or give one; a
\* break-glass account is added to no group.
MayMove(u) == \/ UNCHANGED apart
              \/ u \in Movers /\ apart' \in {apart \cup {u}, apart \ {u}}

\* Some service commits a change of user u, of his groups perhaps, and calls emit().
Change(e, u) ==
  /\ MayStart(e, u)
  /\ version' = [version EXCEPT ![u] = @ + 1]
  /\ MayMove(u)
  /\ Start(e, u, FALSE, version[u] + 1)
  /\ UNCHANGED <<gone, drawn, events, newest, unsent, client, history>>

\* The client is given a group of u's, or loses one (ClientsService.addGroup and
\* removeGroup), or a group of his is renamed (GroupsService.update): what it may
\* see of him changes, and nothing is emitted.
Rescope(u) ==
  /\ u \notin Hidden \cup gone /\ faults < MaxFaults
  /\ version' = [version EXCEPT ![u] = @ + 1]
  /\ MayMove(u)
  /\ faults' = faults + 1
  /\ passed' = passed \cup {u} /\ unsent' = unsent \cup {u}
  /\ UNCHANGED <<gone, drawn, events, pc, emission, newest, client, unread>>

\* hardDelete calls emit() before it deletes.
BeginErase(e, u) ==
  /\ MayStart(e, u) /\ u \notin Hidden
  /\ Start(e, u, TRUE, version[u])
  /\ UNCHANGED <<version, gone, apart, drawn, events, newest, unsent, client, history>>

DrawSeq(e) ==
  /\ pc[e] = "insert"
  /\ drawn' = drawn + 1
  /\ emission' = [emission EXCEPT ![e].seq = drawn + 1]
  /\ Goto(e, "commit")
  /\ UNCHANGED <<version, gone, apart, events, newest, unsent, client, history>>

\* The row becomes visible, too late if a page went past its number already.
CommitEvent(e) ==
  /\ pc[e] = "commit" /\ emission[e].user \notin gone
  /\ LET n == emission[e] IN
       /\ events' = events \cup {[seq |-> n.seq, user |-> n.user]}
       /\ passed' = IF n.seq <= cursor \/ n.seq <= upTo
                    THEN passed \cup {n.user} ELSE passed
  /\ Goto(e, "groups")
  /\ UNCHANGED <<version, gone, apart, drawn, emission, newest, unsent, client, unread, faults>>

\* What follows emit(): nothing, or the DELETE of hardDelete.
EndEmit(e) ==
  IF emission[e].erase THEN Goto(e, "erase") /\ UNCHANGED emission ELSE Finish(e)

\* The foreign key refuses an event of a user who is gone.
RefuseEvent(e) ==
  /\ pc[e] = "commit" /\ emission[e].user \in gone
  /\ EndEmit(e)
  /\ UNCHANGED <<version, gone, apart, drawn, events, newest, unsent, client, history>>

GroupsAtChange(e) == emission[e].groups   \* (mutation)
\* The payload lists the groups the user is in by now, not the change.
Groups(e) == version[emission[e].user]

ReadGroups(e) ==
  /\ pc[e] = "groups"
  /\ emission' = [emission EXCEPT ![e].groups = Groups(e)]
  /\ Goto(e, "enqueue")
  /\ UNCHANGED <<version, gone, apart, drawn, events, newest, unsent, client, history>>

\* One row for each client that shares a group with the user by now: the JOIN is
\* evaluated after the change, which may have ended the membership it looks for.
EnqueueDelivery(e) ==
  /\ pc[e] = "enqueue"
  /\ LET n == emission[e] IN
       newest' = IF n.seq > newest[n.user].seq /\ n.user \notin apart
                 THEN [newest EXCEPT ![n.user] = [seq |-> n.seq, groups |-> n.groups]]
                 ELSE newest
  /\ EndEmit(e)
  /\ UNCHANGED <<version, gone, apart, drawn, events, unsent, client, history>>

\* DELETE FROM users: waits for an INSERT under way that refers to the row,
\* and takes the events and the memberships of the user with it (ON DELETE
\* CASCADE).  Nothing is asked about him any more.
EraseUser(e) ==
  /\ pc[e] = "erase"
  /\ LET u == emission[e].user IN
       /\ ~\E x \in Emitters : pc[x] = "commit" /\ emission[x].user = u
       /\ gone' = gone \cup {u}
       /\ events' = {x \in events : x.user # u}
       /\ apart' = apart \cup {u}
       /\ passed' = passed \ {u} /\ unread' = unread \ {u} /\ unsent' = unsent \ {u}
  /\ Finish(e)
  /\ UNCHANGED <<version, drawn, newest, client, faults>>

\* A statement fails and emit() swallows it, or the server stops: what was not
\* written by then never is.
LoseEmission(e) ==
  /\ pc[e] # "idle" /\ faults < MaxFaults
  /\ faults' = faults + 1
  /\ unsent' = unsent \cup {emission[e].user}
  /\ passed' = IF pc[e] \in {"insert", "commit"}
               THEN passed \cup {emission[e].user} ELSE passed
  /\ Finish(e) \/ EndEmit(e)
  /\ UNCHANGED <<version, gone, apart, drawn, events, newest, client, unread>>
-----------------------------------------------------------------------------
\* The hourly purge deletes what is older than 90 days, which no INSERT lasts.
\* Events go unread when the client fell behind.  A poll between its two
\* statements has passed the check for that already.
Purge(n) ==
  /\ \E x \in events : x.seq <= n
  /\ \A e \in Emitters : pc[e] = "commit" => emission[e].seq > n
  /\ events' = {x \in events : x.seq > n}
  /\ LET missed == {x.user : x \in {y \in events \ events' : y.seq > cursor}} IN
       /\ unread' = unread \cup missed
       /\ passed' = IF poll = "page" THEN passed \cup missed ELSE passed
  /\ UNCHANGED <<version, gone, apart, drawn, pc, emission, newest, unsent, client, faults>>
-----------------------------------------------------------------------------
(* GET /v1/events?since=cursor: two statements, then the client's own work. *)

GoneIfFarBehind(since) == \A x \in events : since + 2 < x.seq   \* (mutation)
Gone(since) == \A x \in events : since + 1 < x.seq

\* max(seq) of some rows: a set of one number, empty where SQL has NULL.
MaxSeq(S) == {x.seq : x \in {y \in S : \A z \in S : z.seq <= y.seq}}

\* SELECT min(seq), max(seq): nothing at all, 410, or on to the page.
PollBounds ==
  /\ poll = "idle"
  /\ \/ /\ events = {}
        /\ cursor' = 0
        /\ UNCHANGED <<poll, upTo, todo>>
     \/ /\ events # {} /\ Gone(cursor)
        /\ poll' = "resolve" /\ upTo' \in MaxSeq(events) /\ todo' = Users \ Hidden
        /\ UNCHANGED cursor
     \/ /\ events # {} /\ ~Gone(cursor)
        /\ poll' = "page"
        /\ UNCHANGED <<cursor, upTo, todo>>
  /\ UNCHANGED <<server, view, history>>

First(S) == {x \in S : Cardinality({y \in S : y.seq < x.seq}) < Limit}
After(since) == {x \in events : x.seq > since}
Visible(S) == {x \in S : x.user \notin Hidden}

FilteredLate(since) == Visible(First(After(since)))   \* (mutation)
Page(since) == First(Visible(After(since)))

CursorAtNewest(S) == IF events = {} THEN {cursor} ELSE MaxSeq(events)   \* (mutation)
CursorOrNone(S) == IF S = {} THEN {None} ELSE MaxSeq(S)   \* (mutation)
\* The cursor of an answer: its last row, or the one that was asked.
CursorOf(S) == IF S = {} THEN {cursor} ELSE MaxSeq(S)

PollPage ==
  /\ poll = "page"
  /\ todo' = {x.user : x \in Page(cursor)}
  /\ upTo' \in CursorOf(Page(cursor))
  /\ poll' = "resolve"
  /\ UNCHANGED <<server, cursor, view, history>>

Resolve(u) ==
  /\ poll = "resolve" /\ u \in todo
  /\ view' = [view EXCEPT ![u] = version[u]]
  /\ todo' = todo \ {u}
  /\ passed' = passed \ {u} /\ unread' = unread \ {u}
  /\ UNCHANGED <<server, poll, cursor, upTo, faults>>

Advance ==
  /\ poll = "resolve" /\ todo = {}
  /\ cursor' = upTo /\ poll' = "idle" /\ upTo' = 0
  /\ UNCHANGED <<server, todo, view, history>>

\* The answer is lost or the client stops: it polls again from its cursor.
LosePoll ==
  /\ poll # "idle" /\ faults < MaxFaults
  /\ faults' = faults + 1
  /\ poll' = "idle" /\ todo' = {} /\ upTo' = 0
  /\ UNCHANGED <<server, cursor, view, passed, unread>>

Emit(e) == \/ DrawSeq(e) \/ CommitEvent(e) \/ RefuseEvent(e)
           \/ ReadGroups(e) \/ EnqueueDelivery(e) \/ EraseUser(e)
Work == PollPage \/ (\E u \in Users : Resolve(u)) \/ Advance

Next ==
  \/ \E e \in Emitters : \/ \E u \in Users : Change(e, u) \/ BeginErase(e, u)
                      \/ Emit(e) \/ LoseEmission(e)
  \/ \E u \in Users : Rescope(u)
  \/ \E n \in 1..drawn : Purge(n)
  \/ PollBounds \/ Work \/ LosePoll

Spec == Init /\ [][Next]_vars

\* Statements end, and the client goes on polling.
FairSpec == /\ Spec
            /\ \A e \in Emitters : WF_vars(Emit(e))
            /\ WF_vars(PollBounds) /\ WF_vars(Work)
-----------------------------------------------------------------------------
Emitting(u) == \E e \in Emitters : emission[e] # None /\ emission[e].user = u
\* What no answer tells the client: an empty table hides what was purged.
Untold ==
  passed \cup (IF events = {} THEN unread ELSE {})
\* A poll would answer 200 with no rows.
CaughtUp == /\ poll = "idle"
            /\ events = {} \/ ~Gone(cursor)
            /\ Page(cursor) = {}

\* A client that is told there is nothing new has the current state of every
\* user, unless an emission for that user failed, committed late, was purged
\* where no 410 tells of it, his group was renamed or the client's groups changed, or he was deleted
\* for good.  (emit, listEvents, cleanup.)
StaleHasCause ==
  CaughtUp => \A u \in Users \ (Hidden \cup gone \cup Untold) :
                 view[u] = version[u] \/ Emitting(u)

\* A receiver of webhooks that keeps, for each user, the delivery with the
\* highest event_id ends up with the current groups, in whatever order the
\* deliveries arrive, of everybody with whom it shares a group, also of one who left
\* them all and came back.  Of one who left them it is told nothing more.  (doEmit
\* inserts the event before it reads the groups, and joins user_groups last.)
HighestIdIsCurrent ==
  \A u \in Users \ (unsent \cup apart) :
     Emitting(u) \/ newest[u].groups = version[u]

\* Once the changes stop, a client that goes on polling catches up with every
\* user, however its polls, the pages and the purges fall.
Converges ==
  \A u \in Users \ Hidden : <>[](view[u] = version[u] \/ u \in gone \cup Untold)

\* directory.service.ts:134-139: events that are gone are answered by 410,
\* never by an empty 200.
NeverEmptyAfterPurge ==
  [][(PollBounds /\ events = {}) => unread \subseteq Hidden]_vars
=============================================================================
