----------------------------- MODULE DirectoryPages -----------------------------
(***************************************************************************)
(* The full read of an application: GET /v1/users page by page               *)
(* (modules/directory-api), after a 410 of the feed or to begin with, and    *)
(* the sliding window of requests that every call of the API goes through.   *)
(*                                                                         *)
(* A page is LIMIT rows from OFFSET on, ordered by employee code, of those   *)
(* who are in the scope when it is read; nothing ties one page to the next.  *)
(* EventFeed takes the full read as one step; here it is taken apart.        *)
(*                                                                         *)
(* The application is external: it asks for one page after the other until   *)
(* one is short, and looks up users and groups meanwhile.                   *)
(*                                                                         *)
(* Left out: the token (SigningKeys), what a row says, include_deleted, the   *)
(* change of an employee code, which moves a user in the order.             *)
(***************************************************************************)
EXTENDS Naturals, FiniteSets

CONSTANTS
  Codes,      \* users, as employee codes
  Calls,      \* requests of the application that may be in flight at once
  None,
  Limit,      \* what it asks for, at most MAX_LIMIT
  Rate,       \* RATE
  MaxMoves    \* bound: users who leave or join the scope

VARIABLES
  scope,      \* users in a group of the application, not deleted
  hits,       \* rows of directory_hits within the window
  inCall,     \* call -> None or [page, step]
  reading,    \* a full read has begun
  offset, got, \* what the application will skip, whom it was told of
  moves,
  left,       \* history: users who left the scope since the read began
  joined,     \* history: users who joined since
  missed,     \* history: finished reads that left out somebody of the scope: whom
  twice       \* history: users of whom this read told twice

vars == <<scope, hits, inCall, reading, offset, got, moves, left, joined, missed, twice>>
reader == <<reading, offset, got, left, joined, missed, twice>>

Call == [page: BOOLEAN, step: {"count", "insert", "query"}]

TypeOK ==
  /\ scope \subseteq Codes /\ got \subseteq Codes
  /\ hits \in Nat /\ offset \in Nat /\ moves \in 0 .. MaxMoves
  /\ inCall \in [Calls -> {None} \cup Call]
  /\ reading \in BOOLEAN
  /\ left \subseteq Codes /\ joined \subseteq Codes
  /\ missed \subseteq Codes /\ twice \subseteq Codes

Init ==
  /\ scope \in SUBSET Codes /\ hits = 0 /\ inCall = [c \in Calls |-> None]
  /\ reading = FALSE /\ offset = 0 /\ got = {} /\ moves = 0
  /\ left = {} /\ joined = {} /\ missed = {} /\ twice = {}
-----------------------------------------------------------------------------
(* Others. *)

\* A group is taken from or given to a user, or from or to the application; a user
\* is deleted or comes back.
Leave(u) ==
  /\ u \in scope /\ moves < MaxMoves /\ moves' = moves + 1
  /\ scope' = scope \ {u}
  /\ left' = IF reading THEN left \cup {u} ELSE left
  /\ UNCHANGED <<hits, inCall, reading, offset, got, joined, missed, twice>>
Join(u) ==
  /\ u \notin scope /\ moves < MaxMoves /\ moves' = moves + 1
  /\ scope' = scope \cup {u}
  /\ joined' = IF reading THEN joined \cup {u} ELSE joined
  /\ UNCHANGED <<hits, inCall, reading, offset, got, left, missed, twice>>

\* The oldest request is a minute old.
Slide ==
  /\ hits > 0 /\ hits' = hits - 1
  /\ UNCHANGED <<scope, inCall, moves, reader>>
-----------------------------------------------------------------------------
(* The calls. *)

Paging == \E c \in Calls : inCall[c] # None /\ inCall[c].page
Begin(c, page) ==
  /\ inCall[c] = None
  /\ inCall' = [inCall EXCEPT ![c] = [page |-> page, step |-> "count"]]
  /\ UNCHANGED <<scope, hits, moves>>

\* A full read, its next page, another request.
StartRead(c) ==
  /\ ~reading /\ Begin(c, TRUE)
  /\ reading' = TRUE /\ offset' = 0 /\ got' = {}
  /\ left' = {} /\ joined' = {} /\ missed' = {} /\ twice' = {}
NextPage(c) == reading /\ ~Paging /\ Begin(c, TRUE) /\ UNCHANGED reader
Other(c)    == Begin(c, FALSE) /\ UNCHANGED reader

At(c, step) == inCall[c] # None /\ inCall[c].step = step
Goto(c, step) == inCall' = [inCall EXCEPT ![c].step = step]
Done(c) == inCall' = [inCall EXCEPT ![c] = None]

\* rateLimit: count, then insert.  429 leaves the application where it is.
OneMore(n) == n > Rate          \* (mutation)
TooMany(n) == n >= Rate
Count(c) ==
  /\ At(c, "count")
  /\ IF TooMany(hits) THEN Done(c) ELSE Goto(c, "insert")
  /\ UNCHANGED <<scope, hits, moves, reader>>
Insert(c) ==
  /\ At(c, "insert") /\ Goto(c, "query")
  /\ hits' = hits + 1
  /\ UNCHANGED <<scope, moves, reader>>

\* getUser, listGroups, listEvents; or the answer of any call is lost.
Return(c) ==
  /\ At(c, "query") /\ Done(c)
  /\ UNCHANGED <<scope, hits, moves, reader>>

\* listUsers: ORDER BY employee_code LIMIT OFFSET.
Before(u)  == {v \in scope : v < u}
FromNext == {u \in scope : Cardinality(Before(u)) \in offset + 1 .. offset + Limit}  \* (mutation)
PageNow  == {u \in scope : Cardinality(Before(u)) \in offset .. offset + Limit - 1}
Page(c) ==
  /\ At(c, "query") /\ inCall[c].page /\ Done(c)
  /\ got' = got \cup PageNow
  /\ twice' = twice \cup (got \cap PageNow)
  /\ offset' = offset + Cardinality(PageNow)
  /\ reading' = (Cardinality(PageNow) = Limit)
  /\ missed' = IF reading' THEN {} ELSE (scope \ joined) \ got'
  /\ UNCHANGED <<scope, hits, moves, left, joined>>

Next ==
  \/ \E u \in Codes : Leave(u) \/ Join(u)
  \/ Slide
  \/ \E c \in Calls : \/ StartRead(c) \/ NextPage(c) \/ Other(c)
                      \/ Count(c) \/ Insert(c) \/ Return(c) \/ Page(c)
-----------------------------------------------------------------------------
\* FR-26: a full read tells of everybody who was in the scope all along, and of
\* nobody twice; unless somebody with a smaller code left the scope meanwhile,
\* which moves one user past the reader, or joined it, which shows one again.
ReadHasCause ==
  /\ \A u \in missed : \E v \in left : v < u
  /\ \A u \in twice : \E v \in joined : v <= u

\* "RATE request/60s", "multi-instance-safe" (directory.service.ts:45): in no window
\* are there more, but for calls that were counted before the others were inserted.
WindowBounded == hits < Rate + Cardinality(Calls)

PagesSound == ReadHasCause /\ WindowBounded
=============================================================================
