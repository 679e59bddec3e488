-------------------------------- MODULE Screens --------------------------------
(***************************************************************************)
(* What an administrator sees while requests are in flight: the lists of     *)
(* portal-fe/src/pages that follow a choice (a group, a department, a user,  *)
(* a project, an application, a pasted CSV, a filter) and are acted on.      *)
(*                                                                         *)
(* Nothing ties an answer to the choice it was asked for: api() sets the     *)
(* state of the component that is mounted, whatever it now shows, and what   *)
(* follows an action (a reload, a change of the list) is a closure of the    *)
(* choice the action was begun under.  A screen differs in what it does to   *)
(* the old list; that is its record.                                        *)
(*                                                                         *)
(* Left out: what is in a list, and the requests that only fill a selection. *)
(***************************************************************************)
EXTENDS Naturals

CONSTANTS
  Choices, None,
  MaxInFlight   \* bound: requests of a kind in flight for one choice

VARIABLES
  screen,   \* the screen looked at, one of Screens
  open,     \* the choice under whose title the list is shown, or None
  rows,     \* None (empty) or [of, mixed]: whose list it is; mixed with another's
  loads,    \* choice -> requests for its list in flight
  acts,     \* choice -> actions in flight that were begun under it
  owed,     \* history: the list of the open choice has not arrived yet
  late      \* history: requests for another choice were in flight when it was opened

vars == <<screen, open, rows, loads, acts, owed, late>>

\* resets: the list is emptied before it is loaded; asks: the load is a button of
\* its own; given: the list comes with the choice; direct: one choice follows the
\* other without closing; remounts: closing unmounts the component, and what
\* arrives for it afterwards is dropped; single: one request at a time (busy);
\* after: what the end of an action does.
Plain == [resets |-> FALSE, asks |-> FALSE, given |-> FALSE, direct |-> FALSE,
          remounts |-> FALSE, single |-> FALSE, after |-> {}]
MembersDrawer           == [Plain EXCEPT !.resets = TRUE, !.after = {"reload"}]
DepartmentMembersDrawer == [Plain EXCEPT !.after = {"reload"}]
UserGroupsDrawer        == [Plain EXCEPT !.given = TRUE, !.after = {"patch"}]
ClientGroupsPanel       == [Plain EXCEPT !.remounts = TRUE, !.after = {"reload", "patch"}]
AdminsPanel             == [Plain EXCEPT !.remounts = TRUE, !.after = {"reload"}]
ImportModal             == [Plain EXCEPT !.resets = TRUE, !.asks = TRUE, !.direct = TRUE,
                                         !.single = TRUE, !.after = {"show"}]
UserList                == [Plain EXCEPT !.direct = TRUE, !.after = {"reload"}]
UserPicker              == [Plain EXCEPT !.direct = TRUE]
AuditList               == [Plain EXCEPT !.direct = TRUE]
Docs                    == [Plain EXCEPT !.resets = TRUE, !.direct = TRUE]
Screens == {MembersDrawer, DepartmentMembersDrawer, UserGroupsDrawer, ClientGroupsPanel,
            AdminsPanel, ImportModal, UserList, UserPicker, AuditList, Docs}

TypeOK ==
  /\ screen \in Screens /\ open \in Choices \cup {None}
  /\ rows \in {None} \cup [of: Choices, mixed: BOOLEAN]
  /\ loads \in [Choices -> 0 .. MaxInFlight] /\ acts \in [Choices -> 0 .. MaxInFlight]
  /\ owed \in BOOLEAN /\ late \in BOOLEAN

Nothing == [c \in Choices |-> 0]
Init ==
  /\ screen \in Screens /\ open = None /\ rows = None
  /\ loads = Nothing /\ acts = Nothing /\ owed = FALSE /\ late = FALSE
-----------------------------------------------------------------------------
InFlight(c) == loads[c] + acts[c] > 0
ListOf(c)   == [of |-> c, mixed |-> FALSE]

\* The effect of a new choice: load() is called at once, or the list is given.
OldList(c)  == IF screen.given THEN ListOf(c) ELSE rows   \* (mutation)
Emptied(c)  == IF screen.given THEN ListOf(c) ELSE IF screen.resets THEN None ELSE rows
Choose(c) ==
  /\ open # c /\ (screen.direct \/ open = None)
  /\ open' = c /\ rows' = Emptied(c)
  /\ IF screen.given \/ screen.asks THEN loads' = loads /\ owed' = FALSE
     ELSE /\ loads[c] < MaxInFlight
          /\ loads' = [loads EXCEPT ![c] = @ + 1] /\ owed' = TRUE
  /\ late' = (\E d \in Choices \ {c} : InFlight(d))
  /\ UNCHANGED <<screen, acts>>

\* Closing a drawer leaves its list as it is; a modal with a CSV is emptied.
Close ==
  /\ open # None /\ open' = None
  /\ rows' = IF screen.remounts \/ screen.asks THEN None ELSE rows
  /\ IF screen.remounts THEN loads' = Nothing /\ acts' = Nothing
     ELSE UNCHANGED <<loads, acts>>
  /\ owed' = FALSE
  /\ UNCHANGED <<screen, late>>

\* The preview of an import.
Idle == \A c \in Choices : ~InFlight(c)
Ask ==
  /\ screen.asks /\ open # None /\ Idle
  /\ loads' = [loads EXCEPT ![open] = @ + 1]
  /\ UNCHANGED <<screen, open, rows, acts, owed, late>>

\* An answer in any order: .then(setRows) or .catch(message.error).
Arrive(c) ==
  /\ loads[c] > 0 /\ loads' = [loads EXCEPT ![c] = @ - 1]
  /\ rows' = ListOf(c)
  /\ owed' = (owed /\ c # open)
  /\ UNCHANGED <<screen, open, acts, late>>
Fail(c) ==
  /\ loads[c] > 0 /\ loads' = [loads EXCEPT ![c] = @ - 1]
  /\ UNCHANGED <<screen, open, rows, acts, owed, late>>

\* A person or group of the list is removed or moved, others added, the CSV written.
Act ==
  /\ screen.after # {} /\ open # None /\ rows # None
  /\ screen.single => Idle
  /\ acts[open] < MaxInFlight
  /\ acts' = [acts EXCEPT ![open] = @ + 1]
  /\ UNCHANGED <<screen, open, rows, loads, owed, late>>
ActFails(c) ==
  /\ acts[c] > 0 /\ acts' = [acts EXCEPT ![c] = @ - 1]
  /\ UNCHANGED <<screen, open, rows, loads, owed, late>>
\* The list of the choice the action was begun under is loaded again ...
Reload(c) ==
  /\ "reload" \in screen.after /\ loads[c] < MaxInFlight
  /\ loads' = [loads EXCEPT ![c] = @ + 1]
  /\ rows' = IF screen.resets THEN None ELSE rows
  /\ owed' = (owed \/ c = open)
  /\ UNCHANGED open
\* ... or the list there is now is changed by what was done ...
Patch(c) ==
  /\ "patch" \in screen.after
  /\ rows' = IF rows = None \/ open = None THEN rows
             ELSE [rows EXCEPT !.mixed = @ \/ c # open]
  /\ UNCHANGED <<open, loads, owed>>
\* ... or the report of what was written is shown.
Show(c) ==
  /\ "show" \in screen.after
  /\ rows' = ListOf(c)
  /\ UNCHANGED <<open, loads, owed>>
ActEnds(c) ==
  /\ acts[c] > 0 /\ acts' = [acts EXCEPT ![c] = @ - 1]
  /\ Reload(c) \/ Patch(c) \/ Show(c)
  /\ UNCHANGED <<screen, late>>

Next ==
  \/ \E c \in Choices : \/ Choose(c) \/ Arrive(c) \/ Fail(c)
                        \/ ActEnds(c) \/ ActFails(c)
  \/ Close \/ Ask \/ Act
-----------------------------------------------------------------------------
\* "Không được hiện nhầm danh sách" (AdminGroups.tsx:234): a list under the wrong
\* title, from which the wrong person would be removed or a CSV written that was
\* not previewed, is only seen when a request for another choice was in flight as
\* this one was opened; a screen that does not empty its list also shows the old
\* one until, or unless, its own arrives.
WrongListHasCause ==
  open # None /\ rows # None /\ (rows.of # open \/ rows.mixed) =>
    late \/ (owed /\ ~screen.resets)
=============================================================================
