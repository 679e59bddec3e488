-------------------------------- MODULE Handout --------------------------------
(***************************************************************************)
(* What the server makes up and tells once: the secret of an application,    *)
(* the secret of its webhook, the recovery codes of a second factor.  The    *)
(* three screens of portal-fe/src/pages that ask for one and show it: the    *)
(* workspace of administrators (AdminWorkspace), the page of one's own       *)
(* account (SelfService) and the step of the sign-in that enrols            *)
(* (InteractionLogin).                                                      *)
(*                                                                         *)
(* A credential is <<place, kind>>, known by the number of the request that  *)
(* made it.  The workspace shows answers on one card, whoever they are for;  *)
(* while there is a card nothing else can be pressed.                       *)
(*                                                                         *)
(* Left out: the check of the code, the grace of the secret before           *)
(* (ClientSecrets), disabling and deleting an application.                  *)
(***************************************************************************)
EXTENDS Naturals

CONSTANTS Places, None,
          MaxAsks   \* bound: requests

VARIABLES
  page,     \* "workspace", "profile" or "login"
  open,     \* the application of the drawer, or the account whose QR code is shown
  held,     \* loading flags that are set: "saving", "panel", "busy"
  asked,    \* requests in flight: [n, of, way, served, heard]
  card,     \* the request whose answer is shown, or None
  asks,     \* requests so far
  inForce,  \* credential -> the request that made the one the server accepts, or 0
  noted,    \* credential -> the one the person took note of last, or 0
  excused   \* history: credentials with a cause to differ

vars == <<page, open, held, asked, card, asks, inForce, noted, excused>>

Kinds       == {"secret", "hook", "codes"}
Credentials == Places \X Kinds
Ways        == {"create", "rotate", "webhook", "unhook", "enrol", "confirm", "disable"}
Requests    == [n: 1 .. MaxAsks, of: Credentials, way: Ways, served: BOOLEAN, heard: BOOLEAN]

TypeOK ==
  /\ page \in {"workspace", "profile", "login"} /\ open \in Places \cup {None}
  /\ held \subseteq {"saving", "panel", "busy"}
  /\ asked \subseteq Requests /\ card \in Requests \cup {None}
  /\ asks \in 0 .. MaxAsks
  /\ inForce \in [Credentials -> 0 .. MaxAsks] /\ noted \in [Credentials -> 0 .. MaxAsks]
  /\ excused \subseteq Credentials

Init ==
  /\ page \in {"workspace", "profile", "login"} /\ open = None
  /\ held = {} /\ asked = {} /\ card = None /\ asks = 0
  /\ inForce = [c \in Credentials |-> 0] /\ noted = [c \in Credentials |-> 0]
  /\ excused = {}
-----------------------------------------------------------------------------
\* The flag a request sets until it is answered.  Nothing holds rotate() back.
Flag(way) == CASE way = "create" -> {"saving"}
               [] way = "rotate" -> {}
               [] way \in {"webhook", "unhook"} -> {"panel"}
               [] OTHER -> {"busy"}

Ask(way, c) ==
  /\ card = None /\ Flag(way) \cap held = {} /\ asks < MaxAsks
  /\ asks' = asks + 1
  /\ held' = held \cup Flag(way)
  /\ asked' = asked \cup {[n |-> asks + 1, of |-> c, way |-> way,
                           served |-> FALSE, heard |-> TRUE]}
  /\ excused' = IF asked = {} THEN excused ELSE excused \cup {c} \cup {e.of : e \in asked}
  /\ UNCHANGED <<page, open, card, inForce, noted>>

\* The buttons of the workspace.
CreateApp(p)     == page = "workspace" /\ open = None /\ inForce[<<p, "secret">>] = 0
                      /\ Ask("create", <<p, "secret">>)
Rotate(p)        == page = "workspace" /\ open = p /\ Ask("rotate", <<p, "secret">>)
SaveWebhook(p)   == page = "workspace" /\ open = p /\ Ask("webhook", <<p, "hook">>)
RemoveWebhook(p) == page = "workspace" /\ open = p /\ Ask("unhook", <<p, "hook">>)
\* A code for the QR that is shown; and the end of the factor.
Enrol(p)         == page = "login" /\ open = p /\ Ask("enrol", <<p, "codes">>)
Confirm(p)       == page = "profile" /\ open = p /\ Ask("confirm", <<p, "codes">>)
Disable(p)       == page = "profile" /\ open = None /\ inForce[<<p, "codes">>] # 0
                      /\ Ask("disable", <<p, "codes">>)

\* An application of the list is opened; a QR code is only made for a factor that is off.
Offered(p) == IF page = "workspace" THEN inForce[<<p, "secret">>] # 0
              ELSE inForce[<<p, "codes">>] = 0 /\ "busy" \notin held
Open(p) ==
  /\ card = None /\ open = None /\ Offered(p)
  /\ open' = p
  /\ UNCHANGED <<page, held, asked, card, asks, inForce, noted, excused>>
\* Closing unmounts the panel of the webhook and its flag; not so the form of an
\* application.  The sign-in has no way back here.
Close ==
  /\ card = None /\ open # None /\ page # "login"
  /\ open' = None
  /\ held' = held \ {"panel"}
  /\ UNCHANGED <<page, asked, card, asks, inForce, noted, excused>>
-----------------------------------------------------------------------------
Serve(e) ==
  /\ ~e.served
  /\ e.way = "create" => inForce[e.of] = 0
  /\ asked' = (asked \ {e}) \cup {[e EXCEPT !.served = TRUE]}
  /\ inForce' = [inForce EXCEPT ![e.of] = IF e.way \in {"unhook", "disable"} THEN 0 ELSE e.n]
  /\ UNCHANGED <<page, open, held, card, asks, noted, excused>>

Released(e) == IF e.heard THEN held \ Flag(e.way) ELSE held
Refuse(e) ==
  /\ ~e.served
  /\ asked' = asked \ {e} /\ held' = Released(e)
  /\ UNCHANGED <<page, open, card, asks, inForce, noted, excused>>

\* What an answer makes of the card: setSecret, setRecovery.
GoesOn(e) == IF e.way = "enrol" THEN None ELSE e   \* (mutation)
Shown(e)  == IF e.way \in {"unhook", "disable"} THEN card ELSE e
Answer(e) ==
  /\ e.served /\ asked' = asked \ {e}
  /\ held' = Released(e)
  /\ card' = IF e.heard THEN Shown(e) ELSE card
  /\ open' = IF e.heard /\ e.way = "confirm" THEN None ELSE open
  /\ UNCHANGED <<page, asks, inForce, noted, excused>>

\* The network fails.  submit() of the enrolment has no finally: its flag stays.
Lose(e) ==
  /\ e.heard
  /\ asked' = (asked \ {e}) \cup (IF e.served THEN {} ELSE {[e EXCEPT !.heard = FALSE]})
  /\ held' = IF e.way = "enrol" THEN held ELSE Released(e)
  /\ excused' = excused \cup {e.of}
  /\ UNCHANGED <<page, open, card, asks, inForce, noted>>

\* The page is loaded again or left: nobody hears the answers, the card is gone.
Reload ==
  /\ asked' = {[e EXCEPT !.heard = FALSE] : e \in asked}
  /\ excused' = excused \cup {e.of : e \in asked}
                        \cup (IF card = None THEN {} ELSE {card.of})
  /\ card' = None /\ open' = None /\ held' = {}
  /\ UNCHANGED <<page, asks, inForce, noted>>

\* "Đã lưu, đóng"; the sign-in goes on to the application.
PutAway ==
  /\ card # None /\ card' = None
  /\ noted' = [noted EXCEPT ![card.of] = card.n]
  /\ excused' = IF asked = {} /\ inForce[card.of] = card.n THEN excused \ {card.of} ELSE excused
  /\ open' = IF page = "login" THEN None ELSE open
  /\ UNCHANGED <<page, held, asked, asks, inForce>>

Next ==
  \/ \E p \in Places : \/ CreateApp(p) \/ Rotate(p) \/ SaveWebhook(p) \/ RemoveWebhook(p)
                       \/ Enrol(p) \/ Confirm(p) \/ Disable(p) \/ Open(p)
  \/ \E e \in asked : Serve(e) \/ Refuse(e) \/ Answer(e) \/ Lose(e)
  \/ Close \/ Reload \/ PutAway
-----------------------------------------------------------------------------
\* "Chỉ hiển thị một lần" (AdminWorkspace.tsx:700): once everything about a
\* credential has been answered, the one the person took note of last is the one
\* the server accepts, unless an answer was not heard or two requests were in
\* flight together, of which the later answer takes the place of the other's card
\* or, for one secret, need not be the later secret.
SeenIsInForce ==
  \A c \in Credentials :
    \/ inForce[c] = 0 \/ c \in excused
    \/ \E e \in asked : e.of = c
    \/ card # None /\ card.of = c
    \/ noted[c] = inForce[c]
=============================================================================
