------------------------------ MODULE MCStatements ------------------------------
(***************************************************************************)
(* Statements that overtake one another, for TLC: of requests for sessions,   *)
(* of the expiry cron on several instances, of an application that reads the *)
(* directory page by page.  subject says what a behaviour is about, and the  *)
(* others rest: sessions while the clock stands still, sessions while it     *)
(* goes on (with an id less, and nobody locked), accounts, or pages.         *)
(***************************************************************************)
EXTENDS MCOidcStore

CONSTANTS MaxIds,   \* bound on the ids handed out while the clock stands still
          Holders, Crons, MaxChanges, MaxMishaps,
          Codes, Calls, None, Limit, Rate, MaxMoves
VARIABLES subject,
          date, sent, status, signedOn, cron, mails, changes, mishaps, due, doubled, cutOff,
          scope, hits, inCall, reading, offset, got, moves, left, joined, missed, twice

WA == INSTANCE Warnings
DP == INSTANCE DirectoryPages

\* Bounds are numbers, employee codes are ordered as numbers are; there are finitely many of
\* whatever is counted.
ASSUME StatementsAssumption ==
  /\ {MaxIds, MaxChanges, MaxMishaps, MaxMoves, Limit} \subseteq Nat /\ Rate \in Nat \ {0}
  /\ Codes \subseteq Nat /\ None \notin DP!Call
  /\ IsFiniteSet(Crons) /\ IsFiniteSet(Codes) /\ IsFiniteSet(Calls)

storeVars  == vars
expiryVars == <<date, sent, status, signedOn, cron, mails, changes, mishaps, due, doubled, cutOff>>
pageVars   == <<scope, hits, inCall, reading, offset, got, moves, left, joined, missed, twice>>

StatementsInit ==
  /\ subject \in {"sessions", "clock", "accounts", "pages"}
  /\ Init /\ WA!Init /\ DP!Init
  /\ subject # "pages" => scope = {}

StatementsNext ==
  \/ /\ subject = "sessions" /\ Next /\ Cardinality(minted') <= MaxIds /\ now' = now
     /\ UNCHANGED <<subject, expiryVars, pageVars>>
  \/ /\ subject = "clock" /\ Next /\ Cardinality(minted') <= MaxIds - 1 /\ active' = active
     /\ UNCHANGED <<subject, expiryVars, pageVars>>
  \/ subject = "accounts" /\ WA!Next /\ UNCHANGED <<subject, storeVars, pageVars>>
  \/ subject = "pages" /\ DP!Next /\ UNCHANGED <<subject, storeVars, expiryVars>>

StatementsSpec == StatementsInit /\ [][StatementsNext]_<<subject, storeVars, expiryVars, pageVars>>

\* The types of the three.
AllTyped ==
  /\ subject \in {"sessions", "clock"} => TypeOK
  /\ subject = "accounts" => WA!TypeOK
  /\ subject = "pages" => DP!TypeOK
WarningsSound == subject = "accounts" => WA!WarningsSound
PagesSound    == subject = "pages" => DP!PagesSound
=============================================================================
