------------------------------- MODULE MCAccount -------------------------------
(***************************************************************************)
(* One account for TLC: its second factor, its sign-in, its reset links, the *)
(* waits after wrong passwords, the portal in its browser and the check of   *)
(* its access tokens.  subject says which of the six machines a behaviour is *)
(* about; the others rest, so their states add up and do not multiply.       *)
(***************************************************************************)
EXTENDS SecondFactor, TLC

CONSTANTS TicketTTL, InteractionTTL, Kept, MaxPw,
          Clients, Links,
          Accounts, Emails, Threshold, IpThreshold, MaxDelay, Window, Cap,
          Tabs, MaxCalls, MaxLogins, MaxRefreshes,
          Instances, TTL, MaxAge, MaxKeys
VARIABLES subject,
          account, tickets, results, sessions, req, revoked,
          links, gone, doing, uses, newer,
          attempts, trying, halfway,
          page, store, url, calls, asked, logins, lineage, forked, wiped, needless,
          file, made, loaded, jwks, half, token, cutoff, shown, silent, rushed

SI == INSTANCE SignIn
RL == INSTANCE ResetLink
BO == INSTANCE Backoff
PO == INSTANCE Portal
SK == INSTANCE SigningKeys

\* Bounds and lifetimes are numbers, and None is none of the values it stands beside.
ASSUME AccountAssumption ==
  /\ IsFiniteSet(Clients) /\ Emails \subseteq Accounts
  /\ {TicketTTL, InteractionTTL, MaxPw, TTL, MaxAge, MaxCalls, MaxLogins, MaxRefreshes,
      Threshold, IpThreshold, MaxDelay, Cap} \subseteq Nat
  /\ {MaxKeys, Window} \subseteq Nat \ {0}
  /\ None \notin Nat /\ None \notin [kid: SK!Kids, age: 0 .. TTL]
  /\ None \notin [of: PO!Logins, gen: PO!Gens] \cup [of: PO!Logins, fresh: BOOLEAN]

SIRests == account = [pw |-> 0] /\ tickets = {} /\ results = {} /\ sessions = {}
             /\ req = None /\ revoked = {}
RLRests == links = None /\ gone = None /\ doing = None /\ uses = None /\ newer = None
BORests == attempts = <<>> /\ trying = None /\ halfway = None

AccountInit ==
  /\ Init /\ PO!Init /\ SK!Init
  /\ \/ subject \in {"factor", "portal", "keys"} /\ SIRests /\ RLRests /\ BORests
     \/ subject = "signIn" /\ SI!Init /\ RLRests /\ BORests
     \/ subject = "links" /\ SIRests /\ RL!Init /\ BORests
     \/ subject = "waits" /\ SIRests /\ RLRests /\ BO!Init
  /\ subject # "keys" => ~file.plain

On(s) == subject = s
factorVars == vars
signInVars == <<account, tickets, results, sessions, req, revoked>>
linkVars   == <<links, gone, doing, uses, newer>>
waitVars   == <<attempts, trying, halfway>>
portalVars == <<page, store, url, calls, asked, logins, lineage, forked, wiped, needless>>
keyVars    == <<file, made, loaded, jwks, half, token, cutoff, shown, silent, rushed>>
FactorAlone == UNCHANGED <<subject, signInVars, linkVars, waitVars, portalVars, keyVars>>
SignInAlone == UNCHANGED <<subject, factorVars, linkVars, waitVars, portalVars, keyVars>>
LinksAlone  == UNCHANGED <<subject, factorVars, signInVars, waitVars, portalVars, keyVars>>
WaitsAlone  == UNCHANGED <<subject, factorVars, signInVars, linkVars, portalVars, keyVars>>
PortalAlone == UNCHANGED <<subject, factorVars, signInVars, linkVars, waitVars, keyVars>>
KeysAlone   == UNCHANGED <<subject, factorVars, signInVars, linkVars, waitVars, portalVars>>

AccountNext ==
  \/ \E r \in Reqs : On("factor") /\ Enrol(r) /\ FactorAlone
  \/ \E r \in Reqs : On("factor") /\ Check(r) /\ FactorAlone
  \/ \E r \in Reqs : On("factor") /\ Abort(r) /\ FactorAlone
  \/ \E r \in Reqs : On("signIn") /\ SI!Interaction(r) /\ SignInAlone
  \/ \E r \in Reqs : On("signIn") /\ SI!Passwords(r) /\ SignInAlone
  \/ \E r \in Reqs : On("signIn") /\ SI!Abort(r) /\ SignInAlone
  \/ On("signIn") /\ (\E w \in results : SI!Resume(w)) /\ SignInAlone
  \/ On("signIn") /\ SI!Tick /\ SignInAlone
  \/ On("signIn") /\ SI!Age /\ SignInAlone
  \/ On("links") /\ RL!Next /\ LinksAlone
  \/ On("waits") /\ BO!Next /\ WaitsAlone
  \/ On("portal") /\ PO!Next /\ PortalAlone
  \/ On("keys") /\ SK!Next /\ KeysAlone

AccountSpec ==
  /\ AccountInit
  /\ [][AccountNext]_<<subject, factorVars, signInVars, linkVars, waitVars, portalVars, keyVars>>

\* The types of the six, one of which is about them at a time, and the sizes
\* they are bounded by.
AllTyped ==
  /\ TypeOK /\ RecoveryBounded
  /\ subject = "signIn" => SI!TypeOK
  /\ subject = "links" => RL!TypeOK
  /\ subject = "waits" => BO!TypeOK
  /\ subject = "portal" => PO!TypeOK
  /\ subject = "keys" => SK!TypeOK
SignInEarned      == subject = "signIn" => SI!SignInEarned
OldSessionWasLate == subject = "signIn" => SI!OldSessionWasLate
ChangeHasProof    == SI!ChangeHasProof
LinksSound        == subject = "links" => RL!LinksSound
GuessesBounded    == subject = "waits" => BO!GuessesBounded
NoNeedlessLogin   == subject = "portal" => PO!NoNeedlessLogin
VerdictHasCause   == subject = "keys" => SK!VerdictHasCause

Interchangeable == Permutations(Reqs) \cup Permutations(Emails)
=============================================================================
