---------------------------- MODULE MCAdministration ----------------------------
(***************************************************************************)
(* What administrators work on, for TLC: each other, the secrets of a       *)
(* client, projects, groups, users and departments, the sessions of a user   *)
(* and what the applications learn of their end, the screens they do it from *)
(* and the secrets those show once.  subject says which of the eight a       *)
(* behaviour is about; the others rest.                                      *)
(***************************************************************************)
EXTENDS MCAdminRoster

CONSTANTS Grace, MaxSecrets, People, Projects, Apps, Members, Groups, Clients,
          Persons, Depts, Names,
          Ids, Deaf, Runs,
          Choices, MaxInFlight,
          Places, MaxAsks
VARIABLES subject,
          secrets, client, work, byHand, overlapped, misused,
          exists, alive, role, scope, appOf, job, mixed,
          group, member, assigned, allowAll, signedIn, call, kept, shared,
          row, dept, busy, crossed, returned,
          live, begun, clients, flows, local, run, posts, excused,
          screen, open, rows, loads, acts, owed, late,
          page, drawer, held, asked, card, asks, inForce, noted, unsure

CS == INSTANCE ClientSecrets
PA == INSTANCE ProjectAdmins
GA == INSTANCE GroupAccess
OB == INSTANCE Onboarding
BL == INSTANCE BackchannelLogout
SC == INSTANCE Screens
HO == INSTANCE Handout WITH open <- drawer, excused <- unsure

\* None is none of the values it stands beside, and the bounds are numbers.
ASSUME AdministrationAssumption ==
  /\ None \notin GA!Call /\ None \notin PA!Job /\ None \notin OB!Request
  /\ None \notin CS!Work /\ None \notin HO!Requests /\ None \notin Names
  /\ Grace \in Nat /\ MaxSecrets \in Nat \ {0} /\ MaxInFlight \in Nat \ {0} /\ MaxAsks \in Nat

rosterVars  == vars
secretVars  == <<secrets, client, work, byHand, overlapped, misused>>
projectVars == <<exists, alive, role, scope, appOf, job, mixed>>
groupVars   == <<group, member, assigned, allowAll, signedIn, call, kept, shared>>
userVars    == <<row, dept, busy, crossed, returned>>
logoutVars  == <<live, begun, clients, flows, local, run, posts, excused>>
screenVars  == <<screen, open, rows, loads, acts, owed, late>>
handoutVars == <<page, drawer, held, asked, card, asks, inForce, noted, unsure>>

Subjects == {"roster", "secrets", "projects", "groups", "users", "logout", "screens",
             "handouts"}
AdministrationInit ==
  /\ subject \in Subjects
  /\ Init /\ CS!Init /\ PA!Init /\ GA!Init /\ OB!Init /\ BL!Init /\ SC!Init
  /\ HO!Init
  /\ subject # "screens" => screen = SC!Docs
  /\ subject # "handouts" => page = "login"

On(s) == subject = s
usersSide   == <<userVars, groupVars>>
accessSide  == <<logoutVars, screenVars, handoutVars>>
clientsSide == <<secretVars, projectVars>>
RosterAlone   == UNCHANGED <<subject, usersSide, clientsSide, accessSide>>
SecretsAlone  == UNCHANGED <<subject, rosterVars, projectVars, usersSide, accessSide>>
ProjectsAlone == UNCHANGED <<subject, rosterVars, secretVars, usersSide, accessSide>>
GroupsAlone   == UNCHANGED <<subject, rosterVars, userVars, clientsSide, accessSide>>
UsersAlone    == UNCHANGED <<subject, rosterVars, groupVars, clientsSide, accessSide>>
LogoutAlone   == UNCHANGED <<subject, rosterVars, usersSide, clientsSide, screenVars, handoutVars>>
ScreensAlone  == UNCHANGED <<subject, rosterVars, usersSide, clientsSide, logoutVars, handoutVars>>
HandoutsAlone == UNCHANGED <<subject, rosterVars, usersSide, clientsSide, logoutVars, screenVars>>

AdministrationNext ==
  \/ On("roster") /\ Next /\ RosterAlone
  \/ On("secrets") /\ CS!Next /\ SecretsAlone
  \/ On("projects") /\ PA!Next /\ ProjectsAlone
  \/ On("groups") /\ GA!Next /\ GroupsAlone
  \/ On("users") /\ OB!Next /\ UsersAlone
  \/ On("logout") /\ BL!Next /\ LogoutAlone
  \/ On("screens") /\ SC!Next /\ ScreensAlone
  \/ On("handouts") /\ HO!Next /\ HandoutsAlone

AdministrationSpec ==
  /\ AdministrationInit
  /\ [][AdministrationNext]_<<subject, rosterVars, usersSide, clientsSide, accessSide>>

\* The types of the eight, one of which is about them at a time.
AllTyped ==
  /\ subject = "roster" => TypeOK
  /\ subject = "secrets" => CS!TypeOK
  /\ subject = "projects" => PA!TypeOK
  /\ subject = "groups" => GA!TypeOK
  /\ subject = "users" => OB!TypeOK
  /\ subject = "logout" => BL!TypeOK
  /\ subject = "screens" => SC!TypeOK
  /\ subject = "handouts" => HO!TypeOK
SecretsSound ==
  /\ subject = "secrets" => CS!SecretsSound
  /\ subject = "handouts" => HO!SeenIsInForce
AppointmentWhole  == subject = "projects" => PA!AppointmentWhole
AccessSound       == subject = "groups" => GA!NoRightHasCause /\ GA!GroupsApart
LabelHasCause     == subject = "users" => OB!LabelHasCause
AppLogoutHasCause == subject = "logout" => BL!AppLogoutHasCause
WrongListHasCause == subject = "screens" => SC!WrongListHasCause
=============================================================================
