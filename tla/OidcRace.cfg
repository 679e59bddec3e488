\* Two clients and two requests of a user.  While the clock stands still five ids are
\* handed out: two exchanges of a code race to the end.  While it goes on, four, and nobody
\* is locked: an authorization, an exchange and a late save, over more than the cap.
\* Two runs of the expiry cron about two accounts; a full read of three users of whom
\* two move.
SPECIFICATION StatementsSpec
CONSTANTS
  u1 = u1
  app = app
  portal = portal
  Users = {u1}
  Clients = {app, portal}
  Uids = {11}
  Grants = {21, 22}
  Tokens = {31, 32, 33}
  Reqs = {r1, r2}
  NoRow = NoRow
  Idle = 2
  Cap = 3
  CodeTtl = 1
  MaxTime = 3
  MaxIds = 5
  Holders = {h1, h2}
  Crons = {r1, r2}
  MaxChanges = 1
  MaxMishaps = 1
  Codes = {1, 2, 3}
  Calls = {r1, r2}
  None = None
  Limit = 1
  Rate = 2
  MaxMoves = 2
INVARIANTS
  AllTyped
  KillSwitchIsFinal
  NothingPastCap
  OneUsablePerLineage
  WarningsSound
  PagesSound
PROPERTY
  RefreshNeverRevives
  LossHasCause
SYMMETRY Interchangeable
