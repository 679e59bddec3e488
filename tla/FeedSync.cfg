\* One client that polls while two requests change users and old events go.
SPECIFICATION FairSpec
CONSTANTS
  u1 = u1
  u2 = u2
  bg = bg
  Users = {u1, u2, bg}
  Hidden = {bg}
  Movers = {u1}
  Emitters = {e1, e2}
  Limit = 1
  None = None
  MaxEvents = 2
  MaxFaults = 1
INVARIANTS
  TypeOK
  StaleHasCause
  HighestIdIsCurrent
PROPERTY
  Converges
CHECK_DEADLOCK FALSE
