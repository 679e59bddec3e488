\* A table that the purge emptied, polled by a client that is behind.
SPECIFICATION Spec
CONSTANTS
  u1 = u1
  u2 = u2
  bg = bg
  Users = {u1, bg}
  Hidden = {bg}
  Movers = {u1}
  Emitters = {e1, e2}
  Limit = 1
  None = None
  MaxEvents = 3
  MaxFaults = 1
PROPERTY
  NeverEmptyAfterPurge
CHECK_DEADLOCK FALSE
