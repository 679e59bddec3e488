\* Two requests in flight, the clock stopped: every interleaving of statements.
SPECIFICATION Spec
CONSTANTS
  u1 = u1
  app = app
  portal = portal
  Users = {u1}
  Clients = {app}
  Uids = {11}
  Grants = {21, 22}
  Tokens = {31, 32, 33, 34}
  Reqs = {r1, r2}
  NoRow = NoRow
  Idle = 2
  Cap = 3
  CodeTtl = 1
  MaxTime = 0
INVARIANT
  EndedStaysEnded
