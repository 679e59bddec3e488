\* One request at a time: an administrator is locked, the other one demoted.
SPECIFICATION Spec
CONSTANTS
  a = a
  b = b
  c = c
  bg = bg
  Users = {bg, a, b}
  Breakglass = {bg}
  Founders = {a, b}
  Reqs = {r1}
  None = None
PROPERTY
  RemovalLeavesOperable
