\* One account: requests about its second factor, its sign-in, its reset links
\* and the waits after wrong passwords; two tabs of the portal; a key rotation.
SPECIFICATION AccountSpec
CONSTANTS
  Reqs = {r1, r2}
  Secrets = {11, 12}
  Codes = {21, 22, 23}
  PerSet = 1
  None = None
  Steps = {1, 2}
  TicketTTL = 1
  InteractionTTL = 1
  Kept = 1
  MaxPw = 2
  Clients = {c1, c2}
  Links = {l1, l2, l3}
  Accounts = {a, b, c}
  Emails = {a, b}
  Threshold = 1
  IpThreshold = 1
  MaxDelay = 3
  Window = 3
  Cap = 5
  Tabs = {1, 2}
  MaxCalls = 1
  MaxLogins = 2
  MaxRefreshes = 1
  Instances = {i1, i2}
  TTL = 1
  MaxAge = 1
  MaxKeys = 2
INVARIANTS
  AllTyped
  CodeOnce
  SignInEarned
  OldSessionWasLate
  LinksSound
  GuessesBounded
  NoNeedlessLogin
  VerdictHasCause
PROPERTIES
  FactorOffHasCause
  ChangeHasProof
SYMMETRY Interchangeable
