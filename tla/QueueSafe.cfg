\* Two rows, two instances racing for them, one stop.
SPECIFICATION Spec
CONSTANTS
  Jobs = {1, 2}
  Workers = {w1, w2}
  Batch = 1
  MaxAttempts = 2
  Webhook = TRUE
  None = None
  MaxStops = 1
INVARIANTS
  ExclusiveClaim
  RetryBudget
  DeliveredWasAccepted
CHECK_DEADLOCK FALSE
SYMMETRY Interchangeable
