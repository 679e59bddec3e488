\* Two instances and a stale lock: what AD-13 says of a second instance.
SPECIFICATION Spec
CONSTANTS
  Jobs = {1}
  Workers = {w1, w2}
  Batch = 1
  MaxAttempts = 2
  Webhook = TRUE
  None = None
  MaxStops = 1
PROPERTY
  DeliveredIsFinal
CHECK_DEADLOCK FALSE
