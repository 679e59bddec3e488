\* One instance that may stop twice: two rows in a batch.  Two instances
\* with the run-time parameters; two fields of their form; two runs of the archive.
SPECIFICATION FairServer
CONSTANTS
  Jobs = {1, 2}
  Workers = {w1}
  Batch = 2
  MaxAttempts = 2
  Webhook = TRUE
  None = None
  MaxStops = 2
  Instances = {i1, i2}
  Writers = {r1, r2}
  Internal = {n1}
  External = {x1}
  MaxWrites = 2
  MaxFaults = 1
  Records = {1, 2, 3}
  Runs = {p, q}
  BatchSize = 2
  Keys = {k1, k2}
  Secret = {k2}
  MaxSaves = 2
  MaxElsewhere = 1
INVARIANTS
  AllTyped
  SettingsSound
  NoRecordLost
PROPERTIES
  EverySettles
  ImplementsOutbox
  SettingsSettle
CHECK_DEADLOCK FALSE
