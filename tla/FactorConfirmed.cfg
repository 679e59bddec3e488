\* "Confirm a right code, then turn it on": the secret may be another one by then.
SPECIFICATION Spec
CONSTANTS
  Reqs = {r1, r2}
  Secrets = {11, 12}
  Codes = {21}
  PerSet = 1
  None = None
  Steps = {1}
INVARIANT
  EnabledWasConfirmed
