SPECIFICATION Spec
CONSTANTS
  Reqs = {r1, r2}
  Streaming = {r2}
  Updater = u
  MaxSteps = 2
  MaxRetracts = 1
  MaxInbox = 1
CHECK_DEADLOCK FALSE
INVARIANT
  FlushSucceeds
