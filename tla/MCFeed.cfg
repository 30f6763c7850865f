SPECIFICATION Spec
CONSTANTS
  Hooks = {1, 2, 3}
  Before = {2}
  SeenCap = 1
  MaxFaults = 1
  WireCap = 3
  PendingCap = 1
  MaxRows = 2
  MaxDrops = 1
INVARIANT SpooledIsKept
PROPERTY SpooledIsApplied KeepsPromise
CHECK_DEADLOCK FALSE
