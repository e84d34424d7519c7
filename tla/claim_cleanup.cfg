SPECIFICATION Spec
CONSTANTS
  Execute = {x1}
  Drain = {d1}
  Stale = {}
  Direct = {s1}
  NoCommand = NoCommand
  MaxQueue = 2
CHECK_DEADLOCK FALSE
INVARIANTS CleanupAfterUses
