SPECIFICATION FairSpec
CONSTANTS
  Execute = {x1, x2}
  Drain = {d1}
  Stale = {x2, d1}
  Direct = {s1}
  NoCommand = NoCommand
  MaxQueue = 2
CHECK_DEADLOCK FALSE
INVARIANTS TypeOK CleanupAfterRoutedUses RoutedUsesAreClosed DrainedMeansCleaned DrainedIsIdle NothingStranded OkMeansDone
PROPERTIES EveryCommandSettles DrainCompletes
