SPECIFICATION RecSpec
CONSTANTS
  Engine = {e1}
  Worker = {w1}
  Slot = {}
  NoSlot = NoSlot
  NoState = NoState
  Category = {"BACKEND"}
  Required = {"BACKEND"}
  MaxIncarnations = 2
  MaxPermits = 1
  MaxActiveUses = 1
  MaxBoot = 2
  MaxEpoch = 3
  MaxReadinessGeneration = 1
  MaxConfigGeneration = 1
  MaxUseId = 3
  MaxReplacementId = 0
  RecoveredIds = 2
  MaxLives = 3
CHECK_DEADLOCK FALSE
PROPERTIES RestoredIdentitiesAreKept
