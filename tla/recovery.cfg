SPECIFICATION RecSpec
CONSTANTS
  Engine = {e1}
  Worker = {w1}
  Slot = {}
  NoSlot = NoSlot
  NoState = NoState
  Category = {"BACKEND"}
  Required = {"BACKEND"}
  MaxIncarnations = 1
  MaxPermits = 1
  MaxActiveUses = 1
  MaxBoot = 1
  MaxEpoch = 2
  MaxReadinessGeneration = 2
  MaxConfigGeneration = 1
  MaxUseId = 2
  MaxReplacementId = 0
  RecoveredIds = 1
  MaxLives = 2
CHECK_DEADLOCK FALSE
INVARIANTS ServedOnFreshEvidence RestoredHoldsNoAuthority
PROPERTIES FenceOutlivesRestart
