SPECIFICATION PrepSpec
CONSTANTS
  Engine = {e1}
  Worker = {w1}
  Slot = {}
  NoSlot = NoSlot
  Category = {"MODEL"}
  Required = {"MODEL"}
  MaxIncarnations = 2
  MaxPermits = 2
  MaxActiveUses = 0
  MaxBoot = 1
  MaxEpoch = 2
  MaxReadinessGeneration = 2
  MaxConfigGeneration = 1
  MaxUseId = 0
  MaxReplacementId = 0
  MaxPending = 2
  MaxAttempts = 2
CHECK_DEADLOCK FALSE
INVARIANTS PreparationTypeOK NoPhantomReady ActiveAttemptsAreOpen FencedBootHoldsNothing PermitsAreSpentOnce
PROPERTIES FencedPublishesNothing PlansEndWithTheirEpoch
