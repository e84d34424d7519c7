SPECIFICATION Spec
CONSTANTS
  Engine = {e1}
  Worker = {w1, w2}
  Slot = {}
  NoSlot = NoSlot
  Category = {"BACKEND"}
  Required = {"BACKEND"}
  MaxIncarnations = 2
  MaxPermits = 2
  MaxActiveUses = 1
  MaxBoot = 1
  MaxEpoch = 1
  MaxReadinessGeneration = 2
  MaxConfigGeneration = 1
  MaxUseId = 0
  MaxReplacementId = 0
CHECK_DEADLOCK FALSE
INVARIANTS StandbyIsDeterministic
SYMMETRY WorkerSymmetry
