SPECIFICATION Spec
CONSTANTS
  Engine = {e1}
  Worker = {w1, w2}
  Slot = {}
  NoSlot = NoSlot
  Category = {}
  Required = {}
  MaxIncarnations = 2
  MaxPermits = 2
  MaxActiveUses = 1
  MaxBoot = 1
  MaxEpoch = 1
  MaxReadinessGeneration = 2
  MaxConfigGeneration = 1
  MaxUseId = 1
  MaxReplacementId = 1
CHECK_DEADLOCK FALSE
INVARIANTS DrainPhaseTruthful CutoverClosesOld
PROPERTIES StandbyIsEarned
SYMMETRY WorkerSymmetry
