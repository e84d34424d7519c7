SPECIFICATION WorkerSpec
CONSTANTS
  Engine = {e1}
  Worker = {w1, w2}
  Slot = {s1}
  NoSlot = NoSlot
  Category = {"BACKEND", "WARMUP"}
  Required = {"BACKEND", "WARMUP"}
  MaxIncarnations = 2
  MaxPermits = 2
  MaxActiveUses = 2
  MaxBoot = 1
  MaxEpoch = 1
  MaxReadinessGeneration = 3
  MaxConfigGeneration = 1
  MaxUseId = 4
  MaxReplacementId = 1
  MaxPending = 2
  MaxAttempts = 2
  Serve = 1
  Mortal = {w1}
CHECK_DEADLOCK FALSE
INVARIANTS WorkerTypeOK ServedUsesAreReleased
PROPERTIES SetupActivates EveryWorkerFinishes
