SPECIFICATION WorkerSpec
CONSTANTS
  Engine = {e1}
  Worker = {w1}
  Slot = {s1}
  NoSlot = NoSlot
  Category = {"BACKEND", "WARMUP"}
  Required = {"BACKEND", "WARMUP"}
  MaxIncarnations = 2
  MaxPermits = 2
  MaxActiveUses = 2
  MaxBoot = 1
  MaxEpoch = 1
  MaxReadinessGeneration = 3
  MaxConfigGeneration = 1
  MaxUseId = 4
  MaxReplacementId = 0
  MaxPending = 2
  MaxAttempts = 2
  Serve = 2
  Mortal = {}
CHECK_DEADLOCK FALSE
INVARIANTS ServedUsesAreReleased
