SPECIFICATION Spec
CONSTANTS
  Engine = {e1}
  Worker = {w1}
  Slot = {s1}
  NoSlot = NoSlot
  Category = {"BACKEND", "MODEL"}
  Required = {"BACKEND", "MODEL"}
  MaxIncarnations = 1
  MaxPermits = 1
  MaxActiveUses = 2
  MaxBoot = 1
  MaxEpoch = 2
  MaxReadinessGeneration = 3
  MaxConfigGeneration = 2
  MaxUseId = 3
  MaxReplacementId = 0
CHECK_DEADLOCK FALSE
INVARIANTS TypeOK UseAccounting DrainPhaseTruthful AdmissionsFollowGenerations
PROPERTIES StandbyIsEarned AdmissionFenceHolds ImplementsGate
