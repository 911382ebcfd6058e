SPECIFICATION Spec
CONSTANTS
  None = None
  InstanceSet <- MCInstances
  Baselines = {"highest_risk", "risk_per_cost", "edf", "spt", "random", "current_risk"}
  RandomScores = {0, 1}
INVARIANTS
  CapacityKept
  NoLeftShift
  AmpleBudgetIsOptimal
PROPERTIES
  RefinesCommitments
