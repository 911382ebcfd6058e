SPECIFICATION Spec
CONSTANTS
  None = None
  InstanceSet <- MCInstances
  EpsBounds <- MCEps
INVARIANTS
  RepliesScoreClean
  OptimalIsGlobal
  InfeasibleIsReal
