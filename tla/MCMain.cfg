SPECIFICATION MainSpec
CONSTANTS
  None = None
  Cut = Cut
  GridFiles <- MCGridFiles
  Outcomes <- MCOutcomes
  BaseSeed = 1000
  Resamples = {0, 1}
  FrontEnds = {"cli", "script"}
  MaxFaults = 2
  Machines <- MCMachines
  Requests <- MCRequests
  CpsatReplies <- MCCpsatReplies
  PulpOutcomes <- MCPulpOutcomes
  GreedyRisks <- MCGreedyRisks
  MaxRuns = 2
  N = 3
  T = 4
  Costs <- MCCosts
  Tightness <- MCTightness
  Pairs = {1, 2}
  Pressures <- MCPressures
INVARIANTS
  SummaryTellsTheFile
  InstancesDistinct
  ScriptSuccessMeansComplete
  ProofsAreProofs
  ExitCodeTellsTheFile
  OneSweepPropagates
PROPERTY StudiesComplete
