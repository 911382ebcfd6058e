SPECIFICATION PlanSpec
CONSTANTS
  None = None
  Requests <- MCRequests
  InstanceSet <- MCInstances
  Baselines = {"highest_risk"}
  RandomScores = {0}
  Crqc = 2
  RiskModel <- MCRiskModel
  MaxAssets = 3
  MaxT = 3
INVARIANTS
  NaiveFailsByMissingOnly
  MoreCapacityKeepsThePlan
  HalfTightnessPacks
