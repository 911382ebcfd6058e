SPECIFICATION Spec
CONSTANTS
  None = None
  Files <- MCFiles
  DependsOn <- MCDependsOn
  Policies <- MCPolicies
  Horizon = 3
  Crqc = 2
  RiskModel <- MCRiskModel
INVARIANTS
  MemoIsTransitive
  NoFalseAlarm
  RelaxationIsExact
  AlapIsFeasible
  NoAssetRestsOnRatedAlone
