SPECIFICATION ParetoSpec
CONSTANTS
  None = None
  OfferSets <- MCOfferSets
  PointCounts = {0, 2, 3}
INVARIANTS
  FloorBracketed
  SpansTheTradeOff
  NoLessRiskForItsCost
