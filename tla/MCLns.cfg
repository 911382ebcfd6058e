SPECIFICATION Spec
CONSTANTS
  None = None
  InstanceSet <- MCInstances
  MinDestroy = 1
  Neighborhoods = {0, 2, 4}
  Patience = 2
  MaxStall = 3
INVARIANTS
  PinsAreExact
  StallAtFullSizeMeansOptimal
PROPERTIES
  RefinesAnytime
