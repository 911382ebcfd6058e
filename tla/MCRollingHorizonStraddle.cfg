SPECIFICATION Spec
CONSTANTS
  None = None
  InstanceSet <- MCInstances
  Tunings <- MCTunings
INVARIANT StraddlesEnforced
