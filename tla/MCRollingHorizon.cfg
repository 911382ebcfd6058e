SPECIFICATION Spec
CONSTANTS
  None = None
  InstanceSet <- MCInstances
  Tunings <- MCTunings
INVARIANTS
  CommittedSound
  OnlyLateStartersAreLeftBehind
  OneWindowIsExact
PROPERTY RefinesAnytime
