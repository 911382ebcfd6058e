SPECIFICATION PageSpec
CONSTANTS
  None = None
  enterprise = enterprise
  india = india
  cbom = cbom
  Samples = {enterprise, india}
  First = enterprise
  Upload = cbom
  SliderValues = {4, 9}
  SliderStart = 5
  SliderRange <- MCSliderRange
  OwnCapacity <- MCOwnCapacity
  DearestAsset <- MCDearestAsset
  MaxGestures = 4
INVARIANT SoloPlanMatchesControls
PROPERTY ComesToRest
