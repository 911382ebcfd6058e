SPECIFICATION ProfileSpec
CONSTANTS
  Nothing = Nothing
  Runs = {r1, r2}
  ReviewAfter = 1
  MaxDay = 3
  MaxMerges = 2
INVARIANT WarningAgreesWithWatchdog
PROPERTIES
  OverdueIsReported
  HeadIsServed
