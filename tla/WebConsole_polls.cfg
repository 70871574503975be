CONSTANTS
  MaxInFlight = 3
  MaxCrashes = 2
SPECIFICATION Spec
CHECK_DEADLOCK FALSE
INVARIANTS
  BackOffBounded
  IndicatorTellsBackOff
PROPERTIES
  BackToNormal
