CONSTANTS
  Guided <- HoldGuided
  Flights <- Turns
  Positions = {4}
  Ticks = {1, 2}
  Skews = {0, 1}
  MaxGuidedTests = 1
  AgeCap = 3
SPECIFICATION GuidedSpec
INVARIANT CourseHoldIsBounded
PROPERTIES
  SteeringIsGradual
