CONSTANTS
  Guided <- SmallGuided
  Flights <- Faults
  Positions = {0, 2, 4, 8}
  Ticks = {1, 2}
  Skews = {0, 1}
  MaxGuidedTests = 1
  AgeCap = 3
SPECIFICATION GuidedSpec
INVARIANTS
  SteersOnlyAfterGates
  LossIsBounded
PROPERTIES
  FirstSteeringIsConfirmed
  JumpNeedsRecovery
