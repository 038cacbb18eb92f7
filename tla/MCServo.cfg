SPECIFICATION ServoSpec
CONSTANTS
  AgeCap = 18
  Full = 4
  Limit <- MCLimit
  SlewRate = 1
  Refresh = 2
  Ticks <- MCTicks
  Commands <- MCCommands
  Calibrations <- MCCalibrations
  Default <- MCDefault
  Lowest = 4
  Highest = 20
  MaxSaves = 1
INVARIANTS
  PulsesWithinEnds
  CommandArrives
PROPERTIES
  MovesAreGradual
