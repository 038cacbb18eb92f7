CONSTANTS
  ManualTimeout = 3
  BenchTimeout = 2
  TiltTimeout = 3
  TiltDuration = 4
  ExtendHold = 1
  RetractSettle = 2
  Ticks = {1, 2}
  Leads = {0, 1}
  AgeCap = 11
SPECIFICATION PayloadSpec
INVARIANTS
  InertTestIsNeutral
  OneMovement
  BenchEndsAtLaunch
  MovementsExpire
PROPERTIES
  ImplementsRemoteMoves
