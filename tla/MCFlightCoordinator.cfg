CONSTANTS
  LaunchConfirm = 2
  ApogeeConfirm = 2
  DeploymentWait = 2
  MinStabilization = 2
  MaxStabilization = 4
  LandedConfirm = 3
  GpsLossTimeout = 3
  FlareEnabled = TRUE
  Samples <- FlightSamples
  LoopPeriods = {1, 2}
  AgeCap = 4
  MaxReboots = 1
SPECIFICATION FairSpec
INVARIANTS
  BrakesOnlyInHealthyDescent
  PhasesInOrder
  TimeoutsEnforced
  EvidenceIsHeeded
PROPERTIES
  ConfirmedByEvidence
  FallbackAvertsFailure
  ImplementsFlight
  WaitsEnd
