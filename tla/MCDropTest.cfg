CONSTANTS
  Config <- SmallConfig
  DropSamples <- SmallSamples
  Ticks = {1, 2}
  Leads = {0, 1}
  MaxTests = 2
  AgeCap = 3
SPECIFICATION FairSpec
INVARIANTS
  MilestonesInOrder
  EndSealsOnce
PROPERTIES
  MilestonesHadEvidence
  ImplementsStages
  RecordingEnds
