CONSTANTS
  Config <- SmallConfig
  DropSamples <- FewSamples
  Ticks = {1, 2}
  Leads = {0, 1}
  MaxTests = 1
  AgeCap = 3
SPECIFICATION Spec
PROPERTY AcceptedArmRecords
