CONSTANTS
  TopTier = 5
  DowngradeThreshold = 3
  CellularDowngradeThreshold = 2
  UpgradeThreshold = 5
  StudioUpgradeThreshold = 10
  ProbeMaxBad = 1
  Asked = {1, 5}
SPECIFICATION Spec
INVARIANTS
  ProbeIsOneStepUp
  EncoderNearTier
PROPERTIES
  FallsAreEarned
  NoStudioOnCellular
  TierSteps
