SPECIFICATION FairSpec
CONSTANTS
  ScanPeriod <- MCScanPeriod
  ForeignPeriod <- MCForeignPeriod
  MaxPeriod <- MCMaxPeriod
  SpinTime <- MCSpinTime
  Prompt = FALSE
  MaxEjects = 2
  Unmounts = TRUE
INVARIANT Ownership
INVARIANT RefusedStaysOut
PROPERTY ImageSafe
PROPERTY Played
