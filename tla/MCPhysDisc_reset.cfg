SPECIFICATION Spec
CONSTANTS
  ScanPeriod <- MCScanPeriod
  ForeignPeriod <- MCForeignPeriod
  MaxPeriod <- MCMaxPeriod
  SpinTime <- MCSpinTime
  Prompt = TRUE
  MaxEjects = 1
  Unmounts = FALSE
INVARIANT InsertionWins
