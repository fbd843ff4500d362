SPECIFICATION Spec
CONSTANTS
  ChainMax = 1
  Keys <- McAll
  MaxKeys = 1
INVARIANTS
  PreDoneAfterPre
PROPERTIES
  ButtonIsCurrent
  Settles
  Answered
CHECK_DEADLOCK FALSE
