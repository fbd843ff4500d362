CONSTANTS
  Discs = {A, B}
  Slots <- MCSlots
  Kinds <- ResetKinds
  MaxEvents = 3
SPECIFICATION Spec
PROPERTY ActsOnPress
CHECK_DEADLOCK FALSE
