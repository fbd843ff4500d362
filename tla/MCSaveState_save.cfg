CONSTANTS
  Discs = {A, B}
  Slots <- MCSlots
  Kinds <- MCKinds
  MaxEvents = 3
SPECIFICATION Spec
SYMMETRY MCSymmetry
INVARIANTS AutosaveKept OnlyWholeApplied RestoreIntact
CHECK_DEADLOCK FALSE
