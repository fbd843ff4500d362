CONSTANTS
  Discs <- McDiscs
  JumpFuse = 6
  EvalFuse = 8
SPECIFICATION VmSpec
INVARIANTS BadLinkStaysInMenus ToggleGivesBack GuessCostsNothing
PROPERTY EventReturns
