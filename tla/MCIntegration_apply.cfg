CONSTANTS
  MaxRuns = 3
  MaxTorn = 2
  Bumps <- McBumps
SPECIFICATION ScriptSpec
INVARIANTS DoneMeansApplied Placement SameTree
CHECK_DEADLOCK FALSE
