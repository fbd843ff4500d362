SPECIFICATION FairSpec
CONSTANTS
  Cap = 3
  Burst = 2
  First = 1
  Behind = 1
  Slack = 1
  Retries = 1
  GenMod = 3
  Window = 2
  Total = 4
  Resets = 1
  Bad = {3}
  MayFail <- CssFails
  Reads <- CssReads
INVARIANTS
  RingCoherent
PROPERTIES
  RequestServed
  PortSpec
