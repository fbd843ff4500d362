SPECIFICATION FairSpec
CONSTANTS
  Sec <- McSec
  Last = 4
  Coalesce = 0
  FreshTo = 8
  MaxNet = 2
  Tick = 0
  FlushLen = 4
  MaxEvents = 3
INVARIANTS LoopSeekIsA NoStorm NoStaleJump SeekKeepsTitle
PROPERTY ResolveEnds
