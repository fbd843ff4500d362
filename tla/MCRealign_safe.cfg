SPECIFICATION FairSpec
CONSTANTS
  FlushLen <- MCFlushLen
  Wdog <- MCWdog
  MaxEvents = 4
INVARIANT TrioRule
INVARIANT StaleOnlyInRace
PROPERTY NoLostFlush
