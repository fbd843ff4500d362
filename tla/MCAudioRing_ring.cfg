SPECIFICATION FairSpec
CONSTANTS
  ByteDepth = 9
  FrameDepth = 2
  ByteRoom = 1
  FrameRoom = 1
  SpliceLen = 1
  InFlight = 1
  BpWd = 2
  Mutes = FALSE
  MaxLen = 3
  MaxFrames = 5
  MaxEvents = 1
INVARIANT ReadsItsFrame
INVARIANT SpliceUnheard
PROPERTY LossOnlyUnattended
PROPERTY AsQueue
PROPERTY NeverWedged
