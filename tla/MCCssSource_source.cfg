SPECIFICATION Spec
CONSTANTS
  Total = 8
  Vobs <- McVobs
  Pairs <- McPairs
  Scrambled = {2, 3, 5}
  Truths <- McTruths
  Counts = {4}
  Bads <- McBads
  Wears = {1, 7}
  MaxMirror = 3
  MaxWorn = 2
INVARIANTS NeverNoise ScrambledSeen NoStrayCrack WindowServed MirrorServes NeverBack
