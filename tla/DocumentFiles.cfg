SPECIFICATION SpecOfParts
CONSTANTS
  u1 = u1
  u2 = u2
  Uploads <- Two
  Digest <- SameBytes
  Converted <- Text
  MaxFaults = 2
  a = a
  b = b
  c = c
  g1 = g1
  g2 = g2
  g3 = g3
  Callers <- Three
  Gates <- ThreeGates
  NoGate = NoGate
  Nobody = Nobody
INVARIANT PurgedLeavesNothing
INVARIANT DInv
PROPERTY OnlyOwnBytesGo
PROPERTY EveryPurgeEnds
PROPERTY LockSpec
PROPERTY WaitersGetOn
