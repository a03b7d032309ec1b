SPECIFICATION FairSpec
CONSTANTS
  Reader = {r1, r2}
  Writer = {w1}
  Buffer = {b1, b2, b3}
  Chunks = 4
  None = None
  Torn = Torn
INVARIANTS
  BytesNeverMix
  TrueMeansComplete
  ReturnsClean
PROPERTY SliceReturns
CHECK_DEADLOCK FALSE
