SPECIFICATION ThreadsSpec
CONSTANTS
  Node = {n1, n2, n3}
  None = None
  Command = {n1, n2, n3}
  Triggered = {n1, n2}
  Offers <- MCOffers
  Bounds <- MCBounds
  MaxLog = 2
  Gaps = {"append", "propose", "election", "save", "retry", "rename"}
INVARIANTS
  LeaderCompleteness
