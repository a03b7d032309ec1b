SPECIFICATION Spec
CONSTANTS
  Node = {n1, n2, n3}
  None = None
  Command = {n1, n2, n3}
  Triggered = {n1, n2}
  Offers <- MCOffers
  Bounds <- MCBounds
  MaxLog = 2
INVARIANTS
  LogMatching
  LeaderCompleteness
  AcknowledgedIsDurable
  AppliedIsCommitted
PROPERTIES
  ImplementsReplicatedLog
SYMMETRY Symmetry
VIEW View
