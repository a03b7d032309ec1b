SPECIFICATION Spec
CONSTANTS
  Node = {n1, n2, n3}
  None = None
  Triggered = {n1, n2}
  MaxTerm = 2
  Overlap = FALSE
INVARIANTS
  VoteOnce
  ElectionSafety
PROPERTY PromiseKept
SYMMETRY Symmetry
