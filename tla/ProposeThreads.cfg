SPECIFICATION FairSpec
CONSTANTS
  Node = {me, p, q}
  None = None
  Me = me
  Command = {a, b, other}
  Other = other
  Thread = {h1, h2}
  MaxTerm = 3
INVARIANTS
  AcceptedIsInLog
  CommitHasQuorum
  AppliedIsCommitted
PROPERTY ProposalReturns
CHECK_DEADLOCK FALSE
