SPECIFICATION FairSpec
CONSTANTS
  Node = {old, new, follower}
  None = None
  Command = {x, y, a, b}
  old = old
  new = new
  x = x
  y = y
  a = a
  b = b
  Thread = {h1, h2}
  Scenarios <- MCScenarios
INVARIANTS
  CommitWithinLog
  AppliedIsCommitted
  AckedStays
  GrantIsDue
PROPERTIES
  EffectIsWholeCall
  HandlerReturns
CHECK_DEADLOCK FALSE
