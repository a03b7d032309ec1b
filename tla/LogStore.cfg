SPECIFICATION Spec
CONSTANTS
  Candidate = {n1, n2}
  NoVote = NoVote
  NoFile = NoFile
  Torn = Torn
  Command = {x}
  MaxTerm = 2
  MaxIndex = 2
  CrashPoints = {"idle", "open", "write", "remove", "rename"}
  SaveMayFail = TRUE
INVARIANTS
  AlwaysSound
  SuccessIsDurable
PROPERTY ImplementsStableStore
