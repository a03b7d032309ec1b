SPECIFICATION FairTimerSpec
CONSTANTS
  Timer = {t1, t2}
  Delays = {1, 2}
  MaxEntries = 3
  MaxLate = 1
  None = None
INVARIANTS
  RunsPaidByStarts
PROPERTIES
  QuietOnceStopped
  DestructorReturns
  EntriesLeave
CHECK_DEADLOCK FALSE
