SPECIFICATION FairTimerSpec
CONSTANTS
  Timer = {soon, beat, later}
  soon = soon
  beat = beat
  later = later
  Timeout <- TimeoutOf
  Repeats = {beat}
  Worker = {w1, w2}
  MaxBacklog = 2
INVARIANTS
  OneShot
  QuietOnceRemoved
  NothingIsDropped
PROPERTIES
  StopReturns
  TimersFire
CHECK_DEADLOCK FALSE
