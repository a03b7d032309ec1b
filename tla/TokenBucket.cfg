SPECIFICATION FairSpec
CONSTANTS
  Producer = {p1, p2}
  Consumer = {small, middle, full}
  small = small
  middle = middle
  full = full
  TakenMax = 4
  Demand <- DemandOf
  Rounds <- RoundsOf
  Tries = {1, 3}
  MayStop = {p1, small, full}
INVARIANTS
  FullIsNoticed
PROPERTIES
  AllServed
  StopReturns
CHECK_DEADLOCK FALSE
