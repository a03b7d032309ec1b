SPECIFICATION PoolSpec
CONSTANTS
  Requested = {4, 9}
  PointerSize = 8
  PerPage = 3
  Wrap = 256
  MaxPages = 2
  Null = Null
  Junk = Junk
INVARIANTS
  ListIsIntact
  BlocksAreApart
CHECK_DEADLOCK FALSE
