CONSTANTS
  Queries <- MCQueries
  IoBufLen = 4
  BigArg = 6
  InlineMax = 12
  MaxQuery = 30
  MaxArgs = 3
  MaxBulk = 16
SPECIFICATION InputSpec
INVARIANT ClosedByPeer
CHECK_DEADLOCK FALSE
