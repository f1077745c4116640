CONSTANTS
  Queries <- MCQueries
  IoBufLen = 4
  BigArg = 6
  InlineMax = 12
  MaxQuery = 30
  MaxArgs = 3
  MaxBulk = 16
SPECIFICATION InputFairSpec
INVARIANT CutInv ErrorInv AssertInv
PROPERTY Served ImplementsRequests
CHECK_DEADLOCK FALSE
