CONSTANTS
  a1 = a1
  a2 = a2
  b1 = b1
  Main = Main
  Nobody = Nobody
  NumOps = 2
  MaxPending = 3
  MaxRounds = 3
  Workers <- MCWorkers
  TypeOf <- MCTypeOf
SPECIFICATION FairSpec
INVARIANT CountInv JobsInv HeapInv WakeupInv
PROPERTY ImplementsPool
