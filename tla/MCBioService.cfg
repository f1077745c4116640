\* Two types of jobs, two jobs, one resizable buffer of main's.
SPECIFICATION Spec
CONSTANTS
  NumOps = 2
  MaxJobs = 2
  Main = Main
  Nobody = Nobody
  JobSize = 32
  NodeSize = 24
  BufferSize = 3
  MaxBufferCalls = 2
INVARIANT AnswerInv HeadInv UsedInv
PROPERTY ImplementsPool
CHECK_DEADLOCK FALSE
