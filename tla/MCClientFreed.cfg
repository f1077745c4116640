CONSTANTS
  c1 = c1
  c2 = c2
  c3 = c3
  Conns <- MCConns
  None = None
  NumFds = 4
  SetSize = 4
  MaxSend <- MCMaxSend
  Leaves <- MCLeaves
  MaxQuery = 1
  MaxClients = 2
SPECIFICATION Spec
INVARIANT NoFreedUnblocked
CHECK_DEADLOCK FALSE
