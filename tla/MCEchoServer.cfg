CONSTANTS
  c1 = c1
  c2 = c2
  c3 = c3
  Conns <- MCConns
  NoConn = NoConn
  NumFds = 4
  SetSize = 3
  MaxSend <- MCMaxSend
  BufLen = 2
SPECIFICATION FairSpec
INVARIANT RegistrationInv FiredInv EchoInv
PROPERTY Reclaimed Answered
CHECK_DEADLOCK FALSE
