\* The epoll descriptor, the listening socket and two more; the listening call and two more.
SPECIFICATION Spec
CONSTANTS
  Fd = {0, 1, 2, 3}
  ANET_ERR <- MCErr
  MaxAddrs = 2
  MaxCount = 2
  MaxCalls = 3
  REDIS_MIN_RESERVED_FDS = 2
  REDIS_EVENTLOOP_FDSET_INCR = 3
  DECR_STEP = 2
  ASSUMED_LIMIT = 4
  MaxClients = 3
  MaxFiles = 4
INVARIANT ReturnInv LeakInv FilesInv
CHECK_DEADLOCK FALSE
