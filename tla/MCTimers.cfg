CONSTANTS
  MaxIds = 3
  MaxNow = 8
  MaxSkews = 1
  Second = 3
  Delays = {1, 4}
SPECIFICATION TimersFairSpec
INVARIANT CursorInv NotOverslept
PROPERTY NeverEarly DueTimersRun
