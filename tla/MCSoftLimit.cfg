CONSTANTS
  Chunk = 3
  EmbMax = 1
  Sizes = {0, 1, 2}
  Spares = {0, 1}
  SdsHeader = 1
  ListItem = 1
  HardLimit = 11
  SoftLimit = 7
  SoftSeconds = 1
  MaxPerEvent = 2
  MaxUnits = 6
  MaxNodes = 3
  MaxOpen = 2
  MaxNow = 3
SPECIFICATION HSpec
PROPERTY SoftLimitContinuous
CHECK_DEADLOCK FALSE
