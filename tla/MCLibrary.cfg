\* Two lists over four nodes and two values; strings of up to three bytes; files of up
\* to four lines.
SPECIFICATION MCSpec
CONSTANTS
  Node = {n1, n2, n3, n4}
  Value = {v1, v2}
  List = {l1, l2}
  NULL = NULL
  SLOTS = 1
  SDS_MAX_PREALLOC = 3
  STATIC_BUFFER = 2
  HEADER_SIZE = 8
  Texts <- MCTexts
  Args <- MCArgs
  Numbers <- MCNumbers
  Formats <- MCFormats
  CallBytes = {0, 65, 97}
  MaxLen = 3
SYMMETRY Symmetry
INVARIANT ListInv IterInv SdsInv RoundTripInv ConfigInv
PROPERTY ImplementsContents ImplementsBytes
CHECK_DEADLOCK FALSE
