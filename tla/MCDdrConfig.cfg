\* Four boots, an update, two failing reads and a failing write.  After the last boot
\* the board stays off.
CONSTANTS
  BlkSz = 2
  HdrLen = 1
  InitLen = 3
  DqsLen = 3
  Boards <- MCBoards
  MaxReadFaults = 2
  MaxWriteFaults = 1
  MaxBoots = 4
  MaxFw = 2
SPECIFICATION Spec
CHECK_DEADLOCK FALSE
INVARIANTS
  Safety
  TrainsOnlyWhenNeeded
PROPERTIES
  SaveIsAtomic
