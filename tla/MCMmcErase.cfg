\* Erases of the boot partition, across it, of the user area and beyond its
\* end, with reads and writes between them; every command may fail, and the
\* board may be reset at any point.
CONSTANTS
  Lba = 5
  BootBlks = 2
  BMax = 2
  EraseGrp = 2
  Spans <- MCTwoSpans
  EraseSpans <- MCEraseSpans
  RawSpans <- MCRawSpans
  SwitchFaults = TRUE
  IoFaults = TRUE
  MaxOps = 3
SPECIFICATION FairSpec
INVARIANTS
  PartNumIsOpen
PROPERTIES
  BootsWhatWasWritten
  EraseHitsItsRange
  CallsEnd
