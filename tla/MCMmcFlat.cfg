\* Reads and writes of the boot partition and of the user area, in range and
\* beyond it; every transfer may fail, the board may be reset at any point.
CONSTANTS
  Lba = 5
  BootBlks = 2
  BMax = 2
  EraseGrp = 2
  Spans <- MCSpans
  EraseSpans = {}
  RawSpans = {}
  SwitchFaults = FALSE
  IoFaults = TRUE
  MaxOps = 3
SPECIFICATION Spec
INVARIANTS
  TypeOK
PROPERTIES
  ImplementsFlatDisk
