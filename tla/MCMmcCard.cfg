\* Both calls of flash_init, two boots, up to three faults; a card is up at the last poll
\* or before, and busy until the last poll or less.  The boot ends, so states without a
\* successor are expected.
CONSTANTS
  Kinds <- MCKinds
  Vendors <- MCVendors
  Wires = 4
  MaxWarm = 2
  OpTries = 2
  MaxBusy = 3
  StatusTries = 2
  MaxFaults = 3
  MaxBoots = 2
SPECIFICATION FairSpec
CHECK_DEADLOCK FALSE
INVARIANTS
  Safety
  ClockFitsCard
  WaitsWhileBusy
PROPERTIES
  DmaInitEnds
