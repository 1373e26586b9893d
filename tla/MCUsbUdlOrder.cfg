\* A session with control transfers at any time and a second enumeration.
CONSTANTS
  MaxPkts = 4
  Answered <- MCAnswered
  MaxCtl = 2
  MaxResets = 2
\* The session ends when the host has no more packets.
CHECK_DEADLOCK FALSE
SPECIFICATION FairSpec
INVARIANTS
  TypeOK
  PacketsInOrder
  BufferIsStable
PROPERTIES
  SessionGoesOn
