\* A control transfer while a packet is being completed.
CONSTANTS
  MaxPkts = 3
  Answered <- MCAnswered
  MaxCtl = 1
  MaxResets = 1
\* The session ends when the host has no more packets.
CHECK_DEADLOCK FALSE
SPECIFICATION FairSpec
PROPERTIES
  QueueAdvances
