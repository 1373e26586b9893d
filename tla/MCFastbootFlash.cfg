\* Every command, on a device that may fail any write.
CONSTANTS
  BlkSize = 2
  U32 = 20
  Lba = 20
  Parts <- MCParts
  Names <- MCNames
  Images <- MCImages
  DownloadMax = 12
  Faults = {"write"}
  MaxCmds = 5
\* The host stops after its last command.
CHECK_DEADLOCK FALSE
SPECIFICATION FastbootSpec
INVARIANTS
  FastbootTypeOK
  OneVerdict
PROPERTIES
  FlashStaysInside
  EraseCovers
  OkayMeansFlashed
