\* Every command, in any order, around downloads with a short last packet and
\* uploads, over a serial line: fuses, partition names, offsets, erases, rejected
\* packets.
CONSTANTS
  BlkSize = 2
  FlashSize = 6
  BootSize = 2
  Faults = FALSE
  TmpBufSize = 4
  UpDataSize = 2
  DefPackLen = 1
  HdrSize = 1
  WordSize = 1
  U32 = 4
  U64 = 64
  ForceResp = TRUE
  StAddrs = {0}
  ImgLens = {5}
  EraseLens = {2}
  UpAddrs = {2}
  UpLens = {3}
  PktSizes = {2}
  Zips = {0}
  FillLens = {}
  SkipLens = {}
  BigOffsets = {2}
  ShortLens = {3}
  Partitions <- MCPartitions
  MaxImages = 2
  MaxOffset = 2
SPECIFICATION Spec
INVARIANTS
  TypeOK
  NothingLeftStaged
  CountdownAgrees
  UploadIsExact
PROPERTIES
  OnlyTheImageChanges
  UploadIsInOrder
