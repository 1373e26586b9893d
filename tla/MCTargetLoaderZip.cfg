\* Zip images: raw, fill and skip chunks in one image, on a device that may
\* fail any write or erase.
CONSTANTS
  BlkSize = 2
  FlashSize = 10
  BootSize = 2
  Faults = TRUE
  TmpBufSize = 6
  UpDataSize = 2
  DefPackLen = 1
  HdrSize = 1
  WordSize = 2
  U32 = 16
  U64 = 64
  ForceResp = FALSE
  StAddrs = {2}
  ImgLens = {9, 10}
  EraseLens = {}
  UpAddrs = {}
  UpLens = {}
  PktSizes = {3, 5}
  Zips = {1, 2}
  FillLens = {1, 8}
  SkipLens = {1, 2}
  BigOffsets = {}
  ShortLens = {}
  Partitions = {}
  MaxImages = 1
  MaxOffset = 0
SPECIFICATION Spec
INVARIANTS
  NoBufferOverflow
  StreamIsPlaced
PROPERTIES
  SyncMeansOnFlash
