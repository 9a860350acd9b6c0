SPECIFICATION GCFairSpec
CONSTANTS
  a = a
  b = b
  c = c
  PagesPerBlock = 2
  BlocksPerChip = 2
  FilePage = 3
  U16 = 4
  U8 = 4
  MaskBits = 2
  CleanBits = 1
  Payload = {a}
  None = None
  SectorCnt = 2
  DPM_Pages_Per_Blk = 1
  BadBlockTables = {{}}
  Heap = {0}
  Prefilled = {2, 3}
  Garbage <- SomeGarbage
  Overread = FALSE
  BadOffset = 1
  Writes <- AllWrites
  MaxErases = 0
  MaxKills = 1
  MaxChurn = 2
PROPERTIES
  GcReturns
  RoomIsMade
CHECK_DEADLOCK FALSE
