SPECIFICATION GCSpec
CONSTANTS
  a = a
  b = b
  c = c
  PagesPerBlock = 3
  BlocksPerChip = 2
  FilePage = 4
  U16 = 6
  U8 = 4
  MaskBits = 2
  CleanBits = 1
  Payload = {a}
  None = None
  SectorCnt = 3
  DPM_Pages_Per_Blk = 1
  BadBlockTables = {{}}
  Heap = {0}
  Prefilled = {}
  Garbage <- SomeGarbage
  Overread = FALSE
  BadOffset = 1
  Writes <- AllWrites
  MaxErases = 0
  MaxKills = 0
  MaxChurn = 2
INVARIANTS
  LiveDataAreMoved
CHECK_DEADLOCK FALSE
