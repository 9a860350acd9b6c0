SPECIFICATION GCSpec
CONSTANTS
  a = a
  b = b
  c = c
  PagesPerBlock = 3
  BlocksPerChip = 2
  FilePage = 4
  U16 = 6
  U8 = 4
  MaskBits = 2
  CleanBits = 1
  Payload = {a, b}
  None = None
  SectorCnt = 3
  DPM_Pages_Per_Blk = 1
  BadBlockTables = {{}}
  Heap = {0}
  Prefilled = {1, 2}
  Garbage <- SomeGarbage
  Overread = FALSE
  BadOffset = 3
  Writes <- TwoSectors
  MaxErases = 0
  MaxKills = 1
  MaxChurn = 1
INVARIANTS
  CommittedDataIntact
  CleanDataSurvives
SYMMETRY Payloads
CHECK_DEADLOCK FALSE
