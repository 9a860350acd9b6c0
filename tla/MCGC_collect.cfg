SPECIFICATION GCSpec
CONSTANTS
  a = a
  b = b
  c = c
  PagesPerBlock = 3
  BlocksPerChip = 2
  FilePage = 4
  U16 = 6
  U8 = 4
  MaskBits = 2
  CleanBits = 1
  Payload = {a, b, c}
  None = None
  SectorCnt = 3
  DPM_Pages_Per_Blk = 1
  BadBlockTables = {{}}
  Heap = {0}
  Prefilled = {}
  Garbage <- SomeGarbage
  Overread = FALSE
  BadOffset = 1
  Writes <- OwnContents
  MaxErases = 0
  MaxKills = 0
  MaxChurn = 2
INVARIANTS
  GCTypeOK
  CommittedDataIntact
  CleanDataSurvives
  CollectsOnlyWhenFull
  RoomAfterGC
  OverflowRepeats
CHECK_DEADLOCK FALSE
