SPECIFICATION FairSpec
CONSTANTS
  PagesPerBlock = 2
  BlocksPerChip = 4
  FilePage = 2
  U16 = 4
  MaskBits = 2
  Payload = {a}
  None = None
  SectorCnt = 1
  DPM_Pages_Per_Blk = 1
  BadBlockTables = {{}}
  Prefilled = {4, 5, 6, 7}
  Garbage <- SomeGarbage
  Overread = TRUE
  Heap = {0, 2, 3}
  BadOffset = 1
  Writes <- AllWrites
  MaxErases = 1
  MaxKills = 1
INVARIANTS
  CommittedDataIntact
PROPERTIES
  RoomIsFound
  MapIsBuilt
CHECK_DEADLOCK FALSE
