SPECIFICATION Spec
CONSTANTS
  PagesPerBlock = 2
  BlocksPerChip = 4
  FilePage = 2
  U16 = 4
  MaskBits = 2
  Payload = {a, b}
  None = None
  SectorCnt = 2
  DPM_Pages_Per_Blk = 1
  BadBlockTables = {{}, {1}}
  Prefilled = {4, 5, 6, 7}
  Garbage <- SomeGarbage
  Overread = FALSE
  Heap = {2, 3}
  BadOffset = 1
  Writes <- AllWrites
  MaxErases = 1
  MaxKills = 2
INVARIANTS
  TypeOK
  CommittedDataIntact
  AckedDurable
  ReadBack
PROPERTIES
  SectorStoreSpec
SYMMETRY Payloads
CHECK_DEADLOCK FALSE
