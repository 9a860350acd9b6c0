SPECIFICATION Spec
CONSTANTS
  PagesPerBlock = 2
  BlocksPerChip = 4
  FilePage = 2
  U16 = 4
  MaskBits = 2
  Payload = {a, b}
  None = None
  SectorCnt = 1
  DPM_Pages_Per_Blk = 1
  BadBlockTables = {{}}
  Prefilled = {4, 5, 6, 7}
  Garbage <- SomeGarbage
  Overread = FALSE
  Heap = {0, 1, 2, 3}
  BadOffset = 1
  Writes <- AllWrites
  MaxErases = 0
  MaxKills = 0
PROPERTIES
  OverwrittenPageIsDirty
