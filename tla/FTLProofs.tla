------------------------------ MODULE FTLProofs ------------------------------
(***************************************************************************)
(* Theorems about FTL, for every geometry of the chip, every number of     *)
(* sectors and every number of deaths and erasures.                        *)
(***************************************************************************)
EXTENDS FTL, NandPagesProofs, FiniteSetTheorems

-----------------------------------------------------------------------------
(* Words, tags and chip images.                                            *)

LEMMA Words ==
  /\ U16 \in Nat \ {0}
  /\ U32 \in Nat \ {0}
  /\ MAX32 \in 0 .. MAX32
  /\ MAX16 \in PageNumbers
  /\ PageNumbers \subseteq Pages
  /\ \A n \in Nat : n % U16 \in PageNumbers /\ n % U32 \in 0 .. MAX32
<1>1. U16 \in Nat \ {0}
  BY NandAssumption
<1>2. U32 \in Nat \ {0}
  BY <1>1 DEF U32
<1>3. ASSUME NEW n \in Nat
      PROVE  n % U16 \in PageNumbers /\ n % U32 \in 0 .. MAX32
  BY <1>1, <1>2, QuotientRemainder DEF PageNumbers, MAX16, MAX32
<1>4. PageNumbers \subseteq Pages
  BY <1>1, FTLAssumption, Sizes DEF PageNumbers, MAX16, Pages
<1>5. QED
  BY <1>1, <1>2, <1>3, <1>4 DEF PageNumbers, MAX16, MAX32

Image == [PhysicalPages -> Content]

LEMMA ErasedTypes ==
  /\ ErasedTag \in Tag
  /\ ErasedPage \in Content
  /\ ErasedTag.bi = Clear /\ ErasedTag.used = Clear /\ ErasedTag.dirty = Clear
  /\ \A v \in Payload : TagOf(v) \in Tag
  /\ \A t \in Tag : [t EXCEPT !.bi = Set] \in Tag
  /\ \A t \in Tag : [t EXCEPT !.bi = Clear] \in Tag
  /\ \A n \in 0 .. MAX32 : [ErasedTag EXCEPT !.erase = n] \in Tag
  BY Words DEF ErasedTag, ErasedPage, Content, Tag, TagOf, Flag

LEMMA TornTagTypes ==
  ASSUME NEW old \in Tag, NEW new \in Tag, NEW tag \in TornTags(old, new)
  PROVE  /\ tag \in Tag
         /\ tag.bi \in {old.bi, new.bi}
         /\ tag.used \in {old.used, new.used}
  BY DEF TornTags, Tag

LEMMA Accesses ==
  ASSUME NEW image \in Image, NEW p \in Pages
  PROVE  /\ ReadSpare(image, p) \in Tag
         /\ ReadSpare(image, p).erase \in Nat
         /\ ReadSpare(image, p) = image[Skew(p)].tag
         /\ ReadData(image, p) = image[Skew(p)].data
<1>1. image[Skew(p)] \in Content
  BY SkewInFile DEF Image
<1>2. image[Skew(p)].tag \in Tag
  BY <1>1 DEF Content
<1>3. \A t \in Tag : t.erase \in Nat
  BY Words DEF Tag
<1>4. QED
  BY <1>2, <1>3 DEF ReadSpare, ReadData

\* Replacing the tag of a physical page, or its data, leaves the rest alone.
LEMMA TagReplaced ==
  ASSUME NEW image \in Image, NEW f \in PhysicalPages, NEW tag \in Tag
  PROVE  /\ [image EXCEPT ![f].tag = tag] \in Image
         /\ [image EXCEPT ![f].tag = tag][f].tag = tag
         /\ [image EXCEPT ![f].tag = tag][f].data = image[f].data
         /\ \A g \in PhysicalPages : g # f => [image EXCEPT ![f].tag = tag][g] = image[g]
<1>1. image[f] \in Content
  BY DEF Image
<1>2. [image[f] EXCEPT !.tag = tag] \in Content
  BY <1>1 DEF Content
<1>3. [image EXCEPT ![f].tag = tag] = [image EXCEPT ![f] = [image[f] EXCEPT !.tag = tag]]
  BY DEF Image
<1>4. [image[f] EXCEPT !.tag = tag].tag = tag
      /\ [image[f] EXCEPT !.tag = tag].data = image[f].data
  BY <1>1 DEF Content
<1>5. QED
  BY <1>2, <1>3, <1>4 DEF Image

LEMMA DataReplaced ==
  ASSUME NEW image \in Image, NEW f \in PhysicalPages,
         NEW data \in Payload \cup {Erased, Partial}
  PROVE  /\ [image EXCEPT ![f].data = data] \in Image
         /\ [image EXCEPT ![f].data = data][f].data = data
         /\ [image EXCEPT ![f].data = data][f].tag = image[f].tag
         /\ \A g \in PhysicalPages : g # f => [image EXCEPT ![f].data = data][g] = image[g]
<1>1. image[f] \in Content
  BY DEF Image
<1>2. [image[f] EXCEPT !.data = data] \in Content
  BY <1>1 DEF Content
<1>3. [image EXCEPT ![f].data = data] = [image EXCEPT ![f] = [image[f] EXCEPT !.data = data]]
  BY DEF Image
<1>4. [image[f] EXCEPT !.data = data].data = data
      /\ [image[f] EXCEPT !.data = data].tag = image[f].tag
  BY <1>1 DEF Content
<1>5. QED
  BY <1>2, <1>3, <1>4 DEF Image

LEMMA BlockErased ==
  ASSUME NEW image \in Image, NEW blk \in Blocks
  PROVE  /\ EraseBlock(image, FirstPage(blk)) \in Image
         /\ \A f \in PhysicalPages :
              EraseBlock(image, FirstPage(blk))[f] =
                IF f \in ErasedBy(FirstPage(blk)) THEN ErasedPage ELSE image[f]
  BY ErasedTypes DEF EraseBlock, Image

\* NAND_MarkBadBlock writes inside the file, although not inside the block.
LEMMA MarkedPage ==
  ASSUME NEW blk \in Blocks
  PROVE  BadMark(blk) \in PhysicalPages
<1>1. blk * PagesPerBlock \in Nat /\ blk * PagesPerBlock + PagesPerBlock <= PagesPerChip
  BY BlockInChip
<1>2. BadOffset \in Nat /\ BadOffset < FilePage
  BY FTLAssumption, NandAssumption
<1>3. BadMark(blk) = blk * PagesPerBlock + BadOffset
  BY <1>1, <1>2, ConvertIsIdentity DEF BadMark, PageAddr
<1>4. QED
  BY <1>1, <1>2, <1>3, Sizes, NandAssumption DEF PhysicalPages

LEMMA DPMPageNumber ==
  ASSUME NEW n \in PageNumbers
  PROVE  n \div DPM_Pages_Per_Blk \in PageNumbers
<1>1. n \in Nat /\ n <= MAX16 /\ MAX16 \in Nat
  BY Words DEF PageNumbers
<1>2. DPM_Pages_Per_Blk \in Nat \ {0}
  BY FTLAssumption
<1>3. n \div DPM_Pages_Per_Blk \in 0 .. n
  BY <1>1, <1>2, QuotientBound
<1>4. QED
  BY <1>1, <1>3 DEF PageNumbers

-----------------------------------------------------------------------------
(* Types.                                                                  *)

LEMMA PcValues ==
  /\ Storing \cap Erasing = {}
  /\ {"off", "up", "dpm", "idle", "gc", "abort", "mark", "hung"} \cap (Storing \cup Erasing) = {}
  BY DEF Storing, Erasing

LEMMA ReturnedTypes ==
  ASSUME NEW nextpc \in {"off", "up", "idle"}, Returned(nextpc)
  PROVE  /\ pc' = nextpc
         /\ sector' \in Sectors
         /\ payload' = None
         /\ Page_Addr' \in PageNumbers
         /\ EraseTime_MIN' \in PageNumbers
         /\ m16i_Blk' \in 0 .. BlocksPerChip
<1>1. 0 \in Sectors
  BY FTLAssumption DEF Sectors
<1>2. 0 \in PageNumbers /\ MAX16 \in PageNumbers
  BY Words DEF PageNumbers, MAX16
<1>3. 0 \in 0 .. BlocksPerChip
  BY NandAssumption
<1>4. QED
  BY <1>1, <1>2, <1>3 DEF Returned

LEMMA TypeInit ==
  Init => TypeOK
<1> SUFFICES ASSUME Init PROVE TypeOK
  OBVIOUS
<1> USE DEF Init
<1>1. flash \in [PhysicalPages -> Content]
  <2>1. PICK v \in Payload :
          LET inUse == [data |-> v, tag |-> [ErasedTag EXCEPT !.used = Set, !.ecc = v]]
          IN  flash = [f \in PhysicalPages |->
                IF \E p \in Prefilled : Skew(p) = f THEN inUse ELSE ErasedPage]
    OBVIOUS
  <2>2. [data |-> v, tag |-> [ErasedTag EXCEPT !.used = Set, !.ecc = v]] \in Content
    BY ErasedTypes, Words DEF ErasedTag, Content, Tag, Flag
  <2>3. QED
    BY <2>1, <2>2, ErasedTypes
<1>2. BBT_BlkNum \in SUBSET Blocks
  BY FTLAssumption
<1>3. 0 \in PageNumbers /\ MAX16 \in PageNumbers /\ 0 \in 0 .. BlocksPerChip
  BY Words, NandAssumption DEF PageNumbers, MAX16
<1>4. 0 \in Sectors
  BY FTLAssumption DEF Sectors
<1>5. 0 \in PhysicalPages
  BY Sizes, NandAssumption DEF PhysicalPages
<1>6. pc = "off" /\ pc \notin Storing /\ pc \notin Erasing
  BY DEF Storing, Erasing
<1>7. QED
  BY <1>1, <1>2, <1>3, <1>4, <1>5, <1>6, ErasedTypes DEF TypeOK, VarTypes

\* The entries of the page map are uint16_t numbers (Read_DPM).
LEMMA MapTypes ==
  ASSUME VarTypes, m16i_Blk \in Blocks, DPM_Block
  PROVE  DPM_Table' \in [Sectors -> PageNumbers] /\ PageCnt' \in PageNumbers
<1> DEFINE inUse == {p \in PagesOf(m16i_Blk) :
                       LET tag == ReadSpare(flash, p)
                       IN  tag.used # Clear /\ tag.dirty = Clear}
           entry(p) == (PageCnt + Cardinality({q \in inUse : q < p})) % U16
<1>1. inUse \subseteq Pages /\ Pages \subseteq Nat
  BY BlockInChip, Sizes
<1>2. Cardinality(inUse) \in Nat
  <2>1. m16i_Blk * PagesPerBlock \in Nat
    BY BlockInChip
  <2>2. IsFiniteSet(PagesOf(m16i_Blk))
    BY <2>1, NandAssumption, FS_Interval DEF PagesOf
  <2>3. inUse \subseteq PagesOf(m16i_Blk)
    OBVIOUS
  <2>4. QED
    BY <2>2, <2>3, FS_Subset, FS_CardinalityType
<1>3. PageCnt' = (PageCnt + Cardinality(inUse)) % U16
  BY DEF DPM_Block
<1>4. PICK good \in SUBSET inUse :
        DPM_Table' = [k \in Sectors |->
          IF \E p \in good : entry(p) = k
            THEN ((CHOOSE p \in good : entry(p) = k) \div DPM_Pages_Per_Blk) % U16
            ELSE DPM_Table[k]]
  BY DEF DPM_Block, pageOP_Read
<1>5. ASSUME NEW k \in Sectors, \E p \in good : entry(p) = k
      PROVE  ((CHOOSE p \in good : entry(p) = k) \div DPM_Pages_Per_Blk) % U16 \in PageNumbers
  <2> DEFINE c == CHOOSE p \in good : entry(p) = k
  <2>1. c \in good
    <3> HIDE DEF entry
    <3>1. QED
      BY <1>5
  <2> HIDE DEF c
  <2>2. c \in Nat
    BY <1>1, <2>1
  <2>3. c \div DPM_Pages_Per_Blk \in Nat
    BY <2>2, FTLAssumption, QuotientRemainder
  <2>4. (c \div DPM_Pages_Per_Blk) % U16 \in PageNumbers
    BY <2>3, Words
  <2>5. QED
    BY <2>4 DEF c
<1>6. \A k \in Sectors : DPM_Table[k] \in PageNumbers
  BY DEF VarTypes
<1>7. PageCnt \in Nat
  BY DEF VarTypes, PageNumbers
<1>8. PageCnt' \in PageNumbers
  <2> HIDE DEF inUse
  <2>1. QED
    BY <1>2, <1>3, <1>7, Words
<1>9. DPM_Table' \in [Sectors -> PageNumbers]
  <2> HIDE DEF entry, inUse
  <2>1. QED
    BY <1>4, <1>5, <1>6
<1>10. QED
  BY <1>8, <1>9

\* Dynamic_WL keeps the number of the page and its erase count in a uint16_t.
LEMMA TakeTypes ==
  ASSUME VarTypes, NEW p \in Pages, Take(p)
  PROVE  /\ Page_Addr' \in PageNumbers
         /\ EraseTime_MIN' \in PageNumbers
         /\ wrapped' \in BOOLEAN
<1>1. p \in Nat
  BY Sizes
<1>2. ReadSpare(flash, p).erase \in Nat
  BY Accesses DEF VarTypes, Image
<1>3. QED
  BY <1>1, <1>2, Words DEF Take

LEMMA StopsInChip ==
  ASSUME m16i_Blk \in Blocks
  PROVE  FirstOf(Stops1) \subseteq Pages /\ FirstOf(Stops2) \subseteq Pages
  BY BlockInChip DEF Stops1, Stops2, FirstOf

LEMMA ErasedInFile ==
  ASSUME NEW blk \in Blocks
  PROVE  /\ ErasedBy(FirstPage(blk)) = PagesOf(blk)
         /\ PagesOf(blk) \subseteq PhysicalPages
<1>1. Pages \subseteq PhysicalPages
  BY Sizes, NandAssumption DEF Pages, PhysicalPages
<1>2. QED
  BY <1>1, ErasedIsBlock, BlockInChip DEF FirstPage

\* What a death leaves of a tag that was being replaced, or of a block that was
\* being erased, is a chip image.
LEMMA TornImage ==
  ASSUME flash \in Image, torn \subseteq PhysicalPages,
         NEW f \in PhysicalPages, NEW new \in Tag, TornTag(f, new)
  PROVE  flash' \in Image /\ torn' \subseteq PhysicalPages
<1>1. flash[f].tag \in Tag
  BY DEF Image, Content
<1>2. PICK tag \in TornTags(flash[f].tag, new) :
        /\ flash' = [flash EXCEPT ![f].tag = tag]
        /\ torn' = IF tag \in {flash[f].tag, new} THEN torn ELSE torn \cup {f}
  BY DEF TornTag
<1>3. tag \in Tag
  BY <1>1, TornTagTypes
<1>4. QED
  BY <1>2, <1>3, TagReplaced

LEMMA HalfErased ==
  ASSUME flash \in Image, torn \subseteq PhysicalPages, m16i_Blk \in Blocks, TornErase
  PROVE  flash' \in Image /\ torn' \subseteq PhysicalPages
<1>1. ErasedBy(FirstPage(m16i_Blk)) \subseteq PhysicalPages
  BY ErasedInFile
<1>2. PICK done \in SUBSET ErasedBy(FirstPage(m16i_Blk)), f \in ErasedBy(FirstPage(m16i_Blk)) :
        \E tag \in TornTags(flash[f].tag, ErasedTag) :
          /\ flash' = [g \in PhysicalPages |->
                         IF g = f THEN [data |-> Partial, tag |-> tag]
                         ELSE IF g \in done THEN ErasedPage ELSE flash[g]]
          /\ torn' = (torn \ done) \cup {f}
  BY DEF TornErase
<1>3. PICK tag \in TornTags(flash[f].tag, ErasedTag) :
          /\ flash' = [g \in PhysicalPages |->
                         IF g = f THEN [data |-> Partial, tag |-> tag]
                         ELSE IF g \in done THEN ErasedPage ELSE flash[g]]
          /\ torn' = (torn \ done) \cup {f}
  BY <1>2
<1>4. flash[f].tag \in Tag
  BY <1>1 DEF Image, Content
<1>5. tag \in Tag
  BY <1>4, ErasedTypes, TornTagTypes
<1>6. [data |-> Partial, tag |-> tag] \in Content
  BY <1>5 DEF Content
<1>7. QED
  BY <1>1, <1>3, <1>6, ErasedTypes DEF Image

LEMMA VarStep ==
  ASSUME VarTypes, [Next]_vars, pc = "scan2" /\ pc' = "program" => payload \in Payload
  PROVE  VarTypes'
<1> USE DEF mapVars, scanVars, eraseVars, history
<1>a. flash \in Image /\ flash \in [PhysicalPages -> Content]
  BY DEF VarTypes, Image
<1>b. 0 \in PageNumbers /\ MAX16 \in PageNumbers /\ 0 \in 0 .. BlocksPerChip
      /\ BlocksPerChip \in Nat
  BY Words, NandAssumption DEF PageNumbers, MAX16
<1>c. Blocks \subseteq 0 .. BlocksPerChip /\ \A b \in Blocks : b + 1 \in 0 .. BlocksPerChip
  BY <1>b DEF Blocks
<1>d. UNCHANGED BBT_BlkNum => BBT_BlkNum' \in SUBSET Blocks
  BY DEF VarTypes
<1>1. CASE UNCHANGED vars
  BY <1>1 DEF VarTypes, vars
<1>2. ASSUME PowerOn, UNCHANGED <<BBT_BlkNum, kills>> PROVE VarTypes'
  BY <1>2 DEF PowerOn, VarTypes, Storing, Erasing
<1>3. ASSUME DPM_Malloc, UNCHANGED <<BBT_BlkNum, kills>> PROVE VarTypes'
  BY <1>3, <1>b, FTLAssumption DEF DPM_Malloc, PageNumbers, VarTypes, Storing, Erasing
<1>4. ASSUME Create_DPM, UNCHANGED <<BBT_BlkNum, kills>> PROVE VarTypes'
  <2>1. DPM_Table' \in [Sectors -> PageNumbers] /\ PageCnt' \in PageNumbers
    BY <1>4, MapTypes DEF Create_DPM, VarTypes
  <2>2. m16i_Blk' \in 0 .. BlocksPerChip /\ pc' \in {"dpm", "idle"}
    BY <1>4, <1>b, <1>c DEF Create_DPM
  <2>3. QED
    BY <1>4, <2>1, <2>2 DEF Create_DPM, VarTypes, Storing, Erasing
<1>5. ASSUME NEW s \in Sectors, NEW v \in Payload, Get_Useful_WPage(s, v),
             UNCHANGED <<BBT_BlkNum, kills>>
      PROVE  VarTypes'
  <2>1. Page_Addr' \in PageNumbers /\ m16i_Blk' \in 0 .. BlocksPerChip
        /\ pc' \in {"program", "scan1"}
    BY <1>5, <1>b DEF Get_Useful_WPage, VarTypes, Erasing
  <2>2. QED
    BY <1>5, <2>1 DEF Get_Useful_WPage, VarTypes, Storing, Erasing
<1>6. ASSUME MeetBadPage, UNCHANGED <<BBT_BlkNum, kills>> PROVE VarTypes'
  <2>1. Page_Addr \in PageNumbers /\ m16i_Blk \in Blocks /\ pc' = "mark"
    BY <1>6 DEF MeetBadPage, VarTypes, Erasing
  <2>2. QED
    BY <1>6, <2>1 DEF MeetBadPage, VarTypes, Storing, Erasing
<1>6m. ASSUME MarkBlockBad, UNCHANGED <<BBT_BlkNum, kills>> PROVE VarTypes'
  <2>1. PICK tag \in Tag : flash' = [flash EXCEPT ![BadMark(m16i_Blk)].tag = tag]
    BY <1>6m, GarbageAssumption DEF MarkBlockBad, NAND_MarkBadBlock
  <2>2. BadMark(m16i_Blk) \in PhysicalPages
    BY <1>6m, MarkedPage DEF MarkBlockBad, VarTypes
  <2>3. flash' \in [PhysicalPages -> Content]
    BY <1>a, <2>1, <2>2, TagReplaced DEF Image
  <2>4. /\ Page_Addr \in PageNumbers /\ m16i_Blk \in 0 .. BlocksPerChip
        /\ pc' \notin Erasing \cup {"mark"}
    BY <1>6m, NandAssumption DEF MarkBlockBad, NAND_BuildBBT, VarTypes, Erasing, Blocks
  <2>5. QED
    BY <1>6m, <2>3, <2>4 DEF MarkBlockBad, NAND_BuildBBT, VarTypes, Storing, Erasing
<1>7. ASSUME ScanFirst, UNCHANGED <<BBT_BlkNum, kills>> PROVE VarTypes'
  <2>1. /\ Page_Addr' \in PageNumbers
        /\ EraseTime_MIN' \in PageNumbers
        /\ wrapped' \in BOOLEAN
    <3>1. CASE UNCHANGED <<Page_Addr, EraseTime_MIN, wrapped>>
      BY <1>7, <3>1 DEF ScanFirst, VarTypes, Erasing
    <3>2. CASE \E p \in FirstOf(Stops1) : Take(p)
      BY <1>7, <3>2, TakeTypes, StopsInChip DEF ScanFirst
    <3>3. QED
      BY <1>7, <3>1, <3>2 DEF ScanFirst
  <2>2. m16i_Blk' \in 0 .. BlocksPerChip /\ pc' \in {"scan1", "scan2"}
    BY <1>7, <1>b, <1>c DEF ScanFirst
  <2>3. QED
    BY <1>7, <2>1, <2>2 DEF ScanFirst, VarTypes, Storing, Erasing
<1>8. ASSUME FTL_GC, UNCHANGED <<BBT_BlkNum, kills>> PROVE VarTypes'
  BY <1>8, <1>b DEF FTL_GC, VarTypes, Storing, Erasing
<1>9. ASSUME ScanYounger, UNCHANGED <<BBT_BlkNum, kills>> PROVE VarTypes'
  <2>1. /\ Page_Addr' \in PageNumbers
        /\ EraseTime_MIN' \in PageNumbers
        /\ wrapped' \in BOOLEAN
    <3>1. CASE UNCHANGED <<Page_Addr, EraseTime_MIN, wrapped>>
      BY <1>9, <3>1 DEF ScanYounger, VarTypes, Erasing
    <3>2. CASE \E p \in FirstOf(Stops2) : Take(p)
      BY <1>9, <3>2, TakeTypes, StopsInChip DEF ScanYounger
    <3>3. QED
      BY <1>9, <3>1, <3>2 DEF ScanYounger
  <2>2. m16i_Blk' \in 0 .. BlocksPerChip
    BY <1>9, <1>c DEF ScanYounger
  <2>3. QED
    BY <1>9, <2>1, <2>2 DEF ScanYounger, VarTypes, Storing, Erasing
<1>10. ASSUME Get_FreeDPage, UNCHANGED <<BBT_BlkNum, kills>> PROVE VarTypes'
  <2>1. Page_Addr \div DPM_Pages_Per_Blk \in PageNumbers
    BY <1>10, DPMPageNumber DEF Get_FreeDPage, VarTypes, Erasing
  <2>2. DPM_Table' \in [Sectors -> PageNumbers]
    BY <1>10, <2>1 DEF Get_FreeDPage, VarTypes
  <2>3. CASE pc' = "program"
    BY <1>10, <1>b, <2>1, <2>2, <2>3 DEF Get_FreeDPage, Returned, VarTypes, Storing, Erasing
  <2>4. CASE Returned("idle")
    BY <1>10, <2>2, <2>4, ReturnedTypes DEF Get_FreeDPage, VarTypes, Storing, Erasing
  <2>5. QED
    BY <1>10, <2>3, <2>4 DEF Get_FreeDPage
<1>11. ASSUME WritePageData, UNCHANGED <<BBT_BlkNum, kills>> PROVE VarTypes'
  <2>1. Skew(Page_Addr) \in PhysicalPages
    BY <1>11, Words, SkewInFile DEF WritePageData, VarTypes, Erasing
  <2>2. payload \in Payload
    BY <1>11 DEF WritePageData, VarTypes, Storing
  <2>3. flash' \in [PhysicalPages -> Content]
    BY <1>11, <1>a, <2>1, <2>2, DataReplaced DEF WritePageData, WriteData, Image
  <2>4. QED
    BY <1>11, <2>3 DEF WritePageData, VarTypes, Storing, Erasing
<1>12. ASSUME WritePageTag, UNCHANGED <<BBT_BlkNum, kills>> PROVE VarTypes'
  <2>1. Skew(Page_Addr) \in PhysicalPages
    BY <1>12, Words, SkewInFile DEF WritePageTag, VarTypes, Erasing
  <2>2. TagOf(payload) \in Tag
    BY <1>12, ErasedTypes DEF WritePageTag, VarTypes, Storing
  <2>3. flash' \in [PhysicalPages -> Content]
    BY <1>12, <1>a, <2>1, <2>2, TagReplaced DEF WritePageTag, WriteSpare, Image
  <2>4. QED
    BY <1>12, <2>3 DEF WritePageTag, VarTypes, Storing, Erasing
<1>13. ASSUME VerifyPage, UNCHANGED <<BBT_BlkNum, kills>> PROVE VarTypes'
  <2>1. Skew(Page_Addr) \in PhysicalPages
    BY <1>13, Words, SkewInFile DEF VerifyPage, VarTypes, Erasing
  <2>2. payload \in Payload /\ sector \in Sectors
    BY <1>13 DEF VerifyPage, VarTypes, Storing
  <2>3. /\ acked' \in [Sectors -> Payload \cup {None}]
        /\ home' \in [Sectors -> PhysicalPages]
        /\ mapped' \subseteq Sectors
    BY <1>13, <2>1, <2>2 DEF VerifyPage, VarTypes
  <2>4. Returned("idle")
    BY <1>13 DEF VerifyPage
  <2>5. QED
    BY <1>13, <2>3, <2>4, ReturnedTypes DEF VerifyPage, VarTypes, Storing, Erasing
<1>14. ASSUME RejectPage, UNCHANGED <<BBT_BlkNum, kills>> PROVE VarTypes'
  BY <1>14 DEF RejectPage, VarTypes, Storing, Erasing
<1>15. ASSUME MarkPageBad, UNCHANGED <<BBT_BlkNum, kills>> PROVE VarTypes'
  <2>1. Page_Addr \in Pages
    BY <1>15, Words DEF MarkPageBad, VarTypes, Erasing
  <2>2. [ReadSpare(flash, Page_Addr) EXCEPT !.bi = Set] \in Tag
    BY <1>a, <2>1, Accesses, ErasedTypes
  <2>3. flash' \in [PhysicalPages -> Content]
    BY <1>15, <1>a, <2>1, <2>2, SkewInFile, TagReplaced DEF MarkPageBad, WriteSpare, Image
  <2>4. Returned("idle")
    BY <1>15 DEF MarkPageBad
  <2>5. QED
    BY <1>15, <2>3, <2>4, ReturnedTypes DEF MarkPageBad, VarTypes, Storing, Erasing
<1>16. ASSUME NEW blk \in Blocks, pageOP_EraseBlk(blk), UNCHANGED <<BBT_BlkNum, kills>>
       PROVE  VarTypes'
  <2>1. PagesOf(blk) \subseteq Pages /\ FirstPage(blk) + PagesPerBlock - 1 \in Pages
    BY BlockInChip, NandAssumption DEF PagesOf, FirstPage, Pages
  <2>2. marks' \subseteq Pages /\ fresh' \in Tag
    BY <1>16, <1>a, <2>1, Accesses DEF pageOP_EraseBlk
  <2>3. m16i_Blk' = blk /\ pc' \in {"erase", "abort"}
    BY <1>16 DEF pageOP_EraseBlk
  <2>4. 0 .. MAX16 \subseteq Pages
    BY Words DEF PageNumbers
  <2>5. QED
    BY <1>16, <1>c, <2>2, <2>3, <2>4 DEF pageOP_EraseBlk, VarTypes, Storing, Erasing, PageNumbers
<1>17. ASSUME Nand_EraseBlock, UNCHANGED <<BBT_BlkNum, kills>> PROVE VarTypes'
  <2>1. m16i_Blk \in Blocks
    BY <1>17 DEF Nand_EraseBlock, VarTypes, Erasing
  <2>2. flash' \in [PhysicalPages -> Content]
    BY <1>17, <1>a, <2>1, BlockErased DEF Nand_EraseBlock, Image
  <2>3. fresh' \in Tag
    <3>1. fresh.erase \in Nat
      BY Words DEF VarTypes, Tag
    <3>2. (fresh.erase + 1) % U32 \in 0 .. MAX32
      BY <3>1, Words
    <3>3. QED
      BY <1>17, <3>2, ErasedTypes DEF Nand_EraseBlock
  <2>4. Page_Addr' \in Pages
    BY <1>17, <2>1, BlockInChip, NandAssumption DEF Nand_EraseBlock, FirstPage, PagesOf, Pages
  <2>5. QED
    BY <1>17, <2>1, <2>2, <2>3, <2>4 DEF Nand_EraseBlock, VarTypes, Storing, Erasing
<1>18. ASSUME Retag, UNCHANGED <<BBT_BlkNum, kills>> PROVE VarTypes'
  <2>1. Page_Addr \in Pages /\ m16i_Blk \in Blocks
    BY <1>18 DEF Retag, VarTypes, Erasing
  <2>2. NewTag(Page_Addr) \in Tag
    BY ErasedTypes DEF NewTag, VarTypes
  <2>3. flash' \in [PhysicalPages -> Content]
    BY <1>18, <1>a, <2>1, <2>2, SkewInFile, TagReplaced DEF Retag, WriteSpare, Image
  <2>4. CASE Page_Addr + 1 \in PagesOf(m16i_Blk)
    <3>1. Page_Addr + 1 \in Pages
      BY <2>1, <2>4, BlockInChip
    <3>2. QED
      BY <1>18, <2>1, <2>3, <2>4, <3>1 DEF Retag, VarTypes, Storing, Erasing
  <2>5. CASE Page_Addr + 1 \notin PagesOf(m16i_Blk)
    <3>1. Returned("up")
      BY <1>18, <2>5 DEF Retag
    <3>2. QED
      BY <1>18, <2>3, <2>5, <3>1, ReturnedTypes, ErasedTypes
      DEF Retag, VarTypes, Storing, Erasing
  <2>6. QED
    BY <2>4, <2>5
<1>19. ASSUME Killed, UNCHANGED BBT_BlkNum PROVE VarTypes'
  <2>1. flash' \in [PhysicalPages -> Content] /\ torn' \subseteq PhysicalPages
    <3>1. CASE UNCHANGED <<flash, torn>>
      BY <3>1 DEF VarTypes
    <3>2. CASE pc = "program" /\ flash' = WriteData(flash, Page_Addr, Partial) /\ UNCHANGED torn
      <4>1. Page_Addr \in Pages
        BY <3>2, Words DEF VarTypes, Erasing
      <4>2. QED
        BY <1>a, <3>2, <4>1, SkewInFile, DataReplaced DEF VarTypes, WriteData, Image
    <3>3. CASE pc = "tag" /\ TornTag(Skew(Page_Addr), TagOf(payload))
      <4>1. Skew(Page_Addr) \in PhysicalPages /\ TagOf(payload) \in Tag
        BY <3>3, Words, SkewInFile, ErasedTypes DEF VarTypes, Erasing, Storing
      <4>2. QED
        BY <1>a, <3>3, <4>1, TornImage DEF VarTypes, Image
    <3>4. CASE pc = "retag" /\ TornTag(Skew(Page_Addr), NewTag(Page_Addr))
      <4>1. Skew(Page_Addr) \in PhysicalPages /\ NewTag(Page_Addr) \in Tag
        BY <3>4, SkewInFile, ErasedTypes DEF VarTypes, Erasing, NewTag
      <4>2. QED
        BY <1>a, <3>4, <4>1, TornImage DEF VarTypes, Image
    <3>5. CASE pc = "erase" /\ TornErase
      <4>1. m16i_Blk \in Blocks
        BY <3>5 DEF VarTypes, Erasing
      <4>2. QED
        BY <1>a, <3>5, <4>1, HalfErased DEF VarTypes, Image
    <3>6. ASSUME pc = "mark", NEW tag \in Garbage, TornTag(BadMark(m16i_Blk), tag)
          PROVE  flash' \in [PhysicalPages -> Content] /\ torn' \subseteq PhysicalPages
      <4>1. BadMark(m16i_Blk) \in PhysicalPages /\ tag \in Tag
        BY <3>6, MarkedPage, GarbageAssumption DEF VarTypes
      <4>2. QED
        BY <1>a, <3>6, <4>1, TornImage DEF VarTypes, Image
    <3>7. QED
      BY <1>19, <3>1, <3>2, <3>3, <3>4, <3>5, <3>6 DEF Killed, Death
  <2>2. Returned("off") /\ DPM_Table' \in [Sectors -> PageNumbers] /\ PageCnt' \in PageNumbers
    BY <1>19, <1>b DEF Killed, Death
  <2>3. QED
    BY <1>19, <2>1, <2>2, ReturnedTypes, ErasedTypes DEF Killed, Death, VarTypes, Storing, Erasing
<1>20. QED
  BY <1>1, <1>2, <1>3, <1>4, <1>5, <1>6, <1>6m, <1>7, <1>8, <1>9, <1>10, <1>11, <1>12,
     <1>13, <1>14, <1>15, <1>16, <1>17, <1>18, <1>19
  DEF Next, Calls, Running

LEMMA TypeStep ==
  TypeOK /\ [Next]_vars => TypeOK'
<1> SUFFICES ASSUME TypeOK, [Next]_vars PROVE TypeOK'
  OBVIOUS
<1> USE DEF TypeOK, Storing, Erasing
<1>1. VarTypes'
  BY VarStep
<1> USE DEF mapVars, scanVars, eraseVars, history
<1>2. CASE UNCHANGED vars
  BY <1>1, <1>2 DEF vars
<1>3. CASE Calls
  BY <1>1, <1>3 DEF Calls, PowerOn, DPM_Malloc, Get_Useful_WPage, pageOP_EraseBlk
<1>4. CASE Create_DPM \/ MeetBadPage \/ MarkBlockBad \/ FTL_GC
  BY <1>1, <1>4 DEF Create_DPM, MeetBadPage, MarkBlockBad, NAND_BuildBBT, FTL_GC
<1>5. CASE ScanFirst \/ ScanYounger
  BY <1>1, <1>5 DEF ScanFirst, ScanYounger
<1>6. CASE Get_FreeDPage
  BY <1>1, <1>6 DEF Get_FreeDPage, Returned
<1>7. CASE WritePageData \/ WritePageTag \/ VerifyPage \/ RejectPage \/ MarkPageBad
  BY <1>1, <1>7 DEF WritePageData, WritePageTag, VerifyPage, RejectPage, MarkPageBad, Returned
<1>8. CASE Nand_EraseBlock \/ Retag
  BY <1>1, <1>8 DEF Nand_EraseBlock, Retag, Returned
<1>9. CASE Killed
  BY <1>1, <1>9 DEF Killed, Death, Returned
<1>10. QED
  BY <1>2, <1>3, <1>4, <1>5, <1>6, <1>7, <1>8, <1>9 DEF Next, Running

\* The types of the program's variables (FTL_DPM.c, FTL_GC_WL.c, FTL_pageOP.c):
\* what is kept in a uint16_t stays a uint16_t, and no access leaves the file.
THEOREM TypeCorrectness == Spec => []TypeOK
<1>1. Init => TypeOK
  BY TypeInit
<1>2. TypeOK /\ [Next]_vars => TypeOK'
  BY TypeStep
<1>3. QED
  BY <1>1, <1>2, PTL DEF Spec
-----------------------------------------------------------------------------
(* Committed data.                                                         *)

Intact(image, gone) ==
  \A f \in PhysicalPages \ gone :
    IsValid(image[f].tag) => image[f].tag.ecc = image[f].data

LEMMA CommittedIsIntact ==
  CommittedDataIntact <=> (~wrapped => Intact(flash, torn))
  BY DEF CommittedDataIntact, Intact

\* Only page f changes: it is not valid, or holds the data of its ECC, or the
\* process died on it.
LEMMA OnePageIntact ==
  ASSUME NEW image, NEW image2, NEW gone, NEW gone2, NEW f \in PhysicalPages,
         Intact(image, gone),
         \A g \in PhysicalPages : g # f => image2[g] = image[g],
         gone \subseteq gone2 \cup {f},
         f \in gone2 \/ ~IsValid(image2[f].tag) \/ image2[f].tag.ecc = image2[f].data
  PROVE  Intact(image2, gone2)
  BY DEF Intact

\* A tag that was being replaced: the page is intact whether the old tag was
\* kept or the new one was written, and given up in between.
LEMMA TornTagIntact ==
  ASSUME flash \in Image, NEW f \in PhysicalPages, NEW new \in Tag,
         Intact(flash, torn), TornTag(f, new),
         ~IsValid(new) \/ new.ecc = flash[f].data
  PROVE  Intact(flash', torn')
<1>1. flash[f].tag \in Tag
  BY DEF Image, Content
<1>2. PICK tag \in TornTags(flash[f].tag, new) :
        /\ flash' = [flash EXCEPT ![f].tag = tag]
        /\ torn' = IF tag \in {flash[f].tag, new} THEN torn ELSE torn \cup {f}
  BY DEF TornTag
<1>3. tag \in Tag
  BY <1>1, TornTagTypes
<1>4. /\ flash'[f].tag = tag
      /\ flash'[f].data = flash[f].data
      /\ \A g \in PhysicalPages : g # f => flash'[g] = flash[g]
  BY <1>2, <1>3, TagReplaced
<1>5. CASE tag = new
  <2>1. ~IsValid(flash'[f].tag) \/ flash'[f].tag.ecc = flash'[f].data
    BY <1>4, <1>5
  <2>2. torn \subseteq torn' \cup {f}
    BY <1>2, <1>5
  <2>3. QED
    BY <1>4, <2>1, <2>2, OnePageIntact
<1>6. CASE tag = flash[f].tag
  BY <1>2, <1>4, <1>6 DEF Intact
<1>7. CASE tag \notin {flash[f].tag, new}
  <2>1. f \in torn' /\ torn \subseteq torn' \cup {f}
    BY <1>2, <1>7
  <2>2. QED
    BY <1>4, <2>1, OnePageIntact
<1>8. QED
  BY <1>5, <1>6, <1>7

LEMMA TornEraseIntact ==
  ASSUME flash \in Image, m16i_Blk \in Blocks, Intact(flash, torn), TornErase
  PROVE  Intact(flash', torn')
<1>1. ErasedBy(FirstPage(m16i_Blk)) \subseteq PhysicalPages
  BY ErasedInFile
<1>2. PICK done \in SUBSET ErasedBy(FirstPage(m16i_Blk)), f \in ErasedBy(FirstPage(m16i_Blk)) :
        /\ \E tag \in TornTags(flash[f].tag, ErasedTag) :
             flash' = [g \in PhysicalPages |->
                         IF g = f THEN [data |-> Partial, tag |-> tag]
                         ELSE IF g \in done THEN ErasedPage ELSE flash[g]]
        /\ torn' = (torn \ done) \cup {f}
  BY DEF TornErase
<1>3. \A g \in PhysicalPages \ {f} :
        flash'[g] = IF g \in done THEN ErasedPage ELSE flash[g]
  BY <1>2
<1>4. ~IsValid(ErasedPage.tag)
  BY ErasedTypes DEF ErasedPage, IsValid
<1>5. QED
  BY <1>2, <1>3, <1>4 DEF Intact

LEMMA TornFlag ==
  ASSUME flash \in Image, NEW f \in PhysicalPages, NEW new \in Tag, TornTag(f, new)
  PROVE  /\ flash'[f].tag.bi \in {flash[f].tag.bi, new.bi}
         /\ \A g \in PhysicalPages : g # f => flash'[g] = flash[g]
<1>1. flash[f].tag \in Tag
  BY DEF Image, Content
<1>2. PICK tag \in TornTags(flash[f].tag, new) : flash' = [flash EXCEPT ![f].tag = tag]
  BY DEF TornTag
<1>3. tag \in Tag /\ tag.bi \in {flash[f].tag.bi, new.bi}
  BY <1>1, <1>2, TornTagTypes
<1>4. QED
  BY <1>2, <1>3, TagReplaced

LEMMA TornEraseFlags ==
  ASSUME flash \in Image, m16i_Blk \in Blocks, TornErase,
         \A f \in PhysicalPages : flash[f].tag.bi = Clear
  PROVE  \A f \in PhysicalPages : flash'[f].tag.bi = Clear
<1>1. ErasedBy(FirstPage(m16i_Blk)) \subseteq PhysicalPages
  BY ErasedInFile
<1>2. PICK done \in SUBSET ErasedBy(FirstPage(m16i_Blk)), f \in ErasedBy(FirstPage(m16i_Blk)) :
        \E tag \in TornTags(flash[f].tag, ErasedTag) :
          flash' = [g \in PhysicalPages |->
                     IF g = f THEN [data |-> Partial, tag |-> tag]
                     ELSE IF g \in done THEN ErasedPage ELSE flash[g]]
  BY DEF TornErase
<1>3. PICK tag \in TornTags(flash[f].tag, ErasedTag) :
        flash' = [g \in PhysicalPages |->
                   IF g = f THEN [data |-> Partial, tag |-> tag]
                   ELSE IF g \in done THEN ErasedPage ELSE flash[g]]
  BY <1>2
<1>4. flash[f].tag \in Tag /\ flash[f].tag.bi = Clear
  BY <1>1 DEF Image, Content
<1>5. tag.bi = Clear
  BY <1>4, ErasedTypes, TornTagTypes
<1>6. ErasedPage.tag.bi = Clear
  BY ErasedTypes DEF ErasedPage
<1>7. QED
  BY <1>3, <1>5, <1>6

\* Dynamic_WL takes a page whose number fits its uint16_t: the page it names is
\* the page it read.
LEMMA TakenPage ==
  ASSUME VarTypes, NEW p \in Pages, Take(p), ~wrapped', UNCHANGED flash,
         ReadSpare(flash, p).used = Clear
  PROVE  ReadSpare(flash', Page_Addr').used = Clear
<1>1. p \in Nat /\ U16 \in Nat \ {0}
  BY Words, Sizes
<1>2. ~(p >= U16)
  <2>1. wrapped' = (wrapped \/ p >= U16)
    BY DEF Take
  <2>2. QED
    BY <2>1, Zenon
<1>3. p % U16 = p
  BY <1>1, <1>2, SmallRemainder
<1>4. Page_Addr' = p
  BY <1>3 DEF Take
<1>5. QED
  BY <1>4 DEF ReadSpare

LEMMA StoreInit ==
  Init => StoreInv
<1> SUFFICES ASSUME Init PROVE StoreInv
  OBVIOUS
<1>1. PICK v \in Payload :
        LET inUse == [data |-> v, tag |-> [ErasedTag EXCEPT !.used = Set, !.ecc = v]]
        IN  flash = [f \in PhysicalPages |->
              IF \E p \in Prefilled : Skew(p) = f THEN inUse ELSE ErasedPage]
  BY DEF Init
<1> DEFINE inUse == [data |-> v, tag |-> [ErasedTag EXCEPT !.used = Set, !.ecc = v]]
<1>2. \A f \in PhysicalPages : flash[f] \in {inUse, ErasedPage}
  BY <1>1
<1>3. inUse.tag.ecc = inUse.data
  BY DEF ErasedTag
<1>4. ~IsValid(ErasedPage.tag)
  BY ErasedTypes DEF ErasedPage, IsValid
<1>5. CommittedDataIntact
  BY <1>2, <1>3, <1>4 DEF CommittedDataIntact
<1>6. QED
  BY <1>5 DEF Init, StoreInv

LEMMA StoreStep ==
  ASSUME DPM_Pages_Per_Blk = 1, VarTypes, StoreInv, [Next]_vars
  PROVE  StoreInv'
<1> USE DEF mapVars, scanVars, eraseVars, history
<1>a. flash \in Image
  BY DEF VarTypes, Image
<1>b. ~wrapped => Intact(flash, torn)
  BY CommittedIsIntact DEF StoreInv
<1>c. (~wrapped' => Intact(flash', torn')) => CommittedDataIntact'
  BY DEF CommittedDataIntact, Intact
<1>d. UNCHANGED <<flash, torn>> /\ (wrapped => wrapped') => CommittedDataIntact'
  BY DEF StoreInv, CommittedDataIntact
<1>e. pc \notin Erasing => Page_Addr \in Pages
  BY Words DEF VarTypes
<1>f. Page_Addr \in Pages => Skew(Page_Addr) \in PhysicalPages
  BY SkewInFile
<1>1. CASE UNCHANGED vars
  BY <1>1 DEF vars, StoreInv, CommittedDataIntact, ReadSpare, ReadData, TagOf
<1>2. CASE PowerOn
  BY <1>2, <1>d DEF PowerOn, StoreInv
<1>3. CASE DPM_Malloc
  BY <1>3, <1>d DEF DPM_Malloc, StoreInv
<1>4. CASE Create_DPM
  BY <1>4, <1>d DEF Create_DPM, StoreInv
<1>5. ASSUME NEW s \in Sectors, NEW v \in Payload, Get_Useful_WPage(s, v) PROVE StoreInv'
  BY <1>5, <1>d DEF Get_Useful_WPage, StoreInv, ReadSpare
<1>6. CASE MeetBadPage
  BY <1>6, <1>d DEF MeetBadPage, StoreInv
<1>6m. CASE MarkBlockBad
  <2>1. PICK tag \in Tag : tag.bi = Set /\ flash' = [flash EXCEPT ![BadMark(m16i_Blk)].tag = tag]
    BY <1>6m, GarbageAssumption DEF MarkBlockBad, NAND_MarkBadBlock
  <2>2. BadMark(m16i_Blk) \in PhysicalPages
    BY <1>6m, MarkedPage DEF MarkBlockBad, VarTypes
  <2>3. /\ flash'[BadMark(m16i_Blk)].tag = tag
        /\ \A g \in PhysicalPages : g # BadMark(m16i_Blk) => flash'[g] = flash[g]
    BY <1>a, <2>1, <2>2, TagReplaced
  <2>4. ~IsValid(flash'[BadMark(m16i_Blk)].tag)
    BY <2>1, <2>3 DEF IsValid, Set, Clear
  <2>5. ~wrapped' => Intact(flash', torn')
    BY <1>6m, <1>b, <2>2, <2>3, <2>4, OnePageIntact DEF MarkBlockBad
  <2>6. QED
    BY <1>6m, <1>c, <2>5 DEF MarkBlockBad, NAND_BuildBBT, StoreInv
<1>7. CASE ScanFirst
  <2>1. Page_Addr = MAX16
    BY <1>7 DEF ScanFirst, StoreInv
  <2>2. ASSUME pc' = "scan2", ~wrapped'
        PROVE  ReadSpare(flash', Page_Addr').used = Clear
    <3>1. PICK p \in FirstOf(Stops1) : ~IsBad(ReadSpare(flash, p)) /\ Take(p)
      BY <1>7, <2>1, <2>2 DEF ScanFirst
    <3>2. p \in Pages /\ IsFree(ReadSpare(flash, p))
      BY <1>7, <3>1, StopsInChip DEF ScanFirst, FirstOf, Stops1
    <3>3. QED
      BY <1>7, <2>2, <3>1, <3>2, TakenPage DEF ScanFirst, IsFree
  <2>3. pc' \in {"scan1", "scan2"} /\ (pc' = "scan1" => Page_Addr' = MAX16)
    BY <1>7 DEF ScanFirst
  <2>4. UNCHANGED <<flash, torn>> /\ (wrapped => wrapped')
    <3>1. CASE UNCHANGED wrapped
      BY <1>7, <3>1 DEF ScanFirst
    <3>2. CASE \E p \in Pages : wrapped' = (wrapped \/ p >= U16)
      <4>1. wrapped => wrapped'
        BY <3>2, Zenon
      <4>2. QED
        BY <1>7, <4>1 DEF ScanFirst
    <3>3. QED
      BY <1>7, <3>1, <3>2, StopsInChip DEF ScanFirst, Take
  <2>5. QED
    BY <1>d, <2>2, <2>3, <2>4 DEF StoreInv
<1>8. CASE FTL_GC
  BY <1>8, <1>d DEF FTL_GC, StoreInv
<1>9. CASE ScanYounger
  <2>1. ASSUME ~wrapped'
        PROVE  ReadSpare(flash', Page_Addr').used = Clear
    <3>1. CASE UNCHANGED <<Page_Addr, EraseTime_MIN, wrapped>>
      BY <1>9, <2>1, <3>1 DEF ScanYounger, StoreInv, ReadSpare
    <3>2. ASSUME NEW p \in FirstOf(Stops2), ~IsBad(ReadSpare(flash, p)),
                 ReadSpare(flash, p).erase < EraseTime_MIN, Take(p)
          PROVE  ReadSpare(flash', Page_Addr').used = Clear
      <4>1. p \in Pages /\ p \in Stops2
        BY <1>9, <3>2, StopsInChip DEF ScanYounger, FirstOf
      <4>2. ReadSpare(flash, p).erase \in Nat /\ EraseTime_MIN \in Nat
        BY <1>a, <4>1, Accesses DEF VarTypes, PageNumbers
      <4>3. IsFree(ReadSpare(flash, p))
        BY <3>2, <4>1, <4>2 DEF Stops2
      <4>4. QED
        BY <1>9, <2>1, <3>2, <4>1, <4>3, TakenPage DEF ScanYounger, IsFree
    <3>3. QED
      BY <1>9, <3>1, <3>2 DEF ScanYounger
  <2>2. pc' = "scan2" /\ UNCHANGED <<flash, torn>> /\ (wrapped => wrapped')
    BY <1>9 DEF ScanYounger, Take
  <2>3. QED
    BY <1>d, <2>1, <2>2 DEF StoreInv
<1>10. CASE Get_FreeDPage
  <2>1. Page_Addr \div DPM_Pages_Per_Blk = Page_Addr
    <3>1. Page_Addr \in Nat
      BY <1>10 DEF Get_FreeDPage, VarTypes, Erasing, PageNumbers
    <3>2. QED
      BY <3>1
  <2>2. CASE pc' = "program"
    <3>1. Page_Addr' = Page_Addr
      BY <1>10, <2>1, <2>2 DEF Get_FreeDPage, Returned
    <3>2. QED
      BY <1>10, <1>d, <2>2, <3>1 DEF Get_FreeDPage, StoreInv, ReadSpare
  <2>3. CASE pc' = "idle"
    BY <1>10, <1>d, <2>3 DEF Get_FreeDPage, StoreInv
  <2>4. QED
    BY <1>10, <2>2, <2>3 DEF Get_FreeDPage, Returned
<1>11. CASE WritePageData
  <2>1. Skew(Page_Addr) \in PhysicalPages /\ payload \in Payload
    BY <1>11, <1>e, <1>f DEF WritePageData, Erasing, VarTypes, Storing
  <2>2. /\ flash'[Skew(Page_Addr)].tag = flash[Skew(Page_Addr)].tag
        /\ flash'[Skew(Page_Addr)].data = payload
        /\ \A g \in PhysicalPages : g # Skew(Page_Addr) => flash'[g] = flash[g]
    BY <1>11, <1>a, <2>1, DataReplaced DEF WritePageData, WriteData
  <2>3. ~wrapped => flash'[Skew(Page_Addr)].tag.used = Clear
    BY <1>11, <2>2 DEF WritePageData, StoreInv, ReadSpare
  <2>4. ASSUME ~wrapped' PROVE Intact(flash', torn')
    <3>1. Intact(flash, torn) /\ torn' = torn
      BY <1>11, <1>b, <2>4 DEF WritePageData
    <3>2. ~IsValid(flash'[Skew(Page_Addr)].tag)
      BY <1>11, <2>3, <2>4 DEF WritePageData, IsValid
    <3>3. QED
      BY <2>1, <2>2, <3>1, <3>2, OnePageIntact
  <2>5. QED
    BY <1>11, <1>c, <2>2, <2>3, <2>4 DEF WritePageData, StoreInv, ReadSpare, ReadData
<1>12. CASE WritePageTag
  <2>1. Skew(Page_Addr) \in PhysicalPages /\ TagOf(payload) \in Tag
    BY <1>12, <1>e, <1>f, ErasedTypes DEF WritePageTag, Erasing, VarTypes, Storing
  <2>2. /\ flash'[Skew(Page_Addr)].tag = TagOf(payload)
        /\ flash'[Skew(Page_Addr)].data = payload
        /\ \A g \in PhysicalPages : g # Skew(Page_Addr) => flash'[g] = flash[g]
    BY <1>12, <1>a, <2>1, TagReplaced DEF WritePageTag, WriteSpare, StoreInv, ReadData
  <2>3. TagOf(payload).ecc = payload
    BY DEF TagOf
  <2>4. ~wrapped' => Intact(flash', torn')
    BY <1>12, <1>b, <2>1, <2>2, <2>3, OnePageIntact DEF WritePageTag
  <2>5. QED
    BY <1>12, <1>c, <2>2, <2>4 DEF WritePageTag, StoreInv, ReadSpare, ReadData, TagOf
<1>13. CASE VerifyPage
  BY <1>13, <1>d DEF VerifyPage, StoreInv, Returned
<1>14. CASE RejectPage
  BY <1>14, <1>d DEF RejectPage, StoreInv
<1>15. CASE MarkPageBad
  <2>1. Skew(Page_Addr) \in PhysicalPages
        /\ [ReadSpare(flash, Page_Addr) EXCEPT !.bi = Set] \in Tag
    BY <1>15, <1>a, <1>e, <1>f, Accesses, ErasedTypes DEF MarkPageBad, Erasing
  <2>2. /\ flash'[Skew(Page_Addr)].tag = [ReadSpare(flash, Page_Addr) EXCEPT !.bi = Set]
        /\ \A g \in PhysicalPages : g # Skew(Page_Addr) => flash'[g] = flash[g]
    BY <1>15, <1>a, <2>1, TagReplaced DEF MarkPageBad, WriteSpare
  <2>3. ~IsValid([ReadSpare(flash, Page_Addr) EXCEPT !.bi = Set])
    <3>1. ReadSpare(flash, Page_Addr) \in Tag
      BY <1>15, <1>a, <1>e, Accesses DEF MarkPageBad, Erasing
    <3>2. [ReadSpare(flash, Page_Addr) EXCEPT !.bi = Set].bi = Set
      BY <3>1 DEF Tag
    <3>3. QED
      BY <3>2 DEF IsValid, Set, Clear
  <2>4. ~wrapped' => Intact(flash', torn')
    BY <1>15, <1>b, <2>1, <2>2, <2>3, OnePageIntact DEF MarkPageBad
  <2>5. QED
    BY <1>15, <1>c, <2>4 DEF MarkPageBad, StoreInv, Returned
<1>16. ASSUME NEW blk \in Blocks, pageOP_EraseBlk(blk) PROVE StoreInv'
  BY <1>16, <1>d DEF pageOP_EraseBlk, StoreInv
<1>17. CASE Nand_EraseBlock
  <2>1. m16i_Blk \in Blocks
    BY <1>17 DEF Nand_EraseBlock, VarTypes, Erasing
  <2>2. \A f \in PhysicalPages :
          flash'[f] = IF f \in ErasedBy(FirstPage(m16i_Blk)) THEN ErasedPage ELSE flash[f]
    BY <1>17, <1>a, <2>1, BlockErased DEF Nand_EraseBlock
  <2>3. ~IsValid(ErasedPage.tag)
    BY ErasedTypes DEF ErasedPage, IsValid
  <2>4. ~wrapped' => Intact(flash', torn')
    BY <1>17, <1>b, <2>2, <2>3 DEF Nand_EraseBlock, Intact
  <2>5. fresh'.used = Clear
    BY <1>17 DEF Nand_EraseBlock, ErasedTag
  <2>6. QED
    BY <1>17, <1>c, <2>4, <2>5 DEF Nand_EraseBlock, StoreInv
<1>18. CASE Retag
  <2>1. Skew(Page_Addr) \in PhysicalPages /\ NewTag(Page_Addr) \in Tag
    BY <1>18, SkewInFile, ErasedTypes DEF Retag, VarTypes, Erasing, NewTag
  <2>2. ~IsValid(NewTag(Page_Addr))
    <3>1. fresh \in Tag /\ fresh.used = Clear
      BY <1>18 DEF Retag, StoreInv, VarTypes
    <3>2. NewTag(Page_Addr).used = Clear
      BY <3>1 DEF NewTag, Tag
    <3>3. QED
      BY <3>2 DEF IsValid
  <2>3. /\ flash'[Skew(Page_Addr)].tag = NewTag(Page_Addr)
        /\ \A g \in PhysicalPages : g # Skew(Page_Addr) => flash'[g] = flash[g]
    BY <1>18, <1>a, <2>1, TagReplaced DEF Retag, WriteSpare
  <2>4. ~wrapped' => Intact(flash', torn')
    BY <1>18, <1>b, <2>1, <2>2, <2>3, OnePageIntact DEF Retag
  <2>5. pc' \in {"retag", "up"} /\ (pc' = "retag" => fresh'.used = Clear)
    BY <1>18 DEF Retag, Returned, StoreInv
  <2>6. QED
    BY <1>c, <2>4, <2>5 DEF StoreInv
<1>19. CASE Killed
  <2>1. ~wrapped => Intact(flash', torn')
    <3>1. CASE UNCHANGED <<flash, torn>>
      BY <3>1, <1>b
    <3>2. CASE pc = "program" /\ flash' = WriteData(flash, Page_Addr, Partial) /\ UNCHANGED torn
      <4>1. Skew(Page_Addr) \in PhysicalPages
        BY <3>2, <1>e, <1>f DEF Erasing
      <4>2. /\ flash'[Skew(Page_Addr)].tag = flash[Skew(Page_Addr)].tag
            /\ \A g \in PhysicalPages : g # Skew(Page_Addr) => flash'[g] = flash[g]
        BY <1>a, <3>2, <4>1, DataReplaced DEF WriteData
      <4>3. ~wrapped => flash'[Skew(Page_Addr)].tag.used = Clear
        BY <3>2, <4>2 DEF StoreInv, ReadSpare
      <4>4. QED
        BY <1>b, <3>2, <4>1, <4>2, <4>3, OnePageIntact DEF IsValid
    <3>3. CASE pc = "tag" /\ TornTag(Skew(Page_Addr), TagOf(payload))
      <4>1. Skew(Page_Addr) \in PhysicalPages /\ TagOf(payload) \in Tag
        BY <3>3, <1>e, <1>f, ErasedTypes DEF Erasing, VarTypes, Storing
      <4>2. TagOf(payload).ecc = flash[Skew(Page_Addr)].data
        BY <3>3 DEF StoreInv, ReadData, TagOf
      <4>3. QED
        BY <1>a, <1>b, <3>3, <4>1, <4>2, TornTagIntact
    <3>4. CASE pc = "retag" /\ TornTag(Skew(Page_Addr), NewTag(Page_Addr))
      <4>1. Skew(Page_Addr) \in PhysicalPages /\ NewTag(Page_Addr) \in Tag
        BY <3>4, SkewInFile, ErasedTypes DEF VarTypes, Erasing, NewTag
      <4>2. fresh \in Tag /\ fresh.used = Clear
        BY <3>4 DEF StoreInv, VarTypes
      <4>3. NewTag(Page_Addr).used = Clear
        BY <4>2 DEF NewTag, Tag
      <4>4. QED
        BY <1>a, <1>b, <3>4, <4>1, <4>3, TornTagIntact DEF IsValid
    <3>5. CASE pc = "erase" /\ TornErase
      <4>1. m16i_Blk \in Blocks
        BY <3>5 DEF VarTypes, Erasing
      <4>2. QED
        BY <1>a, <1>b, <3>5, <4>1, TornEraseIntact
    <3>6. ASSUME pc = "mark", NEW tag \in Garbage, TornTag(BadMark(m16i_Blk), tag)
          PROVE  ~wrapped => Intact(flash', torn')
      <4>1. BadMark(m16i_Blk) \in PhysicalPages /\ tag \in Tag
        BY <3>6, MarkedPage, GarbageAssumption DEF VarTypes
      <4>2. ~IsValid(tag)
        BY GarbageAssumption DEF IsValid, Set, Clear
      <4>3. QED
        BY <1>a, <1>b, <3>6, <4>1, <4>2, TornTagIntact
    <3>7. QED
      BY <1>19, <3>1, <3>2, <3>3, <3>4, <3>5, <3>6 DEF Killed, Death
  <2>2. QED
    BY <1>19, <1>c, <2>1 DEF Killed, Death, Returned, StoreInv
<1>20. QED
  BY <1>1, <1>2, <1>3, <1>4, <1>5, <1>6, <1>6m, <1>7, <1>8, <1>9, <1>10, <1>11, <1>12, <1>13,
     <1>14, <1>15, <1>16, <1>17, <1>18, <1>19
  DEF Next, Calls, Running

\* Whatever the geometry, the number of sectors, the bad block table, and the
\* deaths of the process: a page whose tag says that it is valid holds the data
\* its ECC was computed from (pageOP_Write, pageOP_EraseBlk, Dynamic_WL).
THEOREM DataCommitted ==
  ASSUME DPM_Pages_Per_Blk = 1
  PROVE  Spec => []CommittedDataIntact
<1>1. Init => TypeOK /\ StoreInv
  BY TypeInit, StoreInit
<1>2. (TypeOK /\ StoreInv) /\ [Next]_vars => (TypeOK /\ StoreInv)'
  BY TypeStep, StoreStep DEF TypeOK
<1>3. TypeOK /\ StoreInv => CommittedDataIntact
  BY DEF StoreInv
<1>4. QED
  BY <1>1, <1>2, <1>3, PTL DEF Spec
-----------------------------------------------------------------------------
(* Sectors that were stored.                                               *)

\* Only page f changes, and it is nobody's home.
LEMMA OtherHomesDurable ==
  ASSUME TypeOK, AckedDurable, NEW f \in PhysicalPages,
         ~wrapped => \A s \in Stored : home[s] # f,
         \A g \in PhysicalPages : g # f => flash'[g] = flash[g],
         UNCHANGED <<acked, home, wrapped>>
  PROVE  AckedDurable'
<1>1. Stored' = Stored
  BY DEF Stored
<1>2. \A s \in Stored : home[s] \in PhysicalPages
  BY DEF Stored, TypeOK, VarTypes
<1>3. ASSUME ~wrapped, NEW s \in Stored PROVE flash'[home'[s]] = flash[home[s]]
  BY <1>2, <1>3
<1>4. QED
  BY <1>1, <1>3 DEF AckedDurable

\* A page that is not in use is nobody's home.
LEMMA FreeIsNoHome ==
  ASSUME AckedDurable, ~wrapped, NEW f \in PhysicalPages, flash[f].tag.used = Clear
  PROVE  \A s \in Stored : home[s] # f
  BY DEF AckedDurable, IsValid

LEMMA NothingStored ==
  ASSUME Stored = {}, UNCHANGED acked
  PROVE  AckedDurable' /\ Stored' = {}
  BY DEF AckedDurable, Stored

LEMMA DurableInit ==
  Init => DurableInv
<1> SUFFICES ASSUME Init PROVE DurableInv
  OBVIOUS
<1>1. PICK v \in Payload :
        LET inUse == [data |-> v, tag |-> [ErasedTag EXCEPT !.used = Set, !.ecc = v]]
        IN  flash = [f \in PhysicalPages |->
              IF \E p \in Prefilled : Skew(p) = f THEN inUse ELSE ErasedPage]
  BY DEF Init
<1> DEFINE inUse == [data |-> v, tag |-> [ErasedTag EXCEPT !.used = Set, !.ecc = v]]
<1>2. \A f \in PhysicalPages : flash[f] \in {inUse, ErasedPage}
  BY <1>1
<1>3. inUse.tag.bi = Clear /\ ErasedPage.tag.bi = Clear
  BY DEF ErasedTag, ErasedPage
<1>4. Stored = {}
  BY DEF Init, Stored
<1>5. ErasedTag.bi = Clear
  BY DEF ErasedTag
<1>6. QED
  BY <1>2, <1>3, <1>4, <1>5 DEF Init, DurableInv, AckedDurable, Storing, Erasing

LEMMA DurableStep ==
  ASSUME DPM_Pages_Per_Blk = 1, Overread = FALSE,
         TypeOK, TypeOK', StoreInv, StoreInv', DurableInv, [Next]_vars
  PROVE  DurableInv'
<1> USE DEF mapVars, scanVars, eraseVars, history
<1>a. flash \in Image /\ AckedDurable
  BY DEF TypeOK, VarTypes, Image, DurableInv
<1>b. pc \notin Erasing => Page_Addr \in Pages
  BY Words DEF TypeOK, VarTypes
<1>c. Page_Addr \in Pages => Skew(Page_Addr) \in PhysicalPages
  BY SkewInFile
<1>d. UNCHANGED <<flash, acked, home>> /\ (wrapped => wrapped') => AckedDurable' /\ Stored' = Stored
  BY <1>a DEF AckedDurable, Stored
<1>e. \A p \in Pages : ReadSpare(flash, p).bi = Clear
  BY SkewInFile DEF DurableInv, ReadSpare
<1>f. Clear # Set
  BY DEF Clear, Set
<1>1. CASE UNCHANGED vars
  BY <1>1, <1>d DEF vars, DurableInv
<1>2. CASE PowerOn
  BY <1>2, <1>d DEF PowerOn, DurableInv, Storing, Erasing
<1>3. CASE DPM_Malloc
  BY <1>3, <1>d DEF DPM_Malloc, DurableInv, Storing, Erasing
<1>4. CASE Create_DPM
  BY <1>4, <1>d DEF Create_DPM, DurableInv, Storing, Erasing
<1>5. ASSUME NEW s \in Sectors, NEW v \in Payload, Get_Useful_WPage(s, v) PROVE DurableInv'
  BY <1>5, <1>d DEF Get_Useful_WPage, DurableInv, Storing, Erasing
<1>6. CASE MeetBadPage
  <2>1. PICK p \in FirstOf(IF pc = "scan1" THEN Stops1 ELSE Stops2) : IsBad(ReadSpare(flash, p))
    BY <1>6 DEF MeetBadPage
  <2>2. p \in Pages
    BY <1>6, <2>1, StopsInChip DEF MeetBadPage
  <2>3. QED
    BY <1>e, <2>1, <2>2 DEF IsBad
<1>6m. CASE MarkBlockBad
  BY <1>6m DEF MarkBlockBad, DurableInv
<1>7. CASE ScanFirst
  <2>1. wrapped => wrapped'
    <3>1. CASE UNCHANGED wrapped
      BY <3>1
    <3>2. CASE \E p \in Pages : wrapped' = (wrapped \/ p >= U16)
      BY <3>2, Zenon
    <3>3. QED
      BY <1>7, <3>1, <3>2, StopsInChip DEF ScanFirst, Take
  <2>2. QED
    BY <1>7, <1>d, <2>1 DEF ScanFirst, DurableInv, Storing, Erasing
<1>8. CASE FTL_GC
  BY <1>8, <1>d DEF FTL_GC, DurableInv, Storing, Erasing
<1>9. CASE ScanYounger
  <2>1. wrapped => wrapped'
    <3>1. CASE UNCHANGED wrapped
      BY <3>1
    <3>2. CASE \E p \in Pages : wrapped' = (wrapped \/ p >= U16)
      BY <3>2, Zenon
    <3>3. QED
      BY <1>9, <3>1, <3>2, StopsInChip DEF ScanYounger, Take
  <2>2. QED
    BY <1>9, <1>d, <2>1 DEF ScanYounger, DurableInv, Storing, Erasing
<1>10. CASE Get_FreeDPage
  <2>1. sector \in Sectors /\ sector \notin mapped /\ mapped \subseteq Sectors
    BY <1>10 DEF Get_FreeDPage, TypeOK, VarTypes, DurableInv, Storing
  <2>2. \A s \in mapped : DPM_Table'[s] = DPM_Table[s]
    BY <1>10, <2>1 DEF Get_FreeDPage, TypeOK, VarTypes
  <2>3. CASE pc' = "program"
    <3>1. sector' = sector /\ DPM_Table'[sector] = Page_Addr'
      BY <1>10, <2>1, <2>3 DEF Get_FreeDPage, Returned, TypeOK, VarTypes
    <3>2. QED
      BY <1>10, <1>d, <2>1, <2>2, <2>3, <3>1 DEF Get_FreeDPage, DurableInv, Storing, Erasing
  <2>4. CASE pc' = "idle"
    BY <1>10, <1>d, <2>1, <2>2, <2>4 DEF Get_FreeDPage, DurableInv, Storing, Erasing
  <2>5. QED
    BY <1>10, <2>3, <2>4 DEF Get_FreeDPage, Returned
<1>11. CASE WritePageData
  <2>1. Skew(Page_Addr) \in PhysicalPages /\ payload \in Payload
    BY <1>11, <1>b, <1>c DEF WritePageData, Erasing, TypeOK, VarTypes, Storing
  <2>2. /\ flash'[Skew(Page_Addr)].tag = flash[Skew(Page_Addr)].tag
        /\ \A g \in PhysicalPages : g # Skew(Page_Addr) => flash'[g] = flash[g]
    BY <1>11, <1>a, <2>1, DataReplaced DEF WritePageData, WriteData
  <2>3. ~wrapped => \A s \in Stored : home[s] # Skew(Page_Addr)
    BY <1>11, <1>a, <2>1, FreeIsNoHome DEF WritePageData, StoreInv, ReadSpare
  <2>4. AckedDurable'
    BY <1>11, <1>a, <2>1, <2>2, <2>3, OtherHomesDurable DEF WritePageData
  <2>5. \A f \in PhysicalPages : flash'[f].tag.bi = Clear
    BY <2>2 DEF DurableInv
  <2>6. Stored' = Stored
    BY <1>11 DEF WritePageData, Stored
  <2>7. QED
    BY <1>11, <2>4, <2>5, <2>6 DEF WritePageData, DurableInv, Storing, Erasing
<1>12. CASE WritePageTag
  <2>1. Skew(Page_Addr) \in PhysicalPages /\ TagOf(payload) \in Tag
    BY <1>12, <1>b, <1>c, ErasedTypes DEF WritePageTag, Erasing, TypeOK, VarTypes, Storing
  <2>2. /\ flash'[Skew(Page_Addr)].tag = TagOf(payload)
        /\ \A g \in PhysicalPages : g # Skew(Page_Addr) => flash'[g] = flash[g]
    BY <1>12, <1>a, <2>1, TagReplaced DEF WritePageTag, WriteSpare
  <2>3. ~wrapped => \A s \in Stored : home[s] # Skew(Page_Addr)
    BY <1>12, <1>a, <2>1, FreeIsNoHome DEF WritePageTag, StoreInv, ReadSpare
  <2>4. AckedDurable'
    BY <1>12, <1>a, <2>1, <2>2, <2>3, OtherHomesDurable DEF WritePageTag
  <2>5. \A f \in PhysicalPages : flash'[f].tag.bi = Clear
    BY <2>2 DEF DurableInv, TagOf
  <2>6. Stored' = Stored
    BY <1>12 DEF WritePageTag, Stored
  <2>7. QED
    BY <1>12, <2>3, <2>4, <2>5, <2>6 DEF WritePageTag, DurableInv, Storing, Erasing
<1>13. CASE VerifyPage
  <2>1. sector \in Sectors /\ payload \in Payload /\ payload # None
    BY <1>13, FTLAssumption DEF VerifyPage, TypeOK, VarTypes, Storing
  <2>2. Stored' = Stored \cup {sector}
    BY <1>13, <2>1 DEF VerifyPage, Stored, TypeOK, VarTypes
  <2>3. /\ acked'[sector] = payload /\ home'[sector] = Skew(Page_Addr)
        /\ \A s \in Sectors \ {sector} : acked'[s] = acked[s] /\ home'[s] = home[s]
    BY <1>13, <2>1 DEF VerifyPage, TypeOK, VarTypes
  <2>4. /\ flash[Skew(Page_Addr)].data = payload
        /\ flash[Skew(Page_Addr)].tag = TagOf(payload)
    BY <1>13 DEF VerifyPage, StoreInv, ReadData, ReadSpare
  <2>5. IsValid(TagOf(payload)) /\ TagOf(payload).ecc = payload
    BY <1>f DEF IsValid, TagOf
  <2>6. ~wrapped => \A s \in Stored : home[s] # Skew(Page_Addr)
    BY <1>13 DEF VerifyPage, DurableInv
  <2>7. UNCHANGED <<flash, wrapped, DPM_Table>>
    BY <1>13 DEF VerifyPage
  <2>8. Stored \subseteq Sectors /\ mapped \subseteq Sectors
    BY DEF Stored, TypeOK, VarTypes
  <2>9. AckedDurable'
    <3>1. ASSUME ~wrapped, NEW s \in Stored'
          PROVE  /\ flash[home'[s]].data = acked'[s]
                 /\ IsValid(flash[home'[s]].tag)
                 /\ flash[home'[s]].tag.ecc = acked'[s]
      <4>1. CASE s = sector
        BY <2>3, <2>4, <2>5, <4>1
      <4>2. CASE s # sector
        BY <1>a, <2>2, <2>3, <2>8, <3>1, <4>2 DEF AckedDurable
      <4>3. QED
        BY <4>1, <4>2
    <3>2. ASSUME ~wrapped, NEW s \in Stored', NEW t \in Stored', home'[s] = home'[t]
          PROVE  s = t
      BY <1>a, <2>2, <2>3, <2>6, <2>8, <3>2 DEF AckedDurable
    <3>3. QED
      BY <2>7, <3>1, <3>2 DEF AckedDurable
  <2>10. mapped' = mapped \cup {sector} /\ sector \notin mapped
         /\ DPM_Table[sector] = Page_Addr
    BY <1>13 DEF VerifyPage, DurableInv, Storing
  <2>11. ~wrapped => \A s \in mapped' : s \in Stored' /\ Skew(DPM_Table[s]) = home'[s]
    BY <2>2, <2>3, <2>8, <2>10 DEF DurableInv
  <2>12. pc' = "idle"
    BY <1>13 DEF VerifyPage, Returned
  <2>13. QED
    BY <1>13, <2>7, <2>9, <2>11, <2>12 DEF VerifyPage, DurableInv, Storing, Erasing
<1>14. CASE RejectPage
  <2>1. ReadSpare(flash, Page_Addr).ecc = payload /\ ReadData(flash, Page_Addr) = payload
    BY <1>14 DEF RejectPage, StoreInv, TagOf
  <2>2. QED
    BY <1>14, <2>1 DEF RejectPage, EccAgrees
<1>15. CASE MarkPageBad
  BY <1>15 DEF MarkPageBad, DurableInv
<1>16. ASSUME NEW blk \in Blocks, pageOP_EraseBlk(blk) PROVE DurableInv'
  <2>1. PagesOf(blk) \subseteq Pages /\ FirstPage(blk) + PagesPerBlock - 1 \in Pages
    BY BlockInChip, NandAssumption DEF PagesOf, FirstPage, Pages
  <2>2. marks' = {} /\ fresh'.bi = Clear
    BY <1>16, <1>e, <2>1 DEF pageOP_EraseBlk, IsBad
  <2>3. Stored = {}
    BY <1>16 DEF pageOP_EraseBlk, Stored
  <2>4. pc' \in {"erase", "abort"} /\ mapped' = {}
    BY <1>16 DEF pageOP_EraseBlk, DurableInv
  <2>5. QED
    BY <1>16, <1>d, <2>2, <2>3, <2>4 DEF pageOP_EraseBlk, DurableInv, Storing, Erasing
<1>17. CASE Nand_EraseBlock
  <2>1. m16i_Blk \in Blocks
    BY <1>17 DEF Nand_EraseBlock, TypeOK, VarTypes, Erasing
  <2>2. \A f \in PhysicalPages :
          flash'[f] = IF f \in ErasedBy(FirstPage(m16i_Blk)) THEN ErasedPage ELSE flash[f]
    BY <1>17, <1>a, <2>1, BlockErased DEF Nand_EraseBlock
  <2>3. \A f \in PhysicalPages : flash'[f].tag.bi = Clear
    BY <2>2, ErasedTypes DEF DurableInv, ErasedPage
  <2>4. AckedDurable' /\ Stored' = {}
    BY <1>17, NothingStored DEF Nand_EraseBlock, DurableInv, Erasing
  <2>5. fresh'.bi = Clear
    BY <1>17 DEF Nand_EraseBlock, ErasedTag
  <2>6. QED
    BY <1>17, <2>3, <2>4, <2>5 DEF Nand_EraseBlock, DurableInv, Storing, Erasing
<1>18. CASE Retag
  <2>1. Skew(Page_Addr) \in PhysicalPages /\ NewTag(Page_Addr) \in Tag
    BY <1>18, SkewInFile, ErasedTypes DEF Retag, TypeOK, VarTypes, Erasing, NewTag
  <2>2. NewTag(Page_Addr).bi = Clear
    BY DEF NewTag, DurableInv, TypeOK, VarTypes, Tag
  <2>3. /\ flash'[Skew(Page_Addr)].tag = NewTag(Page_Addr)
        /\ \A g \in PhysicalPages : g # Skew(Page_Addr) => flash'[g] = flash[g]
    BY <1>18, <1>a, <2>1, TagReplaced DEF Retag, WriteSpare
  <2>4. \A f \in PhysicalPages : flash'[f].tag.bi = Clear
    BY <2>2, <2>3 DEF DurableInv
  <2>5. AckedDurable' /\ Stored' = {}
    BY <1>18, NothingStored DEF Retag, DurableInv, Erasing
  <2>6. pc' \in {"retag", "up"} /\ marks' = {} /\ fresh'.bi = Clear
    BY <1>18, ErasedTypes DEF Retag, Returned, DurableInv
  <2>7. mapped = {} /\ mapped' = {}
    BY <1>18 DEF Retag, DurableInv, Erasing
  <2>8. QED
    BY <2>4, <2>5, <2>6, <2>7 DEF DurableInv, Storing, Erasing
<1>19. CASE Killed
  <2>1. (\A f \in PhysicalPages : flash'[f].tag.bi = Clear) /\ AckedDurable'
    <3>1. CASE UNCHANGED <<flash, torn>>
      BY <1>19, <1>d, <3>1 DEF Killed, Death, DurableInv
    <3>2. CASE pc = "program" /\ flash' = WriteData(flash, Page_Addr, Partial) /\ UNCHANGED torn
      <4>1. Skew(Page_Addr) \in PhysicalPages
        BY <3>2, <1>b, <1>c DEF Erasing
      <4>2. /\ flash'[Skew(Page_Addr)].tag = flash[Skew(Page_Addr)].tag
            /\ \A g \in PhysicalPages : g # Skew(Page_Addr) => flash'[g] = flash[g]
        BY <1>a, <3>2, <4>1, DataReplaced DEF WriteData
      <4>3. ~wrapped => \A s \in Stored : home[s] # Skew(Page_Addr)
        BY <1>a, <3>2, <4>1, FreeIsNoHome DEF StoreInv, ReadSpare
      <4>4. AckedDurable'
        BY <1>19, <1>a, <4>1, <4>2, <4>3, OtherHomesDurable DEF Killed, Death
      <4>5. QED
        BY <4>2, <4>4 DEF DurableInv
    <3>3. CASE pc = "tag" /\ TornTag(Skew(Page_Addr), TagOf(payload))
      <4>1. Skew(Page_Addr) \in PhysicalPages /\ TagOf(payload) \in Tag
        BY <3>3, <1>b, <1>c, ErasedTypes DEF Erasing, TypeOK, VarTypes, Storing
      <4>2. /\ flash'[Skew(Page_Addr)].tag.bi \in {flash[Skew(Page_Addr)].tag.bi, TagOf(payload).bi}
            /\ \A g \in PhysicalPages : g # Skew(Page_Addr) => flash'[g] = flash[g]
        BY <1>a, <3>3, <4>1, TornFlag
      <4>3. ~wrapped => \A s \in Stored : home[s] # Skew(Page_Addr)
        BY <1>a, <3>3, <4>1, FreeIsNoHome DEF StoreInv, ReadSpare
      <4>4. AckedDurable'
        BY <1>19, <1>a, <4>1, <4>2, <4>3, OtherHomesDurable DEF Killed, Death
      <4>5. QED
        BY <4>1, <4>2, <4>4 DEF DurableInv, TagOf
    <3>4. CASE pc = "retag" /\ TornTag(Skew(Page_Addr), NewTag(Page_Addr))
      <4>1. Skew(Page_Addr) \in PhysicalPages /\ NewTag(Page_Addr) \in Tag
        BY <3>4, SkewInFile, ErasedTypes DEF TypeOK, VarTypes, Erasing, NewTag
      <4>2. NewTag(Page_Addr).bi = Clear
        BY DEF NewTag, DurableInv, TypeOK, VarTypes, Tag
      <4>3. /\ flash'[Skew(Page_Addr)].tag.bi \in {flash[Skew(Page_Addr)].tag.bi, NewTag(Page_Addr).bi}
            /\ \A g \in PhysicalPages : g # Skew(Page_Addr) => flash'[g] = flash[g]
        BY <1>a, <3>4, <4>1, TornFlag
      <4>4. AckedDurable'
        BY <1>19, <3>4, NothingStored DEF Killed, Death, DurableInv, Erasing
      <4>5. QED
        BY <4>1, <4>2, <4>3, <4>4 DEF DurableInv
    <3>5. CASE pc = "erase" /\ TornErase
      <4>1. m16i_Blk \in Blocks
        BY <3>5 DEF TypeOK, VarTypes, Erasing
      <4>2. \A f \in PhysicalPages : flash'[f].tag.bi = Clear
        BY <1>a, <3>5, <4>1, TornEraseFlags DEF DurableInv
      <4>3. AckedDurable'
        BY <1>19, <3>5, NothingStored DEF Killed, Death, DurableInv, Erasing
      <4>4. QED
        BY <4>2, <4>3
    <3>6. QED
      BY <1>19, <3>1, <3>2, <3>3, <3>4, <3>5 DEF Killed, Death, DurableInv
  <2>2. pc' = "off" /\ mapped' = {} /\ marks' = {} /\ fresh'.bi = Clear
    BY <1>19, ErasedTypes DEF Killed, Death, Returned
  <2>3. QED
    BY <2>1, <2>2 DEF DurableInv, Storing, Erasing
<1>20. QED
  BY <1>1, <1>2, <1>3, <1>4, <1>5, <1>6, <1>6m, <1>7, <1>8, <1>9, <1>10, <1>11, <1>12, <1>13,
     <1>14, <1>15, <1>16, <1>17, <1>18, <1>19
  DEF Next, Calls, Running

LEMMA DurableInvariance ==
  ASSUME DPM_Pages_Per_Blk = 1, Overread = FALSE
  PROVE  Spec => [](TypeOK /\ DurableInv)
<1>1. Init => TypeOK /\ StoreInv /\ DurableInv
  BY TypeInit, StoreInit, DurableInit
<1>2. (TypeOK /\ StoreInv /\ DurableInv) /\ [Next]_vars => (TypeOK /\ StoreInv /\ DurableInv)'
  BY TypeStep, StoreStep, DurableStep DEF TypeOK
<1>3. QED
  BY <1>1, <1>2, PTL DEF Spec

\* What pageOP_Write returned success for stays on the chip, on a page of its
\* own, until its sector is stored again: through the storing of every other
\* sector, attempts that fail, and restarts (Get_Useful_WPage, Dynamic_WL).
THEOREM AckedIsDurable ==
  ASSUME DPM_Pages_Per_Blk = 1, Overread = FALSE
  PROVE  Spec => []AckedDurable
<1>1. DurableInv => AckedDurable
  BY DEF DurableInv
<1>2. QED
  BY <1>1, DurableInvariance, PTL

\* Between calls, every sector stored since the page map was built is read back
\* as it was stored (Get_FreeDPage, Get_Useful_RPage).
THEOREM ReadsBack ==
  ASSUME DPM_Pages_Per_Blk = 1, Overread = FALSE
  PROVE  Spec => []ReadBack
<1>1. TypeOK /\ DurableInv => ReadBack
  BY DEF TypeOK, VarTypes, DurableInv, AckedDurable, ReadBack, ReadData, Get_Useful_RPage
<1>2. QED
  BY <1>1, DurableInvariance, PTL
=============================================================================
