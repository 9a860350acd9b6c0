------------------------------ MODULE GCProofs -------------------------------
(***************************************************************************)
(* Theorems about GC, for every geometry of the chip, every number of      *)
(* sectors, and every number of calls and deaths.                          *)
(***************************************************************************)
EXTENDS GC, FTLProofs

-----------------------------------------------------------------------------
(* Numbers of pages and blocks.                                            *)

LEMMA BlockPages ==
  ASSUME NEW blk \in Blocks
  PROVE  /\ blk + 1 \in 0 .. BlocksPerChip
         /\ blk \in 0 .. BlocksPerChip
         /\ PagesOf(blk) \subseteq Pages
         /\ PagesOf(blk) # {}
         /\ FirstPage(blk) \in PagesOf(blk)
         /\ FirstPage(blk) + PagesPerBlock - 1 \in PagesOf(blk)
         /\ FirstPage(blk) \in 0 .. PagesPerChip
<1>1. /\ blk * PagesPerBlock \in Nat
      /\ blk * PagesPerBlock + PagesPerBlock <= PagesPerChip
      /\ PagesOf(blk) \subseteq Pages
  BY BlockInChip
<1>2. FirstPage(blk) \in PagesOf(blk) /\ FirstPage(blk) + PagesPerBlock - 1 \in PagesOf(blk)
  BY <1>1, NandAssumption DEF PagesOf, FirstPage
<1>3. blk + 1 \in 0 .. BlocksPerChip /\ blk \in 0 .. BlocksPerChip
  BY NandAssumption DEF Blocks
<1>4. QED
  BY <1>1, <1>2, <1>3, Sizes, NandAssumption DEF FirstPage

LEMMA ProductInNat ==
  ASSUME NEW a \in Nat, NEW b \in Nat
  PROVE  a * b \in Nat
  OBVIOUS

LEMMA PageBounds ==
  ASSUME NEW p \in Pages
  PROVE  /\ p \in Nat
         /\ p + 1 \in 0 .. PagesPerChip
         /\ p \div DPM_Pages_Per_Blk = p
  BY Sizes, GCAssumption DEF Pages

\* The assertion of the simulator lets only pages of the chip pass.
LEMMA ReachedPage ==
  ASSUME NEW n \in Nat, PageReaches(n)
  PROVE  n \in Pages
<1>1. PagesPerChip \in Nat \ {0}
  BY Sizes
<1>2. /\ n % PagesPerChip \in 0 .. PagesPerChip - 1
      /\ n = (n \div PagesPerChip) * PagesPerChip + (n % PagesPerChip)
  BY <1>1, QuotientRemainder
<1>3. n \div PagesPerChip = 0
  BY DEF PageReaches
<1>4. n = n % PagesPerChip
  BY <1>1, <1>2, <1>3
<1>5. QED
  BY <1>2, <1>4 DEF Pages

LEMMA NotedInBlock ==
  ASSUME NEW blk \in Blocks
  PROVE  Noted(blk) \subseteq Pages
  BY BlockPages DEF Noted

LEMMA ReachInFile ==
  ASSUME NEW blk \in Blocks
  PROVE  /\ ErasedBy(FirstPage(blk)) \subseteq Reach(blk)
         /\ \A p \in PagesOf(blk) : Skew(p) \in Reach(blk)
  BY DEF Reach

LEMMA StoredSectors ==
  /\ Stored \subseteq Sectors
  /\ \A pages : StoredIn(pages) \subseteq Sectors
  BY DEF Stored, StoredIn

-----------------------------------------------------------------------------
(* Writes to the chip image.                                               *)

LEMMA TagPut ==
  ASSUME flash \in Image, NEW f \in PhysicalPages, NEW tag \in Tag,
         flash' = [flash EXCEPT ![f].tag = tag]
  PROVE  /\ flash' \in Image
         /\ flash'[f].tag = tag
         /\ flash'[f].data = flash[f].data
         /\ \A g \in PhysicalPages : g # f => flash'[g] = flash[g]
<1>1. flash' \in Image
  BY TagReplaced
<1>2. flash'[f].tag = tag
  BY TagReplaced
<1>3. flash'[f].data = flash[f].data
  BY TagReplaced
<1>4. \A g \in PhysicalPages : g # f => flash'[g] = flash[g]
  BY TagReplaced
<1>5. QED
  BY <1>1, <1>2, <1>3, <1>4

LEMMA MarkedImage ==
  ASSUME flash \in Image, NEW blk \in Blocks, NAND_MarkBadBlock(blk)
  PROVE  /\ flash' \in Image
         /\ BadMark(blk) \in PhysicalPages
         /\ ~IsValid(flash'[BadMark(blk)].tag)
         /\ \A g \in PhysicalPages : g # BadMark(blk) => flash'[g] = flash[g]
<1>1. BadMark(blk) \in PhysicalPages
  BY MarkedPage
<1>2. PICK tag \in Tag : tag.bi = Set /\ flash' = [flash EXCEPT ![BadMark(blk)].tag = tag]
  BY GarbageAssumption DEF NAND_MarkBadBlock
<1>3. ~IsValid(tag)
  BY <1>2 DEF IsValid, Set, Clear
<1>4. /\ flash' \in Image
      /\ flash'[BadMark(blk)].tag = tag
      /\ \A g \in PhysicalPages : g # BadMark(blk) => flash'[g] = flash[g]
  BY <1>1, <1>2, TagPut
<1>5. QED
  BY <1>1, <1>3, <1>4

LEMMA TagWritten ==
  ASSUME flash \in Image, NEW p \in Pages, NEW tag \in Tag,
         flash' = WriteSpare(flash, p, tag)
  PROVE  /\ flash' \in Image
         /\ Skew(p) \in PhysicalPages
         /\ flash'[Skew(p)].tag = tag
         /\ flash'[Skew(p)].data = flash[Skew(p)].data
         /\ \A g \in PhysicalPages : g # Skew(p) => flash'[g] = flash[g]
  BY SkewInFile, TagPut DEF WriteSpare

LEMMA GarbageTag ==
  ASSUME NEW tag \in Garbage
  PROVE  tag \in Tag /\ ~IsValid(tag)
  BY GarbageAssumption DEF IsValid, Set, Clear

LEMMA DirtyTag ==
  ASSUME NEW tag \in Tag
  PROVE  /\ [tag EXCEPT !.dirty = Set] \in Tag
         /\ ~IsValid([tag EXCEPT !.dirty = Set])
  BY DEF Tag, IsValid, Set, Clear, Flag

LEMMA PageCopied ==
  ASSUME flash \in Image, NEW src \in Pages, NEW dst \in Pages,
         flash' = WritePage(flash, dst, flash[Skew(src)])
  PROVE  /\ flash' \in Image
         /\ Skew(src) \in PhysicalPages /\ Skew(dst) \in PhysicalPages
         /\ flash'[Skew(dst)] = flash[Skew(src)]
         /\ \A g \in PhysicalPages : g # Skew(dst) => flash'[g] = flash[g]
<1>1. Skew(src) \in PhysicalPages /\ Skew(dst) \in PhysicalPages
  BY SkewInFile
<1>2. flash[Skew(src)] \in Content
  BY <1>1 DEF Image
<1>3. QED
  BY <1>1, <1>2 DEF WritePage, Image

LEMMA NewTagTypes ==
  ASSUME fresh \in Tag, NEW page
  PROVE  /\ NewTag(page) \in Tag
         /\ fresh.used = Clear => ~IsValid(NewTag(page))
<1>1. NewTag(page) \in Tag
  BY ErasedTypes DEF NewTag
<1>2. NewTag(page).used = fresh.used
  BY DEF NewTag, Tag
<1>3. QED
  BY <1>1, <1>2 DEF IsValid

-----------------------------------------------------------------------------
(* Types, and where the process can be.                                    *)

GCBase == GCTypeOK /\ PlaceInv

LEMMA GCBaseInit ==
  GCInit => GCBase
<1> SUFFICES ASSUME GCInit PROVE GCBase
  OBVIOUS
<1>1. TypeOK
  BY TypeInit DEF GCInit
<1>2. 0 \in PageNumbers /\ 0 \in Blocks /\ 0 \in Pages /\ 0 \in 0 .. U8 - 1
      /\ 0 \in 0 .. BlocksPerChip /\ 0 \in 0 .. PagesPerChip /\ 0 \in 0 .. PagesPerBlock
  BY Words, Sizes, NandAssumption, GCAssumption DEF PageNumbers, MAX16, Blocks, Pages
<1>3. GCTypeOK
  BY <1>1, <1>2 DEF GCTypeOK, TypeOK, GCInit, NoGC, NoMove, NoWear
<1>4. PlaceInv
  BY DEF PlaceInv, GCInit, Init, NoGC, NoMove, Passes, Searches, MovePlaces, Erasing
<1>5. QED
  BY <1>3, <1>4 DEF GCBase

LEMMA StoringIsNext ==
  ASSUME Storing_FTL \/ VerifyPage \/ MarkBlockBad, UNCHANGED <<BBT_BlkNum, kills>>
  PROVE  Next
  BY DEF Storing_FTL, Next, Running

\* The steps that this module shares with FTL.
LEMMA SharedTypes ==
  ASSUME GCBase, [Next]_vars, pc = "scan2" /\ pc' = "program" => place = "none"
  PROVE  VarTypes'
<1>1. pc = "scan2" /\ pc' = "program" => payload \in Payload
  BY DEF GCBase, PlaceInv
<1>2. QED
  BY <1>1, VarStep DEF GCBase, GCTypeOK

LEMMA SharedBase ==
  ASSUME GCBase, Storing_FTL, UNCHANGED gcLocals, UNCHANGED <<BBT_BlkNum, kills, churn>>
  PROVE  GCBase'
<1> USE DEF mapVars, scanVars, eraseVars, history, gcLocals
<1> DEFINE Goal == /\ pc' \in {"dpm", "idle", "up", "mark"} \cup Storing \cup Erasing
                   /\ pc = "scan2" /\ pc' = "program" => place = "none"
                   /\ PlaceInv'
<1>a. PlaceInv
  BY DEF GCBase
<1>1. ASSUME Create_DPM PROVE Goal
  BY <1>1, <1>a DEF Create_DPM, PlaceInv, Erasing
<1>2. ASSUME ScanFirst PROVE Goal
  BY <1>2, <1>a DEF ScanFirst, PlaceInv, Erasing, Storing
<1>3. ASSUME ScanYounger PROVE Goal
  BY <1>3, <1>a DEF ScanYounger, PlaceInv, Erasing, Storing
<1>4. ASSUME place = "none" /\ Get_FreeDPage PROVE Goal
  BY <1>4, <1>a DEF Get_FreeDPage, Returned, PlaceInv, Erasing, Storing, Passes, Searches, MovePlaces
<1>5. ASSUME WritePageData \/ WritePageTag \/ RejectPage PROVE Goal
  BY <1>5, <1>a DEF WritePageData, WritePageTag, RejectPage, PlaceInv, Erasing, Storing
<1>6. ASSUME MarkPageBad PROVE Goal
  BY <1>6, <1>a DEF MarkPageBad, Returned, PlaceInv, Erasing, Storing, Passes, Searches, MovePlaces
<1>7. ASSUME Nand_EraseBlock PROVE Goal
  BY <1>7, <1>a DEF Nand_EraseBlock, PlaceInv, Erasing
<1>8. ASSUME Retag, (place # "none" => pc' = "retag") PROVE Goal
  <2>1. CASE pc' = "retag"
    BY <1>8, <1>a, <2>1 DEF Retag, Returned, PlaceInv, Erasing
  <2>2. CASE pc' # "retag"
    BY <1>8, <1>a, <2>2 DEF Retag, Returned, PlaceInv, Erasing, Passes, Searches, MovePlaces
  <2>3. QED
    BY <2>1, <2>2
<1>8m. ASSUME MeetBadPage PROVE Goal
  BY <1>8m, <1>a DEF MeetBadPage, PlaceInv, Erasing
<1>9. Goal
  BY <1>1, <1>2, <1>3, <1>4, <1>5, <1>6, <1>7, <1>8, <1>8m DEF Storing_FTL
<1>10. VarTypes'
  BY <1>9, StoringIsNext, SharedTypes
<1>11. GCTypeOK'
  BY <1>9, <1>10 DEF GCBase, GCTypeOK
<1>12. QED
  BY <1>9, <1>11 DEF GCBase

\* Steps that leave the variables of FTL alone but for the place.
LEMMA OnlyThePlace ==
  ASSUME GCBase,
         UNCHANGED <<flash, BBT_BlkNum, mapVars, scanVars, eraseVars, history, kills>>,
         pc \notin Erasing \cup {"mark"},
         pc' \notin Erasing \cup {"mark", "program", "tag", "verify", "markbad"}
  PROVE  VarTypes'
  BY DEF GCBase, GCTypeOK, VarTypes, mapVars, scanVars, eraseVars, history, Erasing

LEMMA VerifyBase ==
  ASSUME GCBase, VerifyPage, lost' = lost \ {sector}, UNCHANGED <<place, gc, mv, wl>>,
         UNCHANGED <<BBT_BlkNum, kills, churn>>
  PROVE  GCBase'
<1>a. PlaceInv
  BY DEF GCBase
<1>1. VarTypes'
  BY StoringIsNext, SharedTypes DEF VerifyPage
<1>2. pc' = "idle"
  BY DEF VerifyPage, Returned
<1>3. GCTypeOK'
  BY <1>1, <1>2 DEF GCBase, GCTypeOK
<1>4. PlaceInv'
  BY <1>a DEF VerifyPage, Returned, PlaceInv, Erasing, Passes, Searches, MovePlaces
<1>5. QED
  BY <1>3, <1>4 DEF GCBase

LEMMA MarkBlockBase ==
  ASSUME GCBase, MarkBlockBad, lost' = lost \cup StoredIn({BadMark(m16i_Blk)}),
         UNCHANGED <<place, gc, mv, wl>>, UNCHANGED <<BBT_BlkNum, kills, churn>>
  PROVE  GCBase'
<1>a. PlaceInv
  BY DEF GCBase
<1>1. VarTypes'
  BY StoringIsNext, SharedTypes DEF MarkBlockBad, NAND_BuildBBT
<1>2. pc' = "hung"
  BY DEF MarkBlockBad, NAND_BuildBBT
<1>3. lost' \subseteq Sectors
  BY StoredSectors DEF GCBase, GCTypeOK
<1>4. GCTypeOK'
  BY <1>1, <1>2, <1>3 DEF GCBase, GCTypeOK
<1>5. PlaceInv'
  BY <1>a, <1>2 DEF MarkBlockBad, scanVars, PlaceInv, Erasing
<1>6. QED
  BY <1>4, <1>5 DEF GCBase

LEMMA MarkBadBase ==
  ASSUME GCBase, NEW blk \in Blocks, MarkBad(blk), pc \notin Erasing,
         UNCHANGED <<BBT_BlkNum, kills>>, churn' \in Nat
  PROVE  GCBase'
<1> USE DEF mapVars, scanVars, eraseVars, history
<1>a. PlaceInv
  BY DEF GCBase
<1>1. pc' = "mark"
  BY DEF MarkBad
<1>2. VarTypes'
  BY <1>1 DEF MarkBad, GCBase, GCTypeOK, VarTypes, Erasing
<1>3. GCTypeOK'
  BY <1>1, <1>2 DEF MarkBad, GCBase, GCTypeOK
<1>4. PlaceInv'
  BY <1>a, <1>1 DEF MarkBad, PlaceInv, Erasing
<1>5. QED
  BY <1>3, <1>4 DEF GCBase

\* FTL_GC is called, calls Dynamic_WL, and returns.
LEMMA CallBase ==
  ASSUME GCBase, StoreInv, UNCHANGED <<BBT_BlkNum, kills, churn>>,
         \/ FTL_GC_WhenIdle \/ FTL_GC_ForStore \/ FTL_GC_Recursion \/ FTL_GC_Returns
         \/ CallDynamic_WL \/ Dynamic_WL_Returns
  PROVE  GCBase'
<1> USE DEF mapVars, scanVars, eraseVars, history, gcLocals
<1>a. PlaceInv /\ GCTypeOK /\ VarTypes
  BY DEF GCBase, GCTypeOK
<1>b. 0 \in PageNumbers /\ MAX16 \in PageNumbers /\ 0 \in 0 .. BlocksPerChip
      /\ 0 \in 0 .. PagesPerChip /\ 0 \in 0 .. PagesPerBlock
  BY Words, Sizes, NandAssumption DEF PageNumbers, MAX16
<1>1. CASE FTL_GC_WhenIdle
  <2>1. VarTypes'
    BY <1>1, OnlyThePlace DEF FTL_GC_WhenIdle, FTL_GC_From, Erasing
  <2>2. GCTypeOK'
    BY <1>1, <1>a, <1>b, <2>1 DEF FTL_GC_WhenIdle, FTL_GC_From, NoGC, GCTypeOK, Passes
  <2>3. PlaceInv'
    BY <1>1, <1>a DEF FTL_GC_WhenIdle, FTL_GC_From, NoGC, PlaceInv, Erasing, Passes, Searches, MovePlaces
  <2>4. QED
    BY <2>2, <2>3 DEF GCBase
<1>2. CASE FTL_GC_ForStore
  <2>1. VarTypes'
    BY <1>2, <1>a, <1>b DEF FTL_GC_ForStore, FTL_GC_From, Erasing, VarTypes
  <2>2. GCTypeOK'
    BY <1>2, <1>a, <1>b, <2>1 DEF FTL_GC_ForStore, FTL_GC_From, NoGC, GCTypeOK, Passes
  <2>3. PlaceInv'
    <3>1. Page_Addr' = MAX16
      BY <1>2 DEF FTL_GC_ForStore, StoreInv
    <3>2. QED
      BY <1>2, <1>a, <3>1
      DEF FTL_GC_ForStore, FTL_GC_From, NoGC, PlaceInv, Erasing, Passes, Searches, MovePlaces
  <2>4. QED
    BY <2>2, <2>3 DEF GCBase
<1>3. CASE FTL_GC_Recursion
  <2>1. VarTypes'
    BY <1>3, OnlyThePlace DEF FTL_GC_Recursion, Erasing
  <2>2. GCTypeOK' /\ PlaceInv'
    BY <1>3, <1>a, <2>1 DEF FTL_GC_Recursion, GCTypeOK, PlaceInv, Erasing
  <2>3. QED
    BY <2>2 DEF GCBase
<1>4. CASE FTL_GC_Returns
  <2>1. pc' \in {"gc", "idle", "scan1"}
    BY <1>4, <1>a DEF FTL_GC_Returns, GcIsDone, GCTypeOK, PlaceInv, Passes
  <2>2. VarTypes'
    BY <1>4, <2>1, OnlyThePlace DEF FTL_GC_Returns, GcIsDone, Erasing
  <2>3. GCTypeOK'
    BY <1>4, <1>a, <1>b, <2>1, <2>2 DEF FTL_GC_Returns, NoGC, GCTypeOK, Storing, Passes
  <2>4. PlaceInv'
    BY <1>4, <1>a, <2>1 DEF FTL_GC_Returns, GcIsDone, NoGC, PlaceInv, Erasing, Passes, Searches, MovePlaces
  <2>5. QED
    BY <2>3, <2>4 DEF GCBase
<1>5. CASE CallDynamic_WL
  <2>1. VarTypes'
    BY <1>5, <1>a, <1>b DEF CallDynamic_WL, Erasing, VarTypes
  <2>2. GCTypeOK' /\ PlaceInv'
    BY <1>5, <1>a, <2>1 DEF CallDynamic_WL, GCTypeOK, PlaceInv, Erasing, Storing
  <2>3. QED
    BY <2>2 DEF GCBase
<1>6. CASE Dynamic_WL_Returns
  <2>1. VarTypes'
    BY <1>6, <1>a, <1>b DEF Dynamic_WL_Returns, Erasing, VarTypes
  <2>2. Page_Addr \div DPM_Pages_Per_Blk \in Pages
    BY <1>6, <1>a, Words, PageBounds DEF Dynamic_WL_Returns, VarTypes, Erasing
  <2>3. GCTypeOK'
    BY <1>6, <1>a, <2>1, <2>2 DEF Dynamic_WL_Returns, GCTypeOK
  <2>4. PlaceInv'
    BY <1>6, <1>a DEF Dynamic_WL_Returns, GCTypeOK, PlaceInv, Erasing, Passes, Searches, MovePlaces
  <2>5. QED
    BY <2>3, <2>4 DEF GCBase
<1>7. QED
  BY <1>1, <1>2, <1>3, <1>4, <1>5, <1>6

\* A block is given to pageOP_EraseBlk.
LEMMA CollectTypes ==
  ASSUME GCBase, pc = "gc", NEW blk \in Blocks, Collect(blk),
         UNCHANGED <<BBT_BlkNum, kills>>
  PROVE  /\ VarTypes'
         /\ pc' \in {"erase", "abort"}
         /\ lost' \subseteq Sectors
<1> USE DEF mapVars, history
<1>1. flash \in Image /\ VarTypes /\ lost \subseteq Sectors
  BY DEF GCBase, GCTypeOK, VarTypes, Image
<1>2. marks' \subseteq Pages
  BY BlockPages DEF Collect, Bad
<1>3. fresh' \in Tag
  BY <1>1, BlockPages, Accesses DEF Collect
<1>4. Page_Addr \in Pages /\ Page_Addr \in PageNumbers
  BY <1>1, Words DEF VarTypes, Erasing
<1>5. pc' \in {"erase", "abort"}
  BY DEF Collect
<1>6. VarTypes'
  BY <1>1, <1>2, <1>3, <1>4, <1>5, BlockPages DEF Collect, VarTypes, Erasing
<1>7. lost' \subseteq Sectors
  BY <1>1, StoredSectors DEF Collect
<1>8. QED
  BY <1>5, <1>6, <1>7

\* Having more dirty than live pages takes a dirty one.
LEMMA SomeAreDirty ==
  ASSUME NEW blk \in Blocks, Cardinality(Dirty(blk)) > Cardinality(Live(blk))
  PROVE  Dirty(blk) # {}
<1>1. IsFiniteSet(Live(blk))
  <2>1. IsFiniteSet(0 .. PagesPerChip - 1)
    BY Sizes, FS_Interval
  <2>2. Live(blk) \subseteq 0 .. PagesPerChip - 1
    BY BlockPages DEF Live, Pages
  <2>3. QED
    BY <2>1, <2>2, FS_Subset
<1>2. Cardinality(Live(blk)) \in Nat
  BY <1>1, FS_CardinalityType
<1>3. Cardinality({}) = 0
  BY FS_EmptySet
<1>4. QED
  BY <1>2, <1>3

LEMMA PassBase ==
  ASSUME GCBase, UNCHANGED <<BBT_BlkNum, kills, churn>>,
         Pass1 \/ NextPass \/ Pass2 \/ Pass3
  PROVE  GCBase'
<1> USE DEF mapVars, scanVars, eraseVars, history, gcLocals
<1>a. PlaceInv /\ GCTypeOK /\ VarTypes
  BY DEF GCBase, GCTypeOK
<1>b. 0 \in 0 .. BlocksPerChip /\ 0 \in 0 .. PagesPerBlock
  BY NandAssumption
<1>1. CASE Pass1
  <2>1. gc.blk \in Blocks /\ gc.blk + 1 \in 0 .. BlocksPerChip
    BY <1>1, BlockPages DEF Pass1, Looking
  <2>2. /\ VarTypes'
        /\ pc' \in {"gc", "erase", "abort"}
        /\ lost' \subseteq Sectors
        /\ UNCHANGED <<mv, wl, payload>>
        /\ pc' = "gc" => UNCHANGED Page_Addr
    <3>1. CASE Collect(gc.blk)
      BY <1>1, <2>1, <3>1, CollectTypes DEF Pass1, Looking, Collect
    <3>2. CASE UNCHANGED <<flash, pc, mapVars, scanVars, eraseVars, history, mv, wl, lost>>
      BY <1>1, <1>a, <3>2, OnlyThePlace DEF Pass1, Looking, GCTypeOK, Erasing
    <3>3. QED
      BY <1>1, <3>1, <3>2 DEF Pass1
  <2>3. GCTypeOK'
    BY <1>1, <1>a, <2>1, <2>2 DEF Pass1, GCTypeOK, Erasing
  <2>4. PlaceInv'
    BY <1>1, <1>a, <2>2 DEF Pass1, Looking, GCTypeOK, PlaceInv, Erasing, Passes, Searches, MovePlaces
  <2>5. QED
    BY <2>3, <2>4 DEF GCBase
<1>2. CASE NextPass
  <2>1. VarTypes'
    BY <1>2, OnlyThePlace DEF NextPass, Erasing
  <2>2. GCTypeOK'
    BY <1>2, <1>a, <1>b, <2>1 DEF NextPass, GCTypeOK, Passes
  <2>3. PlaceInv'
    BY <1>2, <1>a DEF NextPass, GCTypeOK, PlaceInv, Erasing, Passes, Searches, MovePlaces
  <2>4. QED
    BY <2>2, <2>3 DEF GCBase
<1>3. CASE Pass2
  <2>1. gc.blk \in Blocks /\ gc.blk + 1 \in 0 .. BlocksPerChip
        /\ Noted(gc.blk) \subseteq Pages /\ FirstPage(gc.blk) \in 0 .. PagesPerChip
    BY <1>3, BlockPages, NotedInBlock DEF Pass2, Looking
  <2>2. VarTypes'
    BY <1>3, OnlyThePlace DEF Pass2, Looking, Erasing
  <2>3. GCTypeOK'
    BY <1>3, <1>a, <1>b, <2>1, <2>2 DEF Pass2, GCTypeOK
  <2>4. PlaceInv'
    BY <1>3, <1>a, <2>1, SomeAreDirty
    DEF Pass2, Looking, GCTypeOK, PlaceInv, Erasing, Passes, Searches, MovePlaces
  <2>5. QED
    BY <2>3, <2>4 DEF GCBase
<1>4. CASE Pass3
  <2>1. gc.blk \in Blocks /\ gc.blk + 1 \in 0 .. BlocksPerChip
        /\ Noted(gc.blk) \subseteq Pages /\ FirstPage(gc.blk) \in 0 .. PagesPerChip
    BY <1>4, BlockPages, NotedInBlock DEF Pass3, Looking
  <2>2. VarTypes'
    BY <1>4, OnlyThePlace DEF Pass3, Looking, Erasing
  <2>3. GCTypeOK'
    BY <1>4, <1>a, <1>b, <2>1, <2>2 DEF Pass3, GCTypeOK
  <2>4. PlaceInv'
    BY <1>4, <1>a, <2>1 DEF Pass3, Looking, GCTypeOK, PlaceInv, Erasing, Passes, Searches, MovePlaces
  <2>5. QED
    BY <2>3, <2>4 DEF GCBase
<1>5. QED
  BY <1>1, <1>2, <1>3, <1>4

\* The map entries searched are entries of the map.
LEMMA MappedTypes ==
  ASSUME GCBase, NEW m \in NextMapped(gc.noted, gc.page, gc.k)
  PROVE  /\ m[1] \in Pages
         /\ m[2] + 1 \in 0 .. PagesPerBlock
         /\ DPM_Table[m[2] \div DPM_Pages_Per_Blk] \in PageNumbers
<1>1. m[1] \in gc.noted /\ m[2] \in 0 .. PagesPerBlock - 1
  BY DEF NextMapped, MappedFrom
<1>2. m[2] \div DPM_Pages_Per_Blk = m[2]
  BY <1>1, GCAssumption, NandAssumption
<1>3. m[2] \in Sectors
  BY <1>1, GCAssumption, NandAssumption, FTLAssumption DEF Sectors
<1>4. gc.noted \subseteq Pages /\ DPM_Table \in [Sectors -> PageNumbers]
  BY DEF GCBase, GCTypeOK, VarTypes
<1>5. QED
  BY <1>1, <1>2, <1>3, <1>4, NandAssumption

LEMMA SearchBase ==
  ASSUME GCBase, UNCHANGED <<BBT_BlkNum, kills, churn>>, Search2 \/ Search3
  PROVE  GCBase'
<1> USE DEF mapVars, scanVars, eraseVars, history, gcLocals
<1>a. PlaceInv /\ GCTypeOK /\ VarTypes
  BY DEF GCBase, GCTypeOK
<1>b. 0 \in 0 .. BlocksPerChip /\ 0 \in 0 .. PagesPerBlock /\ 0 \in Pages
      /\ 0 \in 0 .. PagesPerChip /\ PagesPerBlock \in 0 .. PagesPerBlock
      /\ Pages \subseteq 0 .. PagesPerChip /\ PageNumbers \subseteq Nat
  BY NandAssumption, Sizes, Words DEF Pages, PageNumbers
<1>c. gc.blk \in Blocks /\ gc.blk + 1 \in 0 .. BlocksPerChip
  BY <1>a, BlockPages DEF Search2, Search3, PlaceInv, Searches
<1>1. ASSUME NEW m \in NextMapped(gc.noted, gc.page, gc.k), Search2,
             mv' = [src |-> DPM_Table[m[2] \div DPM_Pages_Per_Blk], dst |-> 0,
                    caller |-> "search2"],
             gc' = [gc EXCEPT !.page = m[1], !.k = m[2] + 1],
             place' = "alloc",
             UNCHANGED <<flash, pc, mapVars, scanVars, eraseVars, history, wl, lost>>
      PROVE  GCBase'
  <2>1. VarTypes'
    BY <1>1, OnlyThePlace DEF Search2, Erasing
  <2>2. mv' \in [src : Nat, dst : Pages, caller : {"none", "search2", "search3", "wear"}]
    BY <1>1, <1>b, MappedTypes
  <2>3. GCTypeOK'
    BY <1>1, <1>a, <1>b, <2>1, <2>2, MappedTypes DEF GCTypeOK
  <2>4. PlaceInv'
    BY <1>1, <1>a, <1>c DEF Search2, GCTypeOK, PlaceInv, Erasing, Passes, Searches, MovePlaces
  <2>5. QED
    BY <2>3, <2>4 DEF GCBase
<1>2. ASSUME Search2, place' = "pass2", Collect(gc.blk),
             gc' = [gc EXCEPT !.blk = gc.blk + 1, !.tick = TRUE, !.noted = {}, !.page = 0,
                            !.k = 0, !.had = FALSE]
      PROVE  GCBase'
  <2>1. VarTypes' /\ pc' \in {"erase", "abort"} /\ lost' \subseteq Sectors
    BY <1>2, <1>c, CollectTypes DEF Search2
  <2>2. GCTypeOK'
    BY <1>2, <1>a, <1>b, <1>c, <2>1 DEF Collect, GCTypeOK, Erasing, Passes
  <2>3. PlaceInv'
    BY <1>2, <1>a, <2>1 DEF Search2, Collect, GCTypeOK, PlaceInv, Erasing, Passes, Searches, MovePlaces
  <2>4. QED
    BY <2>2, <2>3 DEF GCBase
<1>3. ASSUME NEW p \in FirstOf({q \in gc.noted : q >= gc.page}),
             NEW k \in (IF gc.k = Unset THEN PageNumbers ELSE {gc.k}), Search3,
             \/ /\ mv' = [src |-> k \div DPM_Pages_Per_Blk, dst |-> p \div DPM_Pages_Per_Blk,
                          caller |-> "search3"]
                /\ gc' = [gc EXCEPT !.page = p + 1, !.k = 0]
                /\ place' = "copy"
             \/ /\ gc' = [gc EXCEPT !.page = p + 1, !.k = PagesPerBlock]
                /\ UNCHANGED <<place, mv>>,
             UNCHANGED <<flash, pc, mapVars, scanVars, eraseVars, history, wl, lost>>
      PROVE  GCBase'
  <2>1. VarTypes'
    BY <1>3, OnlyThePlace DEF Search3, Erasing
  <2>2. p \in Pages /\ p + 1 \in 0 .. PagesPerChip /\ p \div DPM_Pages_Per_Blk \in Pages
    BY <1>3, <1>a, PageBounds DEF FirstOf, GCTypeOK
  <2>3. k \div DPM_Pages_Per_Blk \in Nat
    <3>1. k \in Nat
      BY <1>3, <1>a, <1>b, NandAssumption DEF GCTypeOK, Unset
    <3>2. QED
      BY <3>1, FTLAssumption, QuotientRemainder
  <2>4. gc' \in [blk : 0 .. BlocksPerChip, tick : BOOLEAN, noted : SUBSET Pages,
                 page : 0 .. PagesPerChip, k : 0 .. PagesPerBlock \cup {Unset},
                 caller : {"none", "idle", "scan1", "anti"}, owed : BOOLEAN,
                 had : BOOLEAN]
        /\ gc'.blk = gc.blk /\ gc'.caller = gc.caller /\ gc'.had = gc.had
    BY <1>3, <1>a, <1>b, <2>2 DEF GCTypeOK
  <2>5. /\ mv' \in [src : Nat, dst : Pages, caller : {"none", "search2", "search3", "wear"}]
        /\ place' \in {"copy", "search3"}
        /\ place' = "copy" => mv'.caller = "search3"
    <3>a. place = "search3"
      BY <1>3, Zenon DEF Search3
    <3>1. CASE /\ mv' = [src |-> k \div DPM_Pages_Per_Blk, dst |-> p \div DPM_Pages_Per_Blk,
                         caller |-> "search3"]
               /\ place' = "copy"
      BY <3>1, <2>2, <2>3
    <3>2. CASE UNCHANGED <<place, mv>>
      BY <3>a, <3>2, <1>a DEF GCTypeOK
    <3>3. QED
      BY <1>3, <3>1, <3>2, Zenon
  <2>6. GCTypeOK'
    BY <1>3, <1>a, <2>1, <2>4, <2>5 DEF GCTypeOK
  <2>7. PlaceInv'
    BY <1>3, <1>a, <1>c, <2>4, <2>5
    DEF Search3, GCTypeOK, PlaceInv, Erasing, Passes, Searches, MovePlaces
  <2>8. QED
    BY <2>6, <2>7 DEF GCBase
<1>4. ASSUME Search3, place' = "pass3", Collect(gc.blk),
             gc' = [gc EXCEPT !.blk = gc.blk + 1, !.noted = {}, !.page = 0, !.had = FALSE]
      PROVE  GCBase'
  <2>1. VarTypes' /\ pc' \in {"erase", "abort"} /\ lost' \subseteq Sectors
    BY <1>4, <1>c, CollectTypes DEF Search3
  <2>2. GCTypeOK'
    BY <1>4, <1>a, <1>b, <1>c, <2>1 DEF Collect, GCTypeOK, Erasing, Passes
  <2>3. PlaceInv'
    BY <1>4, <1>a, <2>1 DEF Search3, Collect, GCTypeOK, PlaceInv, Erasing, Passes, Searches, MovePlaces
  <2>4. QED
    BY <2>2, <2>3 DEF GCBase
<1>5. QED
  BY <1>1, <1>2, <1>3, <1>4 DEF Search2, Search3

\* DPM_Date_Move.
LEMMA MoveBase ==
  ASSUME GCBase, UNCHANGED <<BBT_BlkNum, kills, churn>>,
         CopyPage \/ CopyAborts \/ SpoilTarget \/ RetireSource
  PROVE  GCBase'
<1> USE DEF mapVars, scanVars, eraseVars, history, gcLocals
<1>a. PlaceInv /\ GCTypeOK /\ VarTypes /\ flash \in Image
  BY DEF GCBase, GCTypeOK, VarTypes, Image
<1>b. mv.src \in Nat /\ mv.dst \in Pages
  BY <1>a DEF GCTypeOK
<1>1. CASE CopyPage
  <2>1. mv.src \in Pages
    BY <1>1, <1>b, ReachedPage DEF CopyPage, Moving
  <2>2. flash' \in Image
    BY <1>1, <1>a, <1>b, <2>1, PageCopied DEF CopyPage, Source
  <2>3. torn' \subseteq PhysicalPages
    <3>1. Target \in PhysicalPages
      BY <1>b, SkewInFile DEF Target
    <3>2. QED
      BY <1>1, <1>a, <3>1 DEF CopyPage, TornAfterCopy, VarTypes
  <2>4. VarTypes'
    BY <1>1, <1>a, <2>2, <2>3 DEF CopyPage, Moving, VarTypes, Image, Erasing
  <2>5. lost' \subseteq Sectors /\ place' \in {"retire", "spoil"}
    BY <1>1, <1>a, StoredSectors DEF CopyPage, GCTypeOK
  <2>6. GCTypeOK'
    BY <1>1, <1>a, <2>4, <2>5 DEF CopyPage, GCTypeOK
  <2>7. PlaceInv'
    BY <1>1, <1>a, <2>5 DEF CopyPage, Moving, PageReaches, PlaceInv, Erasing, Passes,
                            Searches, MovePlaces
  <2>8. QED
    BY <2>6, <2>7 DEF GCBase
<1>2. CASE CopyAborts
  <2>1. VarTypes'
    BY <1>2, OnlyThePlace DEF CopyAborts, Erasing
  <2>2. GCTypeOK'
    BY <1>2, <1>a, <2>1 DEF CopyAborts, GCTypeOK
  <2>3. PlaceInv'
    BY <1>2, <1>a DEF CopyAborts, PageReaches, PlaceInv, Erasing
  <2>4. QED
    BY <2>2, <2>3 DEF GCBase
<1>3. CASE SpoilTarget
  <2>1. flash' \in Image
    BY <1>3, <1>a, <1>b, GarbageTag, TagWritten DEF SpoilTarget
  <2>2. VarTypes'
    BY <1>3, <1>a, <2>1 DEF SpoilTarget, VarTypes, Image, Erasing
  <2>3. mv.caller \in {"search2", "wear", "search3"} /\ place' = AfterFailure[mv.caller]
    BY <1>3, <1>a DEF SpoilTarget, GCTypeOK, PlaceInv, MovePlaces
  <2>4. /\ mv.caller = "search2" => place' = "alloc"
        /\ mv.caller = "wear" => place' = "anti"
        /\ mv.caller = "search3" => place' = "search3"
    BY <2>3 DEF AfterFailure
  <2>5. GCTypeOK'
    BY <1>3, <1>a, <2>2, <2>3, <2>4 DEF SpoilTarget, GCTypeOK
  <2>6. PlaceInv'
    BY <1>3, <1>a, <2>3, <2>4 DEF SpoilTarget, PlaceInv, Erasing, Passes, Searches, MovePlaces
  <2>7. QED
    BY <2>5, <2>6 DEF GCBase
<1>4. CASE RetireSource
  <2>1. mv.src \in Pages
    BY <1>4, <1>a, <1>b, ReachedPage DEF RetireSource, PlaceInv
  <2>2. ReadSpare(flash, mv.src) \in Tag
    BY <1>a, <2>1, Accesses
  <2>3. [ReadSpare(flash, mv.src) EXCEPT !.dirty = Set] \in Tag
    BY <2>2, DirtyTag
  <2>4. flash' \in Image
    BY <1>4, <1>a, <2>1, <2>3, TagWritten DEF RetireSource
  <2>5. DPM_Table' \in [Sectors -> PageNumbers]
    <3>1. mv.dst % U16 \in PageNumbers
      BY <1>b, Sizes, Words
    <3>2. \A k \in Sectors : DPM_Table[k] \in PageNumbers
      BY <1>a DEF VarTypes
    <3>3. QED
      BY <1>4, <3>1, <3>2 DEF RetireSource
  <2>6. VarTypes'
    BY <1>4, <1>a, <2>4, <2>5 DEF RetireSource, VarTypes, Image, Erasing
  <2>7. mv.caller \in {"search2", "wear", "search3"} /\ place' = mv.caller
    BY <1>4, <1>a DEF RetireSource, GCTypeOK, PlaceInv, MovePlaces
  <2>8. GCTypeOK'
    BY <1>4, <1>a, <2>6, <2>7 DEF RetireSource, GCTypeOK
  <2>9. PlaceInv'
    BY <1>4, <1>a, <2>7 DEF RetireSource, PlaceInv, Erasing, Passes, Searches, MovePlaces
  <2>10. QED
    BY <2>8, <2>9 DEF GCBase
<1>5. QED
  BY <1>1, <1>2, <1>3, <1>4

\* Numbers kept in a uint16_t and a uint8_t.
LEMMA WordTypes ==
  ASSUME flash \in Image, NEW p \in Pages
  PROVE  /\ ReadSpare(flash, p).erase % U16 \in PageNumbers
         /\ ReadSpare(flash, p).erase % U8 \in 0 .. U8 - 1
<1>1. ReadSpare(flash, p).erase \in Nat
  BY Accesses
<1>2. QED
  BY <1>1, Words, QuotientRemainder, GCAssumption

LEMMA FirstOfSome ==
  ASSUME NEW S
  PROVE  FirstOf(S) \subseteq S
  BY DEF FirstOf

\* Static_WL.
LEMMA RareBase ==
  ASSUME GCBase, UNCHANGED <<BBT_BlkNum, kills>>, churn' \in Nat,
         \/ Static_WL \/ SeekRarelyErased \/ RarelyErasedFound \/ Static_WL_Moves
  PROVE  GCBase'
<1> USE DEF mapVars, scanVars, eraseVars, history, gcLocals
<1>a. PlaceInv /\ GCTypeOK /\ VarTypes /\ flash \in Image
  BY DEF GCBase, GCTypeOK, VarTypes, Image
<1>b. 0 \in PageNumbers /\ 0 \in Blocks /\ 0 \in Pages /\ 0 \in 0 .. U8 - 1
      /\ 0 \in 0 .. BlocksPerChip /\ 0 \in 0 .. PagesPerBlock
  BY Words, Sizes, NandAssumption, GCAssumption DEF PageNumbers, MAX16, Blocks, Pages
<1>c. \A blk \in Blocks : MarkBad(blk) /\ pc \notin Erasing => GCBase'
  BY MarkBadBase
<1>d. wl \in [min : PageNumbers, blk : Blocks, page : 0 .. PagesPerBlock, src : Nat,
              max : 0 .. U8 - 1, found : Pages, at : 0 .. BlocksPerChip]
  BY <1>a DEF GCTypeOK
<1>1. ASSUME Static_WL PROVE GCBase'
  <2>1. PICK blk \in Blocks : \E p \in FirstLive \cap PagesOf(blk) :
           \/ IsBad(ReadSpare(flash, p)) /\ MarkBad(blk)
           \/ /\ pc' = "gc"
              /\ place' = "rare"
              /\ wl' = [NoWear EXCEPT !.min = ReadSpare(flash, p).erase % U16, !.blk = blk]
              /\ UNCHANGED <<flash, mapVars, scanVars, eraseVars, history, gc, mv, lost>>
    BY <1>1 DEF Static_WL
  <2>2. pc = "idle"
    BY <1>1 DEF Static_WL
  <2>3. CASE MarkBad(blk)
    BY <2>2, <2>3, <1>c DEF Erasing
  <2>4. ASSUME NEW p \in PagesOf(blk),
               pc' = "gc",
               place' = "rare",
               wl' = [NoWear EXCEPT !.min = ReadSpare(flash, p).erase % U16, !.blk = blk],
               UNCHANGED <<flash, mapVars, scanVars, eraseVars, history, gc, mv, lost>>
        PROVE  GCBase'
    <3>1. ReadSpare(flash, p).erase % U16 \in PageNumbers
      BY <1>a, <2>4, BlockPages, WordTypes
    <3>2. VarTypes'
      BY <2>2, <2>4, OnlyThePlace DEF Erasing
    <3>3. wl' \in [min : PageNumbers, blk : Blocks, page : 0 .. PagesPerBlock, src : Nat,
                   max : 0 .. U8 - 1, found : Pages, at : 0 .. BlocksPerChip]
      BY <1>b, <2>4, <3>1 DEF NoWear
    <3>4. GCTypeOK'
      BY <1>a, <2>4, <3>2, <3>3 DEF GCTypeOK
    <3>5. PlaceInv'
      BY <1>a, <2>2, <2>4 DEF PlaceInv, Erasing, Passes, Searches, MovePlaces
    <3>6. QED
      BY <3>4, <3>5 DEF GCBase
  <2>5. QED
    BY <2>1, <2>3, <2>4
<1>2. ASSUME SeekRarelyErased PROVE GCBase'
  <2>1. pc = "gc" /\ place = "rare" /\ wl.at \in Blocks /\ wl.at + 1 \in 0 .. BlocksPerChip
    BY <1>2, BlockPages DEF SeekRarelyErased
  <2>2. CASE MarkBad(wl.at)
    BY <2>1, <2>2, <1>c DEF Erasing
  <2>3. ASSUME ~MarkBad(wl.at) PROVE GCBase'
    <3>1. UNCHANGED <<flash, pc, mapVars, scanVars, eraseVars, history, place, gc, mv, lost>>
      BY <1>2, <2>3 DEF SeekRarelyErased
    <3>2. \/ wl' = [wl EXCEPT !.at = wl.at + 1]
          \/ \E p \in PagesOf(wl.at) :
               wl' = [wl EXCEPT !.at = wl.at + 1, !.min = ReadSpare(flash, p).erase % U16,
                                !.blk = wl.at]
      BY <1>2, <2>3, FirstOfSome DEF SeekRarelyErased
    <3>3. wl' \in [min : PageNumbers, blk : Blocks, page : 0 .. PagesPerBlock, src : Nat,
                   max : 0 .. U8 - 1, found : Pages, at : 0 .. BlocksPerChip]
      <4>1. \A p \in PagesOf(wl.at) : ReadSpare(flash, p).erase % U16 \in PageNumbers
        BY <1>a, <2>1, BlockPages, WordTypes
      <4>2. QED
        BY <1>d, <2>1, <3>2, <4>1
    <3>4. VarTypes'
      BY <2>1, <3>1, OnlyThePlace DEF Erasing
    <3>5. GCTypeOK'
      BY <1>a, <3>1, <3>3, <3>4 DEF GCTypeOK
    <3>6. PlaceInv'
      BY <1>a, <2>1, <3>1 DEF PlaceInv, Erasing
    <3>7. QED
      BY <3>5, <3>6 DEF GCBase
  <2>4. QED
    BY <2>2, <2>3
<1>3. ASSUME RarelyErasedFound PROVE GCBase'
  <2>1. VarTypes'
    BY <1>3, OnlyThePlace DEF RarelyErasedFound, Erasing
  <2>2. GCTypeOK'
    BY <1>3, <1>a, <1>b, <1>d, <2>1 DEF RarelyErasedFound, GCTypeOK
  <2>3. PlaceInv'
    BY <1>3, <1>a DEF RarelyErasedFound, PlaceInv, Erasing, Passes, Searches, MovePlaces
  <2>4. QED
    BY <2>2, <2>3 DEF GCBase
<1>4. ASSUME Static_WL_Moves PROVE GCBase'
  <2>1. VarTypes'
    BY <1>4, OnlyThePlace DEF Static_WL_Moves, Erasing
  <2>2. wl' \in [min : PageNumbers, blk : Blocks, page : 0 .. PagesPerBlock, src : Nat,
                 max : 0 .. U8 - 1, found : Pages, at : 0 .. BlocksPerChip]
    <3>1. CASE wl' = NoWear
      BY <1>b, <3>1 DEF NoWear
    <3>2. ASSUME NEW j \in wl.page .. PagesPerBlock - 1,
                 wl' = [wl EXCEPT !.page = j + 1,
                           !.src = (wl.min * PagesPerBlock + j) \div DPM_Pages_Per_Blk]
          PROVE  wl' \in [min : PageNumbers, blk : Blocks, page : 0 .. PagesPerBlock,
                          src : Nat, max : 0 .. U8 - 1, found : Pages, at : 0 .. BlocksPerChip]
      <4>1. j \in Nat /\ j + 1 \in 0 .. PagesPerBlock
        BY <1>d, <3>2, NandAssumption
      <4>2. wl.min * PagesPerBlock \in Nat
        <5>1. wl.min \in Nat /\ PagesPerBlock \in Nat
          BY <1>d, Sizes, Words, NandAssumption
        <5>2. QED
          BY <5>1, ProductInNat
      <4>3. (wl.min * PagesPerBlock + j) \div DPM_Pages_Per_Blk \in Nat
        <5>1. wl.min * PagesPerBlock + j \in Nat
          BY <4>1, <4>2
        <5>2. QED
          BY <5>1, FTLAssumption, QuotientRemainder
      <4>4. QED
        BY <1>d, <3>2, <4>1, <4>3
    <3>3. QED
      BY <1>4, <3>1, <3>2, FirstOfSome DEF Static_WL_Moves
  <2>3. GCTypeOK'
    BY <1>4, <1>a, <2>1, <2>2 DEF Static_WL_Moves, GCTypeOK
  <2>4. PlaceInv'
    BY <1>4, <1>a DEF Static_WL_Moves, PlaceInv, Erasing, Passes, Searches, MovePlaces
  <2>5. QED
    BY <2>3, <2>4 DEF GCBase
<1>5. QED
  BY <1>1, <1>2, <1>3, <1>4

\* ANTI_Dynamic_WL.
LEMMA OldBase ==
  ASSUME GCBase, UNCHANGED <<BBT_BlkNum, kills>>, churn' \in Nat,
         \/ ANTI_Dynamic_WL \/ SeekOftenErased \/ OftenErasedFound
  PROVE  GCBase'
<1> USE DEF mapVars, scanVars, eraseVars, history, gcLocals
<1>a. PlaceInv /\ GCTypeOK /\ VarTypes /\ flash \in Image
  BY DEF GCBase, GCTypeOK, VarTypes, Image
<1>b. 0 \in Pages /\ 0 \in 0 .. U8 - 1 /\ 0 \in 0 .. BlocksPerChip
      /\ 0 \in 0 .. PagesPerChip /\ 0 \in 0 .. PagesPerBlock
  BY Sizes, NandAssumption, GCAssumption DEF Pages
<1>c. \A blk \in Blocks : MarkBad(blk) /\ pc \notin Erasing => GCBase'
  BY MarkBadBase
<1>d. wl \in [min : PageNumbers, blk : Blocks, page : 0 .. PagesPerBlock, src : Nat,
              max : 0 .. U8 - 1, found : Pages, at : 0 .. BlocksPerChip]
  BY <1>a DEF GCTypeOK
<1>1. ASSUME ANTI_Dynamic_WL PROVE GCBase'
  <2>1. pc = "gc" /\ place = "anti"
    BY <1>1 DEF ANTI_Dynamic_WL
  <2>2. \/ /\ FTL_GC_From("anti")
           /\ UNCHANGED <<flash, mapVars, scanVars, eraseVars, history, mv, wl, lost>>
        \/ \E blk \in Blocks : MarkBad(blk)
        \/ \E blk \in Blocks : \E p \in PagesOf(blk) :
             /\ place' = "old"
             /\ wl' = [wl EXCEPT !.max = ReadSpare(flash, p).erase % U8, !.found = p]
             /\ UNCHANGED <<flash, pc, mapVars, scanVars, eraseVars, history, gc, mv, lost>>
    BY <1>1 DEF ANTI_Dynamic_WL
  <2>3. ASSUME FTL_GC_From("anti"),
               UNCHANGED <<flash, mapVars, scanVars, eraseVars, history, mv, wl, lost>>
        PROVE  GCBase'
    <3>1. VarTypes'
      BY <2>1, <2>3, OnlyThePlace DEF FTL_GC_From, Erasing
    <3>2. GCTypeOK'
      BY <2>3, <1>a, <1>b, <3>1 DEF FTL_GC_From, NoGC, GCTypeOK, Passes
    <3>3. PlaceInv'
      BY <2>1, <2>3, <1>a DEF FTL_GC_From, NoGC, PlaceInv, Erasing, Passes, Searches, MovePlaces
    <3>4. QED
      BY <3>2, <3>3 DEF GCBase
  <2>4. ASSUME NEW blk \in Blocks, NEW p \in PagesOf(blk),
               place' = "old",
               wl' = [wl EXCEPT !.max = ReadSpare(flash, p).erase % U8, !.found = p],
               UNCHANGED <<flash, pc, mapVars, scanVars, eraseVars, history, gc, mv, lost>>
        PROVE  GCBase'
    <3>1. p \in Pages
      BY <2>4, BlockPages
    <3>2. ReadSpare(flash, p).erase % U8 \in 0 .. U8 - 1
      BY <1>a, <3>1, WordTypes
    <3>3. wl' \in [min : PageNumbers, blk : Blocks, page : 0 .. PagesPerBlock, src : Nat,
                   max : 0 .. U8 - 1, found : Pages, at : 0 .. BlocksPerChip]
      BY <1>d, <2>4, <3>1, <3>2
    <3>4. VarTypes'
      BY <2>1, <2>4, OnlyThePlace DEF Erasing
    <3>5. GCTypeOK'
      BY <1>a, <2>4, <3>3, <3>4 DEF GCTypeOK
    <3>6. PlaceInv'
      BY <1>a, <2>1, <2>4 DEF PlaceInv, Erasing, Passes, Searches, MovePlaces
    <3>7. QED
      BY <3>5, <3>6 DEF GCBase
  <2>5. ASSUME NEW blk \in Blocks, MarkBad(blk) PROVE GCBase'
    BY <2>1, <2>5, <1>c DEF Erasing
  <2>6. QED
    BY <2>2, <2>3, <2>4, <2>5
<1>2. ASSUME SeekOftenErased PROVE GCBase'
  <2>1. pc = "gc" /\ place = "old" /\ wl.at \in Blocks /\ wl.at + 1 \in 0 .. BlocksPerChip
    BY <1>2, BlockPages DEF SeekOftenErased
  <2>2. CASE MarkBad(wl.at)
    BY <2>1, <2>2, <1>c DEF Erasing
  <2>3. ASSUME ~MarkBad(wl.at) PROVE GCBase'
    <3>1. UNCHANGED <<flash, pc, mapVars, scanVars, eraseVars, history, place, gc, mv, lost>>
      BY <1>2, <2>3 DEF SeekOftenErased
    <3>2. \/ wl' = [wl EXCEPT !.at = wl.at + 1]
          \/ \E p \in PagesOf(wl.at) :
               wl' = [wl EXCEPT !.at = wl.at + 1, !.max = ReadSpare(flash, p).erase % U8,
                                !.found = p]
      BY <1>2, <2>3, FirstOfSome DEF SeekOftenErased
    <3>3. wl' \in [min : PageNumbers, blk : Blocks, page : 0 .. PagesPerBlock, src : Nat,
                   max : 0 .. U8 - 1, found : Pages, at : 0 .. BlocksPerChip]
      <4>1. \A p \in PagesOf(wl.at) :
              p \in Pages /\ ReadSpare(flash, p).erase % U8 \in 0 .. U8 - 1
        BY <1>a, <2>1, BlockPages, WordTypes
      <4>2. QED
        BY <1>d, <2>1, <3>2, <4>1
    <3>4. VarTypes'
      BY <2>1, <3>1, OnlyThePlace DEF Erasing
    <3>5. GCTypeOK'
      BY <1>a, <3>1, <3>3, <3>4 DEF GCTypeOK
    <3>6. PlaceInv'
      BY <1>a, <2>1, <3>1 DEF PlaceInv, Erasing
    <3>7. QED
      BY <3>5, <3>6 DEF GCBase
  <2>4. QED
    BY <2>2, <2>3
<1>3. ASSUME OftenErasedFound PROVE GCBase'
  <2>1. VarTypes'
    BY <1>3, OnlyThePlace DEF OftenErasedFound, Erasing
  <2>2. GCTypeOK'
    BY <1>3, <1>a, <1>b, <1>d, <2>1 DEF OftenErasedFound, GCTypeOK
  <2>3. PlaceInv'
    BY <1>3, <1>a DEF OftenErasedFound, PlaceInv, Erasing, Passes, Searches, MovePlaces
  <2>4. QED
    BY <2>2, <2>3 DEF GCBase
<1>4. QED
  BY <1>1, <1>2, <1>3

LEMMA MeetsBadBase ==
  ASSUME GCBase, UNCHANGED <<BBT_BlkNum, kills, churn>>, FTL_GC_MeetsBadPage
  PROVE  GCBase'
<1>1. gc.blk \in Blocks /\ pc = "gc" /\ MarkBad(gc.blk)
  BY DEF FTL_GC_MeetsBadPage, Looking
<1>2. churn' \in Nat
  BY DEF GCBase, GCTypeOK
<1>3. QED
  BY <1>1, <1>2, MarkBadBase DEF Erasing

LEMMA LastRetagBase ==
  ASSUME GCBase, UNCHANGED <<BBT_BlkNum, kills, churn>>, LastRetag
  PROVE  GCBase'
<1> USE DEF mapVars, gcLocals
<1>a. PlaceInv /\ GCTypeOK /\ VarTypes /\ flash \in Image
  BY DEF GCBase, GCTypeOK, VarTypes, Image
<1>1. pc = "retag" /\ pc' = "gc" /\ place # "none" /\ Page_Addr' = MAX16
  BY DEF LastRetag
<1>2. Page_Addr \in Pages
  BY <1>a, <1>1 DEF VarTypes, Erasing
<1>3. NewTag(Page_Addr) \in Tag
  BY <1>a, NewTagTypes DEF VarTypes
<1>4. flash' \in Image
  BY <1>a, <1>2, <1>3, TagWritten DEF LastRetag
<1>5. 0 \in PageNumbers /\ MAX16 \in PageNumbers /\ 0 \in 0 .. BlocksPerChip
  BY Words, NandAssumption DEF PageNumbers, MAX16
<1>6. VarTypes'
  <2>1. payload' \in Payload \cup {None} /\ sector' \in Sectors
    BY <1>a, <1>1 DEF LastRetag, VarTypes
  <2>2. fresh' \in Tag /\ marks' \subseteq Pages /\ torn' \subseteq PhysicalPages
    BY <1>a, ErasedTypes DEF LastRetag, VarTypes
  <2>3. QED
    BY <1>a, <1>1, <1>4, <1>5, <2>1, <2>2 DEF LastRetag, VarTypes, Image, Erasing
<1>7. GCTypeOK'
  BY <1>a, <1>1, <1>6 DEF LastRetag, GCTypeOK
<1>8. PlaceInv'
  BY <1>a, <1>1 DEF LastRetag, PlaceInv, Erasing, Passes, Searches, MovePlaces
<1>9. QED
  BY <1>7, <1>8 DEF GCBase

LEMMA DiscardBase ==
  ASSUME GCBase, UNCHANGED <<BBT_BlkNum, kills>>, churn' \in Nat,
         NEW s \in Sectors, Discard(s)
  PROVE  GCBase'
<1> USE DEF mapVars, scanVars, eraseVars
<1>a. PlaceInv /\ GCTypeOK /\ VarTypes /\ flash \in Image
  BY DEF GCBase, GCTypeOK, VarTypes, Image
<1> DEFINE page == DPM_Table[s]
<1>1. page \in Pages
  BY <1>a, Words DEF VarTypes
<1>2. [ReadSpare(flash, page) EXCEPT !.dirty = Set] \in Tag
  BY <1>a, <1>1, Accesses, DirtyTag
<1>3. flash' = WriteSpare(flash, page, [ReadSpare(flash, page) EXCEPT !.dirty = Set])
  BY DEF Discard
<1>4. flash' \in Image
  BY <1>a, <1>1, <1>2, <1>3, TagWritten
<1>5. lost' \subseteq Sectors
  BY <1>a, StoredSectors DEF Discard, GCTypeOK
<1>6. VarTypes'
  BY <1>a, <1>4 DEF Discard, VarTypes, Image, Erasing
<1>7. GCTypeOK'
  BY <1>a, <1>5, <1>6 DEF Discard, GCTypeOK
<1>8. PlaceInv'
  BY <1>a DEF Discard, PlaceInv, Erasing
<1>9. QED
  BY <1>7, <1>8 DEF GCBase

LEMMA CallsBase ==
  ASSUME GCBase, UNCHANGED <<BBT_BlkNum, kills>>, Calls, UNCHANGED gcVars
  PROVE  GCBase'
<1> USE DEF gcVars, gcLocals, mapVars, scanVars, eraseVars, history
<1>a. PlaceInv /\ GCTypeOK /\ VarTypes
  BY DEF GCBase, GCTypeOK
<1>1. Next
  BY DEF Next
<1>2. pc # "scan2"
  BY DEF Calls, PowerOn, DPM_Malloc, Get_Useful_WPage, pageOP_EraseBlk
<1>3. VarTypes'
  BY <1>1, <1>2, SharedTypes
<1> DEFINE Goal == pc' \in {"up", "dpm", "program", "scan1", "erase", "abort"} /\ PlaceInv'
<1>4. ASSUME PowerOn PROVE Goal
  BY <1>4, <1>a DEF PowerOn, PlaceInv, Erasing
<1>5. ASSUME DPM_Malloc PROVE Goal
  BY <1>5, <1>a DEF DPM_Malloc, PlaceInv, Erasing
<1>6. ASSUME NEW s \in Sectors, NEW v \in Payload, Get_Useful_WPage(s, v) PROVE Goal
  BY <1>6, <1>a DEF Get_Useful_WPage, PlaceInv, Erasing
<1>7. ASSUME NEW blk \in Blocks, pageOP_EraseBlk(blk) PROVE Goal
  BY <1>7, <1>a DEF pageOP_EraseBlk, PlaceInv, Erasing
<1>8. Goal
  BY <1>4, <1>5, <1>6, <1>7 DEF Calls
<1>9. GCTypeOK'
  BY <1>a, <1>3, <1>8 DEF GCTypeOK, Storing, Erasing
<1>10. QED
  BY <1>8, <1>9 DEF GCBase

\* What the process leaves on the target of a move is a page.
LEMMA TornMovePages ==
  ASSUME GCBase, TornMove
  PROVE  /\ Target \in PhysicalPages
         /\ flash' \in Image
         /\ torn' \subseteq PhysicalPages
         /\ \A g \in PhysicalPages : g # Target => flash'[g] = flash[g]
         /\ lost' \subseteq Sectors
<1>a. /\ flash \in Image /\ torn \subseteq PhysicalPages /\ lost \subseteq Sectors
      /\ mv.src \in Nat /\ mv.dst \in Pages
  BY DEF GCBase, GCTypeOK, VarTypes, Image
<1>1. Target \in PhysicalPages
  BY <1>a, SkewInFile DEF Target
<1>2. CASE Moving
  <2>1. mv.src \in Pages
    BY <1>2, <1>a, ReachedPage DEF Moving
  <2>2. Source \in Content /\ flash[Target] \in Content
    BY <1>a, <1>1, <2>1, SkewInFile DEF Source, Image
  <2>3. PICK data \in {flash[Target].data, Partial, Source.data},
             tag \in TornTags(flash[Target].tag, Source.tag) :
          flash' = [flash EXCEPT ![Target] = [data |-> data, tag |-> tag]]
    BY <1>2 DEF TornMove, Moving
  <2>4. [data |-> data, tag |-> tag] \in Content
    BY <2>2, TornTagTypes DEF Content
  <2>5. flash' \in Image /\ \A g \in PhysicalPages : g # Target => flash'[g] = flash[g]
    BY <1>a, <1>1, <2>3, <2>4 DEF Image
  <2>6. torn' = torn \cup {Target} /\ lost' = lost \cup StoredIn(Overwritten)
    BY <1>2 DEF TornMove, Moving
  <2>7. QED
    BY <1>a, <1>1, <2>5, <2>6, StoredSectors
<1>3. CASE ~Moving
  <2>1. PICK tag \in Garbage : TornTag(Target, tag)
    BY <1>3 DEF TornMove
  <2>2. tag \in Tag
    BY <2>1, GarbageTag
  <2>3. flash' \in Image /\ torn' \subseteq PhysicalPages
    BY <1>a, <1>1, <2>1, <2>2, TornImage
  <2>4. \A g \in PhysicalPages : g # Target => flash'[g] = flash[g]
    BY <1>a, <1>1, <2>1, <2>2, TornFlag
  <2>5. UNCHANGED lost
    BY <1>3 DEF TornMove
  <2>6. QED
    BY <1>a, <1>1, <2>3, <2>4, <2>5
<1>4. QED
  BY <1>2, <1>3

LEMMA KilledBase ==
  ASSUME GCBase, UNCHANGED BBT_BlkNum, GcKilled
  PROVE  GCBase'
<1>a. PlaceInv /\ GCTypeOK /\ VarTypes
  BY DEF GCBase, GCTypeOK
<1>1. Death
  BY DEF GcKilled, Killed
<1>2. pc' = "off" /\ Page_Addr' = MAX16
  BY <1>1 DEF Death, Returned
<1>3. 0 \in Blocks /\ 0 \in Pages /\ 0 \in PageNumbers /\ 0 \in 0 .. U8 - 1
      /\ 0 \in 0 .. BlocksPerChip /\ 0 \in 0 .. PagesPerChip /\ 0 \in 0 .. PagesPerBlock
  BY Words, Sizes, NandAssumption, GCAssumption DEF PageNumbers, MAX16, Blocks, Pages
<1>4. VarTypes' /\ lost' \subseteq Sectors
  <2>1. CASE /\ Killed
             /\ lost' = IF pc = "mark" /\ flash' # flash
                          THEN lost \cup StoredIn({BadMark(m16i_Blk)})
                          ELSE lost
    <3>1. Next
      BY <2>1 DEF Next
    <3>2. lost' \subseteq Sectors
      BY <1>a, <2>1, StoredSectors DEF GCTypeOK
    <3>3. QED
      BY <1>2, <3>1, <3>2, SharedTypes
  <2>2. CASE TornMove
    <3>1. flash' \in Image /\ torn' \subseteq PhysicalPages /\ lost' \subseteq Sectors
      BY <2>2, TornMovePages
    <3>2. /\ sector' \in Sectors /\ payload' = None /\ Page_Addr' \in PageNumbers
          /\ EraseTime_MIN' \in PageNumbers /\ m16i_Blk' \in 0 .. BlocksPerChip
      BY <1>1, ReturnedTypes DEF Death
    <3>3. VarTypes'
      BY <1>a, <1>1, <1>2, <1>3, <3>1, <3>2, ErasedTypes DEF Death, VarTypes, Image, Erasing
    <3>4. QED
      BY <3>1, <3>3
  <2>3. QED
    BY <2>1, <2>2 DEF GcKilled
<1>5. GCTypeOK'
  BY <1>a, <1>2, <1>3, <1>4 DEF GcKilled, GCTypeOK, NoGC, NoMove, NoWear
<1>6. PlaceInv'
  BY <1>2 DEF GcKilled, NoGC, NoMove, PlaceInv, Erasing, Passes, Searches, MovePlaces
<1>7. QED
  BY <1>5, <1>6 DEF GCBase

LEMMA GCBaseStep ==
  ASSUME GCBase, StoreInv, [GCNext]_allVars
  PROVE  GCBase'
<1>a. churn \in Nat /\ churn + 1 \in Nat
  BY DEF GCBase, GCTypeOK
<1>1. CASE UNCHANGED allVars
  BY <1>1 DEF allVars, vars, gcVars, gcLocals, mapVars, scanVars, eraseVars, history, GCBase,
              GCTypeOK, VarTypes, PlaceInv
<1>2. ASSUME Working PROVE GCBase'
  <2>1. UNCHANGED <<BBT_BlkNum, kills, churn>>
    BY <1>2 DEF Working
  <2>2. CASE Storing_FTL /\ UNCHANGED gcLocals
    BY <2>1, <2>2, SharedBase
  <2>3. CASE VerifyPage /\ lost' = lost \ {sector} /\ UNCHANGED <<place, gc, mv, wl>>
    BY <2>1, <2>3, VerifyBase
  <2>4. CASE /\ MarkBlockBad
             /\ lost' = lost \cup StoredIn({BadMark(m16i_Blk)})
             /\ UNCHANGED <<place, gc, mv, wl>>
    BY <2>1, <2>4, MarkBlockBase
  <2>5. ASSUME Collecting PROVE GCBase'
    <3>1. CASE \/ FTL_GC_ForStore \/ FTL_GC_Recursion \/ FTL_GC_Returns
               \/ CallDynamic_WL \/ Dynamic_WL_Returns
      BY <2>1, <3>1, CallBase
    <3>2. CASE LastRetag
      BY <2>1, <3>2, LastRetagBase
    <3>3. CASE FTL_GC_MeetsBadPage
      BY <2>1, <3>3, MeetsBadBase
    <3>4. CASE Pass1 \/ NextPass \/ Pass2 \/ Pass3
      BY <2>1, <3>4, PassBase
    <3>5. CASE Search2 \/ Search3
      BY <2>1, <3>5, SearchBase
    <3>6. CASE CopyPage \/ CopyAborts \/ SpoilTarget \/ RetireSource
      BY <2>1, <3>6, MoveBase
    <3>7. CASE SeekRarelyErased \/ RarelyErasedFound \/ Static_WL_Moves
      BY <1>a, <2>1, <3>7, RareBase
    <3>8. CASE ANTI_Dynamic_WL \/ SeekOftenErased \/ OftenErasedFound
      BY <1>a, <2>1, <3>8, OldBase
    <3>9. QED
      BY <2>5, <3>1, <3>2, <3>3, <3>4, <3>5, <3>6, <3>7, <3>8 DEF Collecting
  <2>6. QED
    BY <1>2, <2>2, <2>3, <2>4, <2>5 DEF Working
<1>3. ASSUME GCCalls, UNCHANGED <<BBT_BlkNum, kills>> PROVE GCBase'
  <2>1. CASE Calls /\ UNCHANGED gcVars
    BY <1>3, <2>1, CallsBase
  <2>2. CASE FTL_GC_WhenIdle /\ UNCHANGED churn
    BY <1>3, <2>2, CallBase
  <2>3. CASE churn' = churn + 1 /\ (Static_WL \/ \E s \in Sectors : Discard(s))
    BY <1>a, <1>3, <2>3, RareBase, DiscardBase
  <2>4. QED
    BY <1>3, <2>1, <2>2, <2>3 DEF GCCalls
<1>4. ASSUME GcKilled, UNCHANGED BBT_BlkNum PROVE GCBase'
  BY <1>4, KilledBase
<1>5. QED
  BY <1>1, <1>2, <1>3, <1>4 DEF GCNext

-----------------------------------------------------------------------------
(* Committed data.                                                         *)

\* Steps that do not write.
LEMMA QuietStore ==
  ASSUME StoreInv, UNCHANGED <<flash, torn, wrapped>>,
         pc' \in {"gc", "idle", "abort", "mark", "overflow", "erase", "scan1"},
         pc' = "scan1" => Page_Addr' = MAX16
  PROVE  StoreInv'
  BY DEF StoreInv, CommittedDataIntact

\* Steps that write one page.
LEMMA OnePageStore ==
  ASSUME StoreInv, NEW f \in PhysicalPages,
         \A g \in PhysicalPages : g # f => flash'[g] = flash[g],
         torn \subseteq torn' \cup {f},
         UNCHANGED wrapped,
         ~wrapped => f \in torn' \/ ~IsValid(flash'[f].tag) \/ flash'[f].tag.ecc = flash'[f].data,
         pc' \in {"gc", "idle", "hung", "off"}
  PROVE  StoreInv'
<1>1. ~wrapped' => Intact(flash', torn')
  BY CommittedIsIntact, OnePageIntact DEF StoreInv
<1>2. CommittedDataIntact'
  BY <1>1 DEF CommittedDataIntact, Intact
<1>3. QED
  BY <1>2 DEF StoreInv

LEMMA MarkBadStore ==
  ASSUME StoreInv, NEW blk \in Blocks, MarkBad(blk)
  PROVE  StoreInv'
  BY QuietStore DEF MarkBad, history

LEMMA CallStore ==
  ASSUME GCBase, StoreInv,
         \/ FTL_GC_WhenIdle \/ FTL_GC_ForStore \/ FTL_GC_Recursion \/ FTL_GC_Returns
         \/ CallDynamic_WL \/ Dynamic_WL_Returns
  PROVE  StoreInv'
<1>1. UNCHANGED <<flash, torn, wrapped>>
  BY DEF FTL_GC_WhenIdle, FTL_GC_ForStore, FTL_GC_Recursion, FTL_GC_Returns, CallDynamic_WL,
         Dynamic_WL_Returns, history
<1>2. pc' \in {"gc", "idle", "overflow", "scan1"}
  BY DEF FTL_GC_WhenIdle, FTL_GC_From, FTL_GC_ForStore, FTL_GC_Recursion, FTL_GC_Returns,
         GcIsDone, CallDynamic_WL, Dynamic_WL_Returns, GCBase, GCTypeOK, PlaceInv, Passes
<1>3. pc' = "scan1" => Page_Addr' = MAX16
  BY DEF FTL_GC_WhenIdle, FTL_GC_From, FTL_GC_ForStore, FTL_GC_Recursion, FTL_GC_Returns,
         GcIsDone, CallDynamic_WL, Dynamic_WL_Returns, GCBase, PlaceInv, scanVars
<1>4. QED
  BY <1>1, <1>2, <1>3, QuietStore

LEMMA GcStore ==
  ASSUME GCBase, StoreInv,
         \/ FTL_GC_MeetsBadPage \/ Pass1 \/ NextPass \/ Pass2 \/ Search2 \/ Pass3 \/ Search3
  PROVE  StoreInv'
<1>1. CASE FTL_GC_MeetsBadPage
  BY <1>1, MarkBadStore DEF FTL_GC_MeetsBadPage, Looking
<1>2. ASSUME ~FTL_GC_MeetsBadPage PROVE StoreInv'
  <2>1. UNCHANGED <<flash, torn, wrapped>>
    BY <1>2 DEF Pass1, NextPass, Pass2, Search2, Pass3, Search3, Collect, history
  <2>2. pc' \in {"gc", "erase", "abort"}
    BY <1>2 DEF Pass1, NextPass, Pass2, Search2, Pass3, Search3, Looking, Collect
  <2>3. QED
    BY <2>1, <2>2, QuietStore
<1>3. QED
  BY <1>1, <1>2

LEMMA LastRetagStore ==
  ASSUME GCBase, StoreInv, LastRetag
  PROVE  StoreInv'
<1>1. flash \in Image /\ fresh \in Tag /\ fresh.used = Clear /\ Page_Addr \in Pages
  BY DEF GCBase, GCTypeOK, VarTypes, Image, Erasing, StoreInv, LastRetag
<1>2. NewTag(Page_Addr) \in Tag /\ ~IsValid(NewTag(Page_Addr))
  BY <1>1, NewTagTypes
<1>3. /\ Skew(Page_Addr) \in PhysicalPages
      /\ flash'[Skew(Page_Addr)].tag = NewTag(Page_Addr)
      /\ \A g \in PhysicalPages : g # Skew(Page_Addr) => flash'[g] = flash[g]
  BY <1>1, <1>2, TagWritten DEF LastRetag
<1>4. pc' = "gc" /\ UNCHANGED wrapped /\ torn' = torn \ {Skew(Page_Addr)}
  BY DEF LastRetag
<1>5. QED
  BY <1>2, <1>3, <1>4, OnePageStore

LEMMA MoveStore ==
  ASSUME GCBase, StoreInv, CopyPage \/ CopyAborts \/ SpoilTarget \/ RetireSource
  PROVE  StoreInv'
<1>a. flash \in Image /\ mv.src \in Nat /\ mv.dst \in Pages
  BY DEF GCBase, GCTypeOK, VarTypes, Image
<1>b. Target \in PhysicalPages
  BY <1>a, SkewInFile DEF Target
<1>1. CASE CopyPage
  <2>1. mv.src \in Pages
    BY <1>1, <1>a, ReachedPage DEF CopyPage, Moving
  <2>2. /\ Skew(mv.src) \in PhysicalPages
        /\ flash'[Target] = flash[Skew(mv.src)]
        /\ \A g \in PhysicalPages : g # Target => flash'[g] = flash[g]
    BY <1>1, <1>a, <2>1, PageCopied DEF CopyPage, Source, Target
  <2>3. /\ torn \subseteq torn' \cup {Target}
        /\ Skew(mv.src) \in torn => Target \in torn'
    BY <1>1 DEF CopyPage, TornAfterCopy
  <2>4. ~wrapped => Intact(flash, torn)
    BY CommittedIsIntact DEF StoreInv
  <2>5. ~wrapped =>
          Target \in torn' \/ ~IsValid(flash'[Target].tag)
            \/ flash'[Target].tag.ecc = flash'[Target].data
    BY <2>2, <2>3, <2>4 DEF Intact
  <2>6. pc' = "gc" /\ UNCHANGED wrapped
    BY <1>1 DEF CopyPage, Moving
  <2>7. QED
    BY <1>b, <2>2, <2>3, <2>5, <2>6, OnePageStore
<1>2. CASE CopyAborts
  BY <1>2, QuietStore DEF CopyAborts, history
<1>3. CASE SpoilTarget
  <2>1. /\ ~IsValid(flash'[Target].tag)
        /\ \A g \in PhysicalPages : g # Target => flash'[g] = flash[g]
    BY <1>3, <1>a, GarbageTag, TagWritten DEF SpoilTarget, Target
  <2>2. pc' = "gc" /\ UNCHANGED <<wrapped, torn>>
    BY <1>3 DEF SpoilTarget, history
  <2>3. QED
    BY <1>b, <2>1, <2>2, OnePageStore
<1>4. CASE RetireSource
  <2>1. mv.src \in Pages
    BY <1>4, <1>a, ReachedPage DEF RetireSource, GCBase, PlaceInv
  <2>2. [ReadSpare(flash, mv.src) EXCEPT !.dirty = Set] \in Tag
        /\ ~IsValid([ReadSpare(flash, mv.src) EXCEPT !.dirty = Set])
    BY <1>a, <2>1, Accesses, DirtyTag
  <2>3. /\ Skew(mv.src) \in PhysicalPages
        /\ ~IsValid(flash'[Skew(mv.src)].tag)
        /\ \A g \in PhysicalPages : g # Skew(mv.src) => flash'[g] = flash[g]
    BY <1>4, <1>a, <2>1, <2>2, TagWritten DEF RetireSource
  <2>4. pc' = "gc" /\ UNCHANGED <<wrapped, torn>>
    BY <1>4 DEF RetireSource, history
  <2>5. QED
    BY <2>3, <2>4, OnePageStore
<1>5. QED
  BY <1>1, <1>2, <1>3, <1>4

LEMMA WearStore ==
  ASSUME GCBase, StoreInv,
         \/ Static_WL \/ SeekRarelyErased \/ RarelyErasedFound \/ Static_WL_Moves
         \/ ANTI_Dynamic_WL \/ SeekOftenErased \/ OftenErasedFound
  PROVE  StoreInv'
<1>1. CASE \E blk \in Blocks : MarkBad(blk)
  BY <1>1, MarkBadStore
<1>2. ASSUME ~\E blk \in Blocks : MarkBad(blk) PROVE StoreInv'
  <2>1. UNCHANGED <<flash, torn, wrapped>>
    BY <1>2 DEF Static_WL, SeekRarelyErased, RarelyErasedFound, Static_WL_Moves,
                ANTI_Dynamic_WL, SeekOftenErased, OftenErasedFound, history
  <2>2. pc' \in {"gc", "idle"}
    BY <1>2 DEF Static_WL, SeekRarelyErased, RarelyErasedFound, Static_WL_Moves,
                ANTI_Dynamic_WL, FTL_GC_From, SeekOftenErased, OftenErasedFound
  <2>3. QED
    BY <2>1, <2>2, QuietStore
<1>3. QED
  BY <1>1, <1>2

LEMMA DiscardStore ==
  ASSUME GCBase, StoreInv, NEW s \in Sectors, Discard(s)
  PROVE  StoreInv'
<1> DEFINE page == DPM_Table[s]
<1>1. flash \in Image /\ page \in Pages
  BY Words DEF GCBase, GCTypeOK, VarTypes, Image
<1>2. [ReadSpare(flash, page) EXCEPT !.dirty = Set] \in Tag
      /\ ~IsValid([ReadSpare(flash, page) EXCEPT !.dirty = Set])
  BY <1>1, Accesses, DirtyTag
<1>3. flash' = WriteSpare(flash, page, [ReadSpare(flash, page) EXCEPT !.dirty = Set])
  BY DEF Discard
<1>4. /\ Skew(page) \in PhysicalPages
      /\ ~IsValid(flash'[Skew(page)].tag)
      /\ \A g \in PhysicalPages : g # Skew(page) => flash'[g] = flash[g]
  BY <1>1, <1>2, <1>3, TagWritten
<1>5. pc' = "idle" /\ UNCHANGED <<wrapped, torn>>
  BY DEF Discard
<1> HIDE DEF page
<1>6. QED
  BY <1>4, <1>5, OnePageStore

LEMMA KilledStore ==
  ASSUME GCBase, StoreInv, UNCHANGED BBT_BlkNum, GcKilled
  PROVE  StoreInv'
<1>a. flash \in Image /\ VarTypes /\ mv.dst \in Pages
  BY DEF GCBase, GCTypeOK, VarTypes, Image
<1>1. CASE Killed
  BY <1>1, <1>a, GCAssumption, StoreStep DEF Next
<1>2. ASSUME Death, TornMove PROVE StoreInv'
  <2>1. pc' = "off" /\ UNCHANGED wrapped
    BY <1>2 DEF Death, Returned
  <2>2. Target \in PhysicalPages
    BY <1>a, SkewInFile DEF Target
  <2>3. CASE Moving
    <3>1. Target \in torn' /\ torn \subseteq torn'
      BY <1>2, <2>3 DEF Moving, TornMove
    <3>2. \A g \in PhysicalPages : g # Target => flash'[g] = flash[g]
      BY <1>2, TornMovePages
    <3>3. QED
      BY <2>1, <2>2, <3>1, <3>2, OnePageStore
  <2>4. CASE ~Moving
    <3>1. PICK tag \in Garbage : TornTag(Target, tag)
      BY <1>2, <2>4 DEF TornMove
    <3>2. tag \in Tag /\ ~IsValid(tag)
      BY <3>1, GarbageTag
    <3>3. ~wrapped => Intact(flash', torn')
      BY <1>a, <2>2, <3>1, <3>2, CommittedIsIntact, TornTagIntact DEF StoreInv
    <3>4. CommittedDataIntact'
      BY <2>1, <3>3 DEF CommittedDataIntact, Intact
    <3>5. QED
      BY <2>1, <3>4 DEF StoreInv
  <2>5. QED
    BY <2>3, <2>4
<1>3. QED
  BY <1>1, <1>2 DEF GcKilled

LEMMA GCStoreStep ==
  ASSUME GCBase, StoreInv, [GCNext]_allVars
  PROVE  StoreInv'
<1>a. VarTypes /\ DPM_Pages_Per_Blk = 1
  BY GCAssumption DEF GCBase, GCTypeOK
<1>1. CASE UNCHANGED allVars
  BY <1>1, <1>a, StoreStep DEF allVars
<1>2. ASSUME Working PROVE StoreInv'
  <2>1. UNCHANGED <<BBT_BlkNum, kills, churn>>
    BY <1>2 DEF Working
  <2>2. CASE Storing_FTL \/ VerifyPage \/ MarkBlockBad
    BY <1>a, <2>1, <2>2, StoringIsNext, StoreStep
  <2>3. ASSUME Collecting PROVE StoreInv'
    BY <2>3, CallStore, GcStore, LastRetagStore, MoveStore, WearStore DEF Collecting
  <2>4. QED
    BY <1>2, <2>2, <2>3 DEF Working
<1>3. ASSUME GCCalls, UNCHANGED <<BBT_BlkNum, kills>> PROVE StoreInv'
  <2>1. CASE Calls
    BY <1>3, <1>a, <2>1, StoreStep DEF Next
  <2>2. QED
    BY <1>3, <2>1, CallStore, WearStore, DiscardStore DEF GCCalls
<1>4. ASSUME GcKilled, UNCHANGED BBT_BlkNum PROVE StoreInv'
  BY <1>4, KilledStore
<1>5. QED
  BY <1>1, <1>2, <1>3, <1>4 DEF GCNext

-----------------------------------------------------------------------------
(* Clean data.                                                             *)

\* The sectors that are safe after the step were so before it, on the same page
\* and with the same contents.
Kept ==
  /\ ~wrapped' => ~wrapped
  /\ \A s \in Safe' :
       /\ s \in Safe
       /\ acked'[s] = acked[s]
       /\ home'[s] = home[s]
       /\ ~wrapped' => flash'[home[s]] = flash[home[s]]

LEMMA KeptQuiet ==
  ASSUME UNCHANGED <<flash, acked, home>>, lost \subseteq lost', ~wrapped' => ~wrapped
  PROVE  Kept
  BY DEF Kept, Safe, Stored

LEMMA KeptWrite ==
  ASSUME GCBase, UNCHANGED <<acked, home>>, ~wrapped' => ~wrapped, lost \subseteq lost',
         NEW pages, \A g \in PhysicalPages \ pages : flash'[g] = flash[g],
         ~wrapped' => \A s \in Safe' : home[s] \notin pages
  PROVE  Kept
<1>1. Safe' \subseteq Safe /\ Safe \subseteq Sectors
  BY DEF Safe, Stored
<1>2. \A s \in Sectors : home[s] \in PhysicalPages
  BY DEF GCBase, GCTypeOK, VarTypes
<1>3. QED
  BY <1>1, <1>2 DEF Kept

LEMMA KeptSurvives ==
  ASSUME SurviveInv, Kept
  PROVE  CleanDataSurvives'
  BY DEF SurviveInv, Kept, CleanDataSurvives, Safe

\* A page whose tag says that it is not in use is nobody's home.
LEMMA ClearIsNoHome ==
  ASSUME SurviveInv, ~wrapped, NEW f \in PhysicalPages, flash[f].tag.used = Clear
  PROVE  \A s \in Safe : home[s] # f
  BY DEF SurviveInv, CleanDataSurvives, Safe, IsValid

\* Where nothing is about to be written.
LEMMA QuietSurvive ==
  ASSUME SurviveInv, Kept, pc' \notin {"verify", "markbad"} \cup Erasing,
         pc' = "gc" => place' \notin {"old"} \cup MovePlaces
  PROVE  SurviveInv'
<1>1. CleanDataSurvives'
  BY KeptSurvives
<1>2. QED
  BY <1>1 DEF SurviveInv, Erasing, MovePlaces

LEMMA MarkBadSurvive ==
  ASSUME SurviveInv, NEW blk, MarkBad(blk)
  PROVE  SurviveInv'
  BY KeptQuiet, QuietSurvive DEF MarkBad, history, Erasing

LEMMA MarkBlockSurvive ==
  ASSUME GCBase, SurviveInv, MarkBlockBad, lost' = lost \cup StoredIn({BadMark(m16i_Blk)})
  PROVE  SurviveInv'
<1>1. flash \in Image /\ m16i_Blk \in Blocks
  BY DEF GCBase, GCTypeOK, VarTypes, Image, MarkBlockBad
<1>2. UNCHANGED <<acked, home, wrapped>> /\ pc' = "hung"
  BY DEF MarkBlockBad, NAND_BuildBBT, history
<1>3. \A g \in PhysicalPages : g # BadMark(m16i_Blk) => flash'[g] = flash[g]
  BY <1>1, MarkedImage DEF MarkBlockBad
<1>4. \A s \in Safe' : home[s] \notin {BadMark(m16i_Blk)}
  BY <1>2 DEF Safe, Stored, StoredIn
<1>5. Kept
  BY <1>2, <1>3, <1>4, KeptWrite
<1>6. QED
  BY <1>2, <1>5, QuietSurvive DEF Erasing

\* The steps that this module shares with FTL.
LEMMA SharedSurvive ==
  ASSUME GCBase, StoreInv, SurviveInv, Storing_FTL, UNCHANGED gcLocals
  PROVE  SurviveInv'
<1> USE DEF mapVars, scanVars, eraseVars, history, gcLocals
<1>a. flash \in Image /\ VarTypes
  BY DEF GCBase, GCTypeOK, VarTypes, Image
<1>b. pc \notin Erasing => Page_Addr \in Pages
  BY <1>a, Words DEF VarTypes
<1>c. Page_Addr \in Pages => Skew(Page_Addr) \in PhysicalPages
  BY SkewInFile
<1>1. CASE Create_DPM
  BY <1>1, KeptQuiet, QuietSurvive DEF Create_DPM, Erasing
<1>2. CASE ScanFirst \/ ScanYounger
  <2>1. UNCHANGED <<flash, acked, home, lost>> /\ pc' \in {"scan1", "scan2"}
    BY <1>2 DEF ScanFirst, ScanYounger
  <2>2. wrapped' = wrapped \/ \E p \in Pages : wrapped' = (wrapped \/ p >= U16)
    <3>1. m16i_Blk \in Blocks
      BY <1>2 DEF ScanFirst, ScanYounger
    <3>2. QED
      BY <1>2, <3>1, StopsInChip DEF ScanFirst, ScanYounger, Take
  <2>3. ~wrapped' => ~wrapped
    BY <2>2, Zenon
  <2>4. QED
    BY <2>1, <2>3, KeptQuiet, QuietSurvive DEF Erasing
<1>3. CASE Get_FreeDPage
  BY <1>3, KeptQuiet, QuietSurvive DEF Get_FreeDPage, Returned, Erasing
<1>4. CASE WritePageData
  <2>1. Skew(Page_Addr) \in PhysicalPages /\ payload \in Payload
    BY <1>4, <1>a, <1>b, <1>c DEF WritePageData, Erasing, VarTypes
  <2>2. \A g \in PhysicalPages : g # Skew(Page_Addr) => flash'[g] = flash[g]
    BY <1>4, <1>a, <2>1, DataReplaced DEF WritePageData, WriteData
  <2>3. ~wrapped => \A s \in Safe : home[s] \notin {Skew(Page_Addr)}
    BY <1>4, <2>1, ClearIsNoHome DEF WritePageData, StoreInv, ReadSpare
  <2>4. UNCHANGED <<acked, home, wrapped, lost>> /\ pc' = "tag" /\ Safe' = Safe
    BY <1>4 DEF WritePageData, Safe, Stored
  <2>5. Kept
    BY <2>2, <2>3, <2>4, KeptWrite
  <2>6. QED
    BY <2>4, <2>5, QuietSurvive DEF Erasing
<1>5. CASE WritePageTag
  <2>1. Page_Addr \in Pages /\ Skew(Page_Addr) \in PhysicalPages /\ TagOf(payload) \in Tag
    BY <1>5, <1>a, <1>b, <1>c, ErasedTypes DEF WritePageTag, Erasing, VarTypes
  <2>2. \A g \in PhysicalPages : g # Skew(Page_Addr) => flash'[g] = flash[g]
    BY <1>5, <1>a, <2>1, TagWritten DEF WritePageTag
  <2>3. ~wrapped => \A s \in Safe : home[s] # Skew(Page_Addr)
    BY <1>5, <2>1, ClearIsNoHome DEF WritePageTag, StoreInv, ReadSpare
  <2>4. UNCHANGED <<acked, home, wrapped, lost, Page_Addr>> /\ pc' = "verify" /\ Safe' = Safe
    BY <1>5 DEF WritePageTag, Safe, Stored
  <2>5. CleanDataSurvives'
    <3>1. ~wrapped' => \A s \in Safe' : home[s] \notin {Skew(Page_Addr)}
      BY <2>3, <2>4
    <3>2. Kept
      BY <2>2, <2>4, <3>1, KeptWrite
    <3>3. QED
      BY <3>2, KeptSurvives
  <2>6. ~wrapped' => \A s \in Safe' : home'[s] # Skew(Page_Addr')
    BY <2>3, <2>4
  <2>7. QED
    BY <2>4, <2>5, <2>6 DEF SurviveInv, Erasing
<1>6. CASE RejectPage
  <2>1. UNCHANGED <<flash, acked, home, wrapped, lost, Page_Addr>> /\ pc = "verify"
        /\ pc' = "markbad" /\ Safe' = Safe
    BY <1>6 DEF RejectPage, Safe, Stored
  <2>2. CleanDataSurvives'
    BY <2>1, KeptQuiet, KeptSurvives
  <2>3. ~wrapped' => \A s \in Safe' : home'[s] # Skew(Page_Addr')
    BY <2>1 DEF SurviveInv
  <2>4. QED
    BY <2>1, <2>2, <2>3 DEF SurviveInv, Erasing
<1>7. CASE MarkPageBad
  <2>1. Page_Addr \in Pages
    BY <1>7, <1>b DEF MarkPageBad, Erasing
  <2>2. [ReadSpare(flash, Page_Addr) EXCEPT !.bi = Set] \in Tag
    BY <1>a, <2>1, Accesses, ErasedTypes
  <2>3. \A g \in PhysicalPages : g # Skew(Page_Addr) => flash'[g] = flash[g]
    BY <1>7, <1>a, <2>1, <2>2, TagWritten DEF MarkPageBad
  <2>4. UNCHANGED <<acked, home, wrapped, lost>> /\ pc' = "idle" /\ Safe' = Safe
    BY <1>7 DEF MarkPageBad, Returned, Safe, Stored
  <2>5. ~wrapped => \A s \in Safe : home[s] \notin {Skew(Page_Addr)}
    BY <1>7 DEF MarkPageBad, SurviveInv
  <2>6. Kept
    BY <2>3, <2>4, <2>5, KeptWrite
  <2>7. QED
    BY <2>4, <2>6, QuietSurvive DEF Erasing
<1>8. CASE Nand_EraseBlock
  <2>1. m16i_Blk \in Blocks
    BY <1>8, <1>a DEF Nand_EraseBlock, VarTypes, Erasing
  <2>2. \A g \in PhysicalPages \ Reach(m16i_Blk) : flash'[g] = flash[g]
    BY <1>8, <1>a, <2>1, BlockErased, ReachInFile DEF Nand_EraseBlock
  <2>3. UNCHANGED <<acked, home, wrapped, lost, m16i_Blk>> /\ pc' = "retag" /\ Safe' = Safe
        /\ Page_Addr' = FirstPage(m16i_Blk)
    BY <1>8 DEF Nand_EraseBlock, Safe, Stored
  <2>4. ~wrapped => \A s \in Safe : home[s] \notin Reach(m16i_Blk)
    BY <1>8 DEF Nand_EraseBlock, SurviveInv, Erasing
  <2>5. CleanDataSurvives'
    <3>1. Kept
      BY <2>2, <2>3, <2>4, KeptWrite
    <3>2. QED
      BY <3>1, KeptSurvives
  <2>6. Page_Addr' \in PagesOf(m16i_Blk')
    BY <2>1, <2>3, BlockPages
  <2>7. ~wrapped' => \A s \in Safe' : home'[s] \notin Reach(m16i_Blk')
    <3>1. Reach(m16i_Blk') = Reach(m16i_Blk)
      BY <2>3
    <3>2. QED
      BY <2>3, <2>4, <3>1
  <2>8. QED
    BY <2>3, <2>5, <2>6, <2>7 DEF SurviveInv
<1>9. CASE Retag /\ (place # "none" => pc' = "retag")
  <2>1. m16i_Blk \in Blocks /\ Page_Addr \in Pages /\ pc = "retag" /\ fresh \in Tag
    BY <1>9, <1>a DEF Retag, VarTypes, Erasing
  <2>2. Skew(Page_Addr) \in Reach(m16i_Blk)
    BY <2>1, ReachInFile DEF SurviveInv
  <2>3. NewTag(Page_Addr) \in Tag
    BY <2>1, NewTagTypes
  <2>4. \A g \in PhysicalPages \ Reach(m16i_Blk) : flash'[g] = flash[g]
    BY <1>9, <1>a, <2>1, <2>2, <2>3, TagWritten DEF Retag
  <2>5. ~wrapped => \A s \in Safe : home[s] \notin Reach(m16i_Blk)
    BY <2>1 DEF SurviveInv, Erasing
  <2>6. UNCHANGED <<acked, home, wrapped, lost>> /\ Safe' = Safe
    BY <1>9 DEF Retag, Safe, Stored
  <2>7. Kept
    BY <2>4, <2>5, <2>6, KeptWrite
  <2>8. CASE pc' = "retag"
    <3>1. m16i_Blk' = m16i_Blk /\ Page_Addr' \in PagesOf(m16i_Blk)
      BY <1>9, <2>8 DEF Retag, Returned
    <3>2. ~wrapped' => \A s \in Safe' : home'[s] \notin Reach(m16i_Blk')
      <4>1. Reach(m16i_Blk') = Reach(m16i_Blk)
        BY <3>1
      <4>2. QED
        BY <2>5, <2>6, <4>1
    <3>3. CleanDataSurvives'
      BY <2>7, KeptSurvives
    <3>4. Page_Addr' \in PagesOf(m16i_Blk')
      BY <3>1
    <3>5. QED
      BY <2>8, <3>2, <3>3, <3>4 DEF SurviveInv
  <2>9. CASE pc' = "up"
    BY <2>7, <2>9, QuietSurvive DEF Erasing
  <2>10. QED
    BY <1>9, <2>1, <2>8, <2>9 DEF Retag, Returned
<1>10. CASE MeetBadPage
  BY <1>10, KeptQuiet, QuietSurvive DEF MeetBadPage, Erasing
<1>11. QED
  BY <1>1, <1>2, <1>3, <1>4, <1>5, <1>6, <1>7, <1>8, <1>9, <1>10 DEF Storing_FTL

LEMMA VerifySurvive ==
  ASSUME GCBase, StoreInv, SurviveInv, VerifyPage, lost' = lost \ {sector}
  PROVE  SurviveInv'
<1>1. /\ sector \in Sectors /\ payload \in Payload
      /\ acked \in [Sectors -> Payload \cup {None}] /\ home \in [Sectors -> PhysicalPages]
  BY DEF GCBase, GCTypeOK, VarTypes, VerifyPage
<1>2. /\ acked' = [acked EXCEPT ![sector] = payload]
      /\ home' = [home EXCEPT ![sector] = Skew(Page_Addr)]
      /\ UNCHANGED <<flash, wrapped>>
      /\ pc = "verify" /\ pc' = "idle"
  BY DEF VerifyPage, Returned
<1>3. flash[Skew(Page_Addr)].data = payload /\ flash[Skew(Page_Addr)].tag = TagOf(payload)
  BY <1>2 DEF StoreInv, ReadData, ReadSpare
<1>4. IsValid(TagOf(payload)) /\ TagOf(payload).ecc = payload
  BY DEF TagOf, IsValid, Set, Clear
<1>5. \A s \in Safe' : s \in Sectors /\ (s = sector \/ s \in Safe)
  BY <1>1, <1>2 DEF Safe, Stored
<1>6. CleanDataSurvives'
  <2> SUFFICES ASSUME ~wrapped', NEW s \in Safe'
               PROVE  /\ flash'[home'[s]].data = acked'[s]
                      /\ IsValid(flash'[home'[s]].tag)
                      /\ flash'[home'[s]].tag.ecc = acked'[s]
    BY DEF CleanDataSurvives, Safe
  <2>1. CASE s = sector
    BY <1>1, <1>2, <1>3, <1>4, <2>1
  <2>2. CASE s # sector
    <3>1. s \in Stored \ lost /\ acked'[s] = acked[s] /\ home'[s] = home[s]
      BY <1>1, <1>2, <1>5, <2>2 DEF Safe
    <3>2. QED
      BY <1>2, <3>1 DEF SurviveInv, CleanDataSurvives
  <2>3. QED
    BY <2>1, <2>2
<1>7. QED
  BY <1>2, <1>6 DEF SurviveInv, Erasing

\* A block is given to pageOP_EraseBlk: what is stored in reach of it is given up.
LEMMA CollectSurvive ==
  ASSUME SurviveInv, NEW blk \in Blocks, HadDirty(blk), Collect(blk)
  PROVE  SurviveInv'
<1>1. UNCHANGED <<flash, acked, home, wrapped>> /\ m16i_Blk' = blk
      /\ pc' \in {"erase", "abort"} /\ lost' = lost \cup StoredIn(Reach(blk))
  BY DEF Collect, history
<1>2. \A s \in Safe' : home'[s] \notin Reach(blk)
  BY <1>1 DEF Safe, Stored, StoredIn
<1>3. \A s \in Safe' : home'[s] \notin Reach(m16i_Blk')
  <2>1. Reach(m16i_Blk') = Reach(blk)
    BY <1>1
  <2>2. QED
    BY <1>2, <2>1
<1>4. CleanDataSurvives'
  BY <1>1, KeptQuiet, KeptSurvives
<1>5. QED
  BY <1>1, <1>3, <1>4 DEF SurviveInv

LEMMA GcSurvive ==
  ASSUME GCBase, StoreInv, SurviveInv,
         \/ FTL_GC_WhenIdle \/ FTL_GC_ForStore \/ FTL_GC_Recursion \/ FTL_GC_Returns
         \/ FTL_GC_MeetsBadPage \/ Pass1 \/ NextPass \/ Pass2 \/ Search2 \/ Pass3 \/ Search3
         \/ CallDynamic_WL \/ Dynamic_WL_Returns
  PROVE  SurviveInv'
<1> USE DEF mapVars, scanVars, eraseVars, history, gcLocals
<1>a. PlaceInv
  BY DEF GCBase
<1>1. CASE FTL_GC_WhenIdle \/ FTL_GC_ForStore
  BY <1>1, KeptQuiet, QuietSurvive DEF FTL_GC_WhenIdle, FTL_GC_ForStore, FTL_GC_From, Erasing, MovePlaces
<1>2. CASE FTL_GC_Recursion \/ CallDynamic_WL
  BY <1>2, KeptQuiet, QuietSurvive DEF FTL_GC_Recursion, CallDynamic_WL, Erasing
<1>3. CASE FTL_GC_Returns
  <2>1. pc' \in {"gc", "idle", "scan1"} /\ place' \in {"anti", "none"}
    BY <1>3, <1>a DEF FTL_GC_Returns, GcIsDone, GCBase, GCTypeOK, PlaceInv, Passes
  <2>2. QED
    BY <1>3, <2>1, KeptQuiet, QuietSurvive DEF FTL_GC_Returns, Erasing, MovePlaces
<1>4. CASE FTL_GC_MeetsBadPage
  BY <1>4, MarkBadSurvive DEF FTL_GC_MeetsBadPage
<1>5. CASE Pass1
  <2>1. CASE Stops("pass1", gc.blk) = {} /\ Collect(gc.blk)
    <3>1. Dirty(gc.blk) # {}
      BY <1>5, <2>1, BlockPages DEF Stops, Pass1, Looking
    <3>2. QED
      BY <1>5, <2>1, <3>1, CollectSurvive DEF Pass1, Looking, HadDirty
  <2>2. CASE UNCHANGED <<flash, pc, mapVars, scanVars, eraseVars, history, mv, wl, lost>>
    BY <1>5, <2>2, KeptQuiet, QuietSurvive DEF Pass1, Looking, Erasing, MovePlaces
  <2>3. QED
    BY <1>5, <2>1, <2>2 DEF Pass1
<1>6. CASE NextPass \/ Pass2 \/ Pass3
  BY <1>6, KeptQuiet, QuietSurvive DEF NextPass, Pass2, Pass3, Looking, Erasing, MovePlaces
<1>7. CASE Search2
  <2>1. CASE place' = "alloc" /\ UNCHANGED <<flash, pc, mapVars, scanVars, eraseVars, history, wl, lost>>
    BY <1>7, <2>1, KeptQuiet, QuietSurvive DEF Search2, Erasing, MovePlaces
  <2>2. CASE Collect(gc.blk)
    BY <1>7, <1>a, <2>2, CollectSurvive DEF Search2, HadDirty, PlaceInv, Searches
  <2>3. QED
    BY <1>7, <2>1, <2>2 DEF Search2
<1>8. CASE Search3
  <2>1. CASE Collect(gc.blk)
    BY <1>8, <1>a, <2>1, CollectSurvive DEF Search3, HadDirty, PlaceInv, Searches
  <2>2. ASSUME ~Collect(gc.blk) PROVE SurviveInv'
    <3>1. UNCHANGED <<flash, acked, home, wrapped, lost>> /\ pc' = "gc"
      BY <1>8, <2>2, Zenon DEF Search3
    <3>2. place' = "search3" \/ (place' = "copy" /\ mv'.caller = "search3")
      <4>1. \/ UNCHANGED place
            \/ /\ place' = "copy"
               /\ \E k, page : mv' = [src |-> k, dst |-> page, caller |-> "search3"]
        BY <1>8, <2>2, Zenon DEF Search3
      <4>2. place = "search3"
        BY <1>8, Zenon DEF Search3
      <4>3. QED
        BY <4>1, <4>2
    <3>3. CleanDataSurvives'
      BY <3>1, KeptQuiet, KeptSurvives
    <3>4. QED
      BY <3>1, <3>2, <3>3 DEF SurviveInv, Erasing
  <2>3. QED
    BY <2>1, <2>2
<1>9. CASE Dynamic_WL_Returns
  <2>1. UNCHANGED <<flash, acked, home, wrapped, lost>> /\ pc' = "gc" /\ place' = "copy"
        /\ pc = "scan2"
    BY <1>9 DEF Dynamic_WL_Returns
  <2>2. mv'.dst = Page_Addr
    <3>1. Page_Addr \in Pages
      BY <2>1, Words DEF GCBase, GCTypeOK, VarTypes, Erasing
    <3>2. mv' = [mv EXCEPT !.dst = Page_Addr \div DPM_Pages_Per_Blk]
          /\ mv \in [src : Nat, dst : Pages, caller : {"none", "search2", "search3", "wear"}]
      BY <1>9 DEF Dynamic_WL_Returns, GCBase, GCTypeOK
    <3>3. QED
      BY <3>1, <3>2, PageBounds
  <2>3. ~wrapped => ReadSpare(flash, Page_Addr).used = Clear
    BY <2>1 DEF StoreInv
  <2>4. ~wrapped' => ReadSpare(flash', mv'.dst).used = Clear
    BY <2>1, <2>2, <2>3 DEF ReadSpare
  <2>5. CleanDataSurvives'
    BY <2>1, KeptQuiet, KeptSurvives
  <2>6. QED
    BY <2>1, <2>4, <2>5 DEF SurviveInv, Erasing
<1>10. QED
  BY <1>1, <1>2, <1>3, <1>4, <1>5, <1>6, <1>7, <1>8, <1>9

LEMMA LastRetagSurvive ==
  ASSUME GCBase, SurviveInv, LastRetag
  PROVE  SurviveInv'
<1>1. flash \in Image /\ fresh \in Tag /\ Page_Addr \in Pages /\ m16i_Blk \in Blocks
      /\ pc = "retag" /\ pc' = "gc" /\ UNCHANGED <<acked, home, wrapped, lost, place>>
      /\ place \in Passes
  BY DEF GCBase, GCTypeOK, PlaceInv, VarTypes, Image, Erasing, LastRetag, gcLocals
<1>2. Skew(Page_Addr) \in Reach(m16i_Blk)
  BY <1>1, ReachInFile DEF SurviveInv
<1>3. NewTag(Page_Addr) \in Tag
  BY <1>1, NewTagTypes
<1>4. \A g \in PhysicalPages \ Reach(m16i_Blk) : flash'[g] = flash[g]
  BY <1>1, <1>2, <1>3, TagWritten DEF LastRetag
<1>5. ~wrapped' => \A s \in Safe' : home[s] \notin Reach(m16i_Blk)
  BY <1>1 DEF SurviveInv, Erasing, Safe, Stored
<1>6. Kept
  BY <1>1, <1>4, <1>5, KeptWrite
<1>7. QED
  BY <1>1, <1>6, QuietSurvive DEF Erasing, Passes, MovePlaces

\* The page that a move overwrites is not in use, or what is stored in it is
\* given up.
LEMMA TargetIsNoHome ==
  ASSUME GCBase, SurviveInv, ~wrapped, Moving, UNCHANGED <<acked, home>>,
         lost' = lost \cup StoredIn(Overwritten)
  PROVE  \A s \in Safe' : home[s] # Target
<1>1. Target \in PhysicalPages
  BY SkewInFile DEF GCBase, GCTypeOK, Target
<1>2. CASE mv.caller = "search3"
  BY <1>2 DEF Overwritten, StoredIn, Safe, Stored
<1>3. CASE mv.caller # "search3"
  <2>1. flash[Target].tag.used = Clear
    BY <1>3 DEF Moving, SurviveInv, ReadSpare, Target
  <2>2. \A s \in Safe : home[s] # Target
    BY <1>1, <2>1, ClearIsNoHome
  <2>3. Safe' \subseteq Safe
    BY DEF Safe, Stored
  <2>4. QED
    BY <2>2, <2>3
<1>4. QED
  BY <1>2, <1>3

LEMMA MoveSurvive ==
  ASSUME GCBase, SurviveInv, CopyPage \/ CopyAborts \/ SpoilTarget \/ RetireSource
  PROVE  SurviveInv'
<1> USE DEF mapVars, scanVars, eraseVars, history, gcLocals
<1>a. flash \in Image /\ mv.src \in Nat /\ mv.dst \in Pages
  BY DEF GCBase, GCTypeOK, VarTypes, Image
<1>1. CASE CopyPage
  <2>1. mv.src \in Pages
    BY <1>1, <1>a, ReachedPage DEF CopyPage, Moving
  <2>2. /\ flash'[Target] = flash[Skew(mv.src)]
        /\ \A g \in PhysicalPages : g # Target => flash'[g] = flash[g]
        /\ Skew(mv.src) \in PhysicalPages
    BY <1>1, <1>a, <2>1, PageCopied DEF CopyPage, Source, Target
  <2>3. /\ UNCHANGED <<acked, home, wrapped, mv>> /\ pc' = "gc"
        /\ lost' = lost \cup StoredIn(Overwritten)
        /\ place' \in {"retire", "spoil"}
    BY <1>1 DEF CopyPage, Moving
  <2>4. ~wrapped => \A s \in Safe' : home[s] # Target
    BY <1>1, <2>3, TargetIsNoHome DEF CopyPage
  <2>5. CleanDataSurvives'
    <3>1. ~wrapped' => \A s \in Safe' : home[s] \notin {Target}
      BY <2>3, <2>4
    <3>2. Kept
      BY <2>2, <2>3, <3>1, KeptWrite
    <3>3. QED
      BY <3>2, KeptSurvives
  <2>6. place' = "retire" => ReadSpare(flash', mv'.src) = ErasedTag
    <3>1. ASSUME place' = "retire" PROVE ReadSpare(flash', mv.dst) = ErasedTag
      BY <1>1, <3>1 DEF CopyPage, pageOP_ReadData
    <3>2. flash'[Skew(mv.src)] = flash[Skew(mv.src)]
      BY <2>2
    <3>3. QED
      BY <2>2, <2>3, <3>1, <3>2 DEF ReadSpare, Target
  <2>7. ~wrapped' => \A s \in Safe' : home'[s] # Target'
    BY <2>3, <2>4 DEF Target
  <2>8. QED
    BY <2>3, <2>5, <2>6, <2>7 DEF SurviveInv, Erasing
<1>2. CASE CopyAborts
  BY <1>2, KeptQuiet, QuietSurvive DEF CopyAborts, Erasing
<1>3. CASE SpoilTarget
  <2>1. \A g \in PhysicalPages : g # Target => flash'[g] = flash[g]
    BY <1>3, <1>a, GarbageTag, TagWritten DEF SpoilTarget, Target
  <2>2. UNCHANGED <<acked, home, wrapped, lost>> /\ pc' = "gc" /\ Safe' = Safe
    BY <1>3 DEF SpoilTarget, Safe, Stored
  <2>3. ~wrapped' => \A s \in Safe' : home[s] \notin {Target}
    BY <1>3, <2>2 DEF SpoilTarget, SurviveInv
  <2>4. Kept
    BY <2>1, <2>2, <2>3, KeptWrite
  <2>5. place' \in {"alloc", "anti", "search3"}
    BY <1>3 DEF SpoilTarget, GCBase, GCTypeOK, PlaceInv, MovePlaces, AfterFailure
  <2>6. QED
    BY <2>2, <2>4, <2>5, QuietSurvive DEF Erasing, MovePlaces
<1>4. CASE RetireSource
  <2>1. mv.src \in Pages /\ Skew(mv.src) \in PhysicalPages
    BY <1>4, <1>a, ReachedPage, SkewInFile DEF RetireSource, GCBase, PlaceInv
  <2>2. [ReadSpare(flash, mv.src) EXCEPT !.dirty = Set] \in Tag
    BY <1>a, <2>1, Accesses, DirtyTag
  <2>3. \A g \in PhysicalPages : g # Skew(mv.src) => flash'[g] = flash[g]
    BY <1>4, <1>a, <2>1, <2>2, TagWritten DEF RetireSource
  <2>4. UNCHANGED <<acked, home, wrapped, lost>> /\ pc' = "gc" /\ Safe' = Safe
    BY <1>4 DEF RetireSource, Safe, Stored
  <2>5. flash[Skew(mv.src)].tag.used = Clear
    BY <1>4, ErasedTypes DEF RetireSource, SurviveInv, ReadSpare
  <2>6. ~wrapped' => \A s \in Safe' : home[s] \notin {Skew(mv.src)}
    BY <2>1, <2>4, <2>5, ClearIsNoHome
  <2>7. Kept
    BY <2>3, <2>4, <2>6, KeptWrite
  <2>8. place' \in {"search2", "wear", "search3"}
    BY <1>4 DEF RetireSource, GCBase, GCTypeOK, PlaceInv, MovePlaces
  <2>9. QED
    BY <2>4, <2>7, <2>8, QuietSurvive DEF Erasing, MovePlaces
<1>5. QED
  BY <1>1, <1>2, <1>3, <1>4

\* A page that is not bad and at which a search for free pages stops is free.
LEMMA FoundIsFree ==
  ASSUME UNCHANGED <<flash, acked, home, wrapped, lost>>, SurviveInv,
         pc' = "gc", place' = "old", ReadSpare(flash, wl'.found).used = Clear
  PROVE  SurviveInv'
<1>1. CleanDataSurvives'
  BY KeptQuiet, KeptSurvives
<1>2. ReadSpare(flash', wl'.found).used = Clear
  BY DEF ReadSpare
<1>3. QED
  BY <1>1, <1>2 DEF SurviveInv, Erasing

LEMMA WearSurvive ==
  ASSUME GCBase, SurviveInv,
         \/ Static_WL \/ SeekRarelyErased \/ RarelyErasedFound \/ Static_WL_Moves
         \/ ANTI_Dynamic_WL \/ SeekOftenErased \/ OftenErasedFound
  PROVE  SurviveInv'
<1> USE DEF mapVars, scanVars, eraseVars, history, gcLocals
<1>a. wl \in [min : PageNumbers, blk : Blocks, page : 0 .. PagesPerBlock, src : Nat,
              max : 0 .. U8 - 1, found : Pages, at : 0 .. BlocksPerChip]
  BY DEF GCBase, GCTypeOK
<1>b. (\E blk \in Blocks : MarkBad(blk)) => SurviveInv'
  BY MarkBadSurvive
<1>1. CASE Static_WL
  <2>1. \/ \E blk \in Blocks : MarkBad(blk)
        \/ pc' = "gc" /\ place' = "rare" /\ UNCHANGED <<flash, history, lost>>
    BY <1>1 DEF Static_WL
  <2>2. QED
    BY <2>1, <1>b, KeptQuiet, QuietSurvive DEF Erasing, MovePlaces
<1>2. CASE SeekRarelyErased
  <2>1. \/ \E blk \in Blocks : MarkBad(blk)
        \/ /\ pc' = "gc" /\ place' = "rare" /\ UNCHANGED <<flash, history, lost>>
    BY <1>2 DEF SeekRarelyErased
  <2>2. QED
    BY <2>1, <1>b, KeptQuiet, QuietSurvive DEF Erasing, MovePlaces
<1>3. CASE RarelyErasedFound \/ Static_WL_Moves
  <2>1. UNCHANGED <<flash, history, lost>>
    BY <1>3, Zenon DEF RarelyErasedFound, Static_WL_Moves
  <2>2. pc' \in {"gc", "idle"} /\ place' \in {"wear", "anti", "none"}
    <3>1. CASE RarelyErasedFound
      BY <3>1 DEF RarelyErasedFound
    <3>2. CASE Static_WL_Moves
      BY <3>2 DEF Static_WL_Moves
    <3>3. QED
      BY <1>3, <3>1, <3>2
  <2>3. QED
    BY <2>1, <2>2, KeptQuiet, QuietSurvive DEF Erasing, MovePlaces
<1>4. CASE ANTI_Dynamic_WL
  <2>1. CASE FTL_GC_From("anti") /\ UNCHANGED <<flash, history, lost>>
    BY <2>1, KeptQuiet, QuietSurvive DEF FTL_GC_From, Erasing, MovePlaces
  <2>2. ASSUME NEW p \in FirstFree, ~IsBad(ReadSpare(flash, p)), pc' = "gc", place' = "old",
               wl' = [wl EXCEPT !.max = ReadSpare(flash, p).erase % U8, !.found = p],
               UNCHANGED <<flash, history, lost>>
        PROVE  SurviveInv'
    <3>1. ReadSpare(flash, p).used = Clear
      BY <2>2 DEF FirstFree, FirstOf, IsBad, IsFree
    <3>2. wl'.found = p
      BY <1>a, <2>2
    <3>3. QED
      BY <2>2, <3>1, <3>2, FoundIsFree
  <2>3. \/ FTL_GC_From("anti") /\ UNCHANGED <<flash, history, lost>>
        \/ \E blk \in Blocks : MarkBad(blk)
        \/ \E p \in FirstFree :
             /\ ~IsBad(ReadSpare(flash, p)) /\ pc' = "gc" /\ place' = "old"
             /\ wl' = [wl EXCEPT !.max = ReadSpare(flash, p).erase % U8, !.found = p]
             /\ UNCHANGED <<flash, history, lost>>
    BY <1>4 DEF ANTI_Dynamic_WL
  <2>4. QED
    BY <2>1, <2>2, <2>3, <1>b
<1>5. CASE SeekOftenErased
  <2> DEFINE stops == {p \in PagesOf(wl.at) :
                         LET tag == ReadSpare(flash, p)
                         IN  IsBad(tag) \/ (IsFree(tag) /\ tag.erase > wl.max)}
  <2>1. \/ \E blk \in Blocks : MarkBad(blk)
        \/ /\ pc' = "gc" /\ place' = "old" /\ UNCHANGED <<flash, history, lost>>
           /\ \/ wl' = [wl EXCEPT !.at = wl.at + 1]
              \/ \E p \in FirstOf(stops) :
                   /\ ~IsBad(ReadSpare(flash, p))
                   /\ wl' = [wl EXCEPT !.at = wl.at + 1,
                                       !.max = ReadSpare(flash, p).erase % U8, !.found = p]
    BY <1>5 DEF SeekOftenErased
  <2>2. ASSUME UNCHANGED <<flash, history, lost>>, pc' = "gc", place' = "old",
               wl' = [wl EXCEPT !.at = wl.at + 1]
        PROVE  SurviveInv'
    <3>1. pc = "gc" /\ place = "old"
      BY <1>5 DEF SeekOftenErased
    <3>2. wl'.found = wl.found
      BY <1>a, <2>2
    <3>3. CleanDataSurvives'
      BY <2>2, KeptQuiet, KeptSurvives
    <3>4. ~wrapped' => ReadSpare(flash', wl'.found).used = Clear
      BY <2>2, <3>1, <3>2 DEF SurviveInv, ReadSpare
    <3>5. QED
      BY <2>2, <3>3, <3>4 DEF SurviveInv, Erasing
  <2>3. ASSUME UNCHANGED <<flash, history, lost>>, pc' = "gc", place' = "old",
               NEW p \in FirstOf(stops), ~IsBad(ReadSpare(flash, p)),
               wl' = [wl EXCEPT !.at = wl.at + 1,
                                !.max = ReadSpare(flash, p).erase % U8, !.found = p]
        PROVE  SurviveInv'
    <3>1. ReadSpare(flash, p).used = Clear
      BY <2>3 DEF FirstOf, IsFree
    <3>2. wl'.found = p
      BY <1>a, <2>3
    <3>3. QED
      BY <2>3, <3>1, <3>2, FoundIsFree
  <2>4. QED
    BY <2>1, <2>2, <2>3, <1>b
<1>6. CASE OftenErasedFound
  <2>1. pc = "gc" /\ place = "old" /\ pc' = "gc" /\ place' = "copy"
        /\ mv' = [src |-> wl.src, dst |-> wl.found, caller |-> "wear"]
        /\ UNCHANGED <<flash, acked, home, wrapped, lost>>
    BY <1>6 DEF OftenErasedFound
  <2>2. ~wrapped' => ReadSpare(flash', mv'.dst).used = Clear
    BY <2>1 DEF SurviveInv, ReadSpare
  <2>3. CleanDataSurvives'
    BY <2>1, KeptQuiet, KeptSurvives
  <2>4. QED
    BY <2>1, <2>2, <2>3 DEF SurviveInv, Erasing
<1>7. QED
  BY <1>1, <1>2, <1>3, <1>4, <1>5, <1>6

LEMMA DiscardSurvive ==
  ASSUME GCBase, SurviveInv, NEW s \in Sectors, Discard(s)
  PROVE  SurviveInv'
<1> DEFINE page == DPM_Table[s]
<1>1. /\ flash \in Image /\ page \in Pages
      /\ acked \in [Sectors -> Payload \cup {None}] /\ home \in [Sectors -> PhysicalPages]
  BY Words DEF GCBase, GCTypeOK, VarTypes, Image
<1>2. [ReadSpare(flash, page) EXCEPT !.dirty = Set] \in Tag
  BY <1>1, Accesses, DirtyTag
<1>3. /\ flash' = WriteSpare(flash, page, [ReadSpare(flash, page) EXCEPT !.dirty = Set])
      /\ lost' = (lost \cup StoredIn({Skew(page)})) \ {s}
      /\ acked' = [acked EXCEPT ![s] = None]
      /\ UNCHANGED <<home, wrapped>>
      /\ pc' = "idle"
  BY DEF Discard
<1>4. \A g \in PhysicalPages : g # Skew(page) => flash'[g] = flash[g]
  BY <1>1, <1>2, <1>3, TagWritten
<1> HIDE DEF page
<1>5. \A t \in Safe' : t \in Safe /\ acked'[t] = acked[t] /\ home[t] # Skew(page)
  BY <1>1, <1>3 DEF Safe, Stored, StoredIn
<1>6. \A t \in Safe' : home[t] \in PhysicalPages
  BY <1>1, <1>5 DEF Safe, Stored
<1>7. Kept
  BY <1>3, <1>4, <1>5, <1>6 DEF Kept
<1>8. QED
  BY <1>3, <1>7, QuietSurvive DEF Erasing

LEMMA CallsSurvive ==
  ASSUME GCBase, SurviveInv, Calls, UNCHANGED gcVars
  PROVE  SurviveInv'
<1> USE DEF mapVars, scanVars, eraseVars, history, gcVars, gcLocals
<1>1. ASSUME NEW blk \in Blocks, pageOP_EraseBlk(blk) PROVE SurviveInv'
  <2>1. UNCHANGED <<flash, acked, home, wrapped, lost>> /\ pc' \in {"erase", "abort"}
    BY <1>1 DEF pageOP_EraseBlk
  <2>2. Safe' = {}
    BY <1>1 DEF pageOP_EraseBlk, Safe, Stored
  <2>3. CleanDataSurvives'
    BY <2>1, KeptQuiet, KeptSurvives
  <2>4. QED
    BY <2>1, <2>2, <2>3 DEF SurviveInv
<1>2. ASSUME NEW s \in Sectors, NEW v \in Payload, Get_Useful_WPage(s, v) PROVE SurviveInv'
  BY <1>2, KeptQuiet, QuietSurvive DEF Get_Useful_WPage, Erasing
<1>3. CASE PowerOn \/ DPM_Malloc
  BY <1>3, KeptQuiet, QuietSurvive DEF PowerOn, DPM_Malloc, Erasing
<1>4. QED
  BY <1>1, <1>2, <1>3 DEF Calls

LEMMA KilledSurvive ==
  ASSUME GCBase, StoreInv, SurviveInv, GcKilled
  PROVE  SurviveInv'
<1>a. flash \in Image /\ VarTypes /\ mv.dst \in Pages
  BY DEF GCBase, GCTypeOK, VarTypes, Image
<1>b. pc' = "off" /\ UNCHANGED <<acked, home, wrapped>>
  BY DEF GcKilled, Killed, Death, Returned
<1>c. Kept => SurviveInv'
  BY <1>b, QuietSurvive DEF Erasing
<1>d. Page_Addr \in Pages
  BY <1>a, Words DEF VarTypes, PageNumbers
<1>e. Skew(Page_Addr) \in PhysicalPages
  BY <1>d, SkewInFile
<1>0. CASE Killed /\ pc = "mark" /\ flash' # flash
  <2>1. lost' = lost \cup StoredIn({BadMark(m16i_Blk)})
    BY <1>0 DEF GcKilled, Moving, TornMove
  <2>2. BadMark(m16i_Blk) \in PhysicalPages
    BY <1>0, <1>a, MarkedPage DEF VarTypes
  <2>3. PICK tag \in Garbage : TornTag(BadMark(m16i_Blk), tag)
    BY <1>0 DEF Killed
  <2>4. \A g \in PhysicalPages : g # BadMark(m16i_Blk) => flash'[g] = flash[g]
    BY <1>a, <2>2, <2>3, GarbageTag, TornFlag
  <2>5. \A s \in Safe' : home[s] \notin {BadMark(m16i_Blk)}
    BY <1>b, <2>1 DEF Safe, Stored, StoredIn
  <2>6. Kept
    BY <1>b, <2>1, <2>4, <2>5, KeptWrite
  <2>7. QED
    BY <1>c, <2>6
<1>1. CASE Killed /\ UNCHANGED lost /\ (pc = "mark" => flash' = flash)
  <2>0. Safe' = Safe
    BY <1>1, <1>b DEF Safe, Stored
  <2>1. CASE UNCHANGED <<flash, torn>>
    BY <1>1, <1>b, <1>c, <2>1, KeptQuiet
  <2>2. CASE pc \in {"program", "tag"} /\ \A g \in PhysicalPages : g # Skew(Page_Addr) => flash'[g] = flash[g]
    <3>1. ~wrapped => \A s \in Safe : home[s] \notin {Skew(Page_Addr)}
      BY <1>e, <2>2, ClearIsNoHome DEF StoreInv, ReadSpare
    <3>2. Kept
      BY <1>1, <1>b, <2>0, <2>2, <3>1, KeptWrite
    <3>3. QED
      BY <1>c, <3>2
  <2>3. CASE pc \in Erasing /\ \A g \in PhysicalPages \ Reach(m16i_Blk) : flash'[g] = flash[g]
    <3>1. ~wrapped => \A s \in Safe : home[s] \notin Reach(m16i_Blk)
      BY <2>3 DEF SurviveInv
    <3>2. Kept
      BY <1>1, <1>b, <2>0, <2>3, <3>1, KeptWrite
    <3>3. QED
      BY <1>c, <3>2
  <2>4. CASE pc = "program" /\ flash' = WriteData(flash, Page_Addr, Partial)
    BY <1>a, <1>e, <2>2, <2>4, DataReplaced DEF WriteData
  <2>5. CASE pc = "tag" /\ TornTag(Skew(Page_Addr), TagOf(payload))
    <3>1. TagOf(payload) \in Tag
      BY <1>a, <2>5, ErasedTypes DEF VarTypes
    <3>2. QED
      BY <1>a, <1>e, <2>2, <2>5, <3>1, TornFlag
  <2>6. CASE pc = "retag" /\ TornTag(Skew(Page_Addr), NewTag(Page_Addr))
    <3>1. fresh \in Tag /\ m16i_Blk \in Blocks
      BY <1>a, <2>6 DEF VarTypes, Erasing
    <3>2. \A g \in PhysicalPages : g # Skew(Page_Addr) => flash'[g] = flash[g]
      BY <1>a, <1>e, <2>6, <3>1, NewTagTypes, TornFlag
    <3>3. Skew(Page_Addr) \in Reach(m16i_Blk)
      BY <2>6, <3>1, ReachInFile DEF SurviveInv
    <3>4. QED
      BY <2>3, <2>6, <3>2, <3>3 DEF Erasing
  <2>7. CASE pc = "erase" /\ TornErase
    <3>1. m16i_Blk \in Blocks
      BY <1>a, <2>7 DEF VarTypes, Erasing
    <3>2. \A g \in PhysicalPages \ ErasedBy(FirstPage(m16i_Blk)) : flash'[g] = flash[g]
      BY <2>7 DEF TornErase
    <3>3. \A g \in PhysicalPages \ Reach(m16i_Blk) : flash'[g] = flash[g]
      BY <3>1, <3>2, ReachInFile
    <3>4. QED
      BY <2>3, <2>7, <3>3 DEF Erasing
  <2>8. CASE flash' = flash
    BY <1>1, <1>b, <1>c, <2>8, KeptQuiet
  <2>9. QED
    BY <1>1, <2>1, <2>4, <2>5, <2>6, <2>7, <2>8 DEF Killed
<1>2. CASE TornMove
  <2>1. \A g \in PhysicalPages : g # Target => flash'[g] = flash[g]
    BY <1>2, TornMovePages
  <2>2. CASE Moving
    <3>1. lost' = lost \cup StoredIn(Overwritten)
      BY <1>2, <2>2 DEF TornMove, Moving
    <3>2. ~wrapped => \A s \in Safe' : home[s] \notin {Target}
      BY <1>b, <2>2, <3>1, TargetIsNoHome
    <3>3. Kept
      BY <1>b, <2>1, <3>1, <3>2, KeptWrite
    <3>4. QED
      BY <1>c, <3>3
  <2>3. CASE ~Moving
    <3>1. UNCHANGED lost /\ pc = "gc" /\ place = "spoil"
      BY <1>2, <2>3 DEF TornMove
    <3>2. ~wrapped => \A s \in Safe' : home[s] \notin {Target}
      BY <1>b, <3>1 DEF SurviveInv, Safe, Stored
    <3>3. Kept
      BY <1>b, <2>1, <3>1, <3>2, KeptWrite
    <3>4. QED
      BY <1>c, <3>3
  <2>4. QED
    BY <2>2, <2>3
<1>3. QED
  BY <1>0, <1>1, <1>2 DEF GcKilled

LEMMA SurviveStep ==
  ASSUME GCBase, StoreInv, SurviveInv, [GCNext]_allVars
  PROVE  SurviveInv'
<1>1. CASE UNCHANGED allVars
  BY <1>1 DEF allVars, vars, gcVars, gcLocals, mapVars, scanVars, eraseVars, history, SurviveInv,
              CleanDataSurvives, Safe, Stored, Reach, Target, ReadSpare
<1>2. ASSUME Working PROVE SurviveInv'
  <2>1. CASE Storing_FTL /\ UNCHANGED gcLocals
    BY <2>1, SharedSurvive
  <2>2. CASE VerifyPage /\ lost' = lost \ {sector}
    BY <2>2, VerifySurvive
  <2>3. CASE MarkBlockBad /\ lost' = lost \cup StoredIn({BadMark(m16i_Blk)})
    BY <2>3, MarkBlockSurvive
  <2>4. ASSUME Collecting PROVE SurviveInv'
    BY <2>4, GcSurvive, LastRetagSurvive, MoveSurvive, WearSurvive DEF Collecting
  <2>5. QED
    BY <1>2, <2>1, <2>2, <2>3, <2>4 DEF Working
<1>3. ASSUME GCCalls PROVE SurviveInv'
  BY <1>3, CallsSurvive, GcSurvive, WearSurvive, DiscardSurvive DEF GCCalls
<1>4. ASSUME GcKilled PROVE SurviveInv'
  BY <1>4, KilledSurvive
<1>5. QED
  BY <1>1, <1>2, <1>3, <1>4 DEF GCNext

LEMMA GCInitially ==
  GCInit => GCBase /\ StoreInv /\ SurviveInv
<1> SUFFICES ASSUME GCInit PROVE GCBase /\ StoreInv /\ SurviveInv
  OBVIOUS
<1>1. GCBase /\ StoreInv
  BY GCBaseInit, StoreInit DEF GCInit
<1>2. Safe = {} /\ pc = "off"
  BY DEF GCInit, Init, Safe, Stored
<1>3. SurviveInv
  BY <1>2 DEF SurviveInv, CleanDataSurvives, Safe, Erasing
<1>4. QED
  BY <1>1, <1>3

-----------------------------------------------------------------------------
(* Theorems.                                                               *)

LEMMA GCInvariance ==
  GCSpec => [](GCBase /\ StoreInv /\ SurviveInv)
<1>1. (GCBase /\ StoreInv /\ SurviveInv) /\ [GCNext]_allVars
        => (GCBase /\ StoreInv /\ SurviveInv)'
  BY GCBaseStep, GCStoreStep, SurviveStep
<1>2. QED
  BY GCInitially, <1>1, PTL DEF GCSpec

\* Whatever the geometry, and however collections, moves, wear levelling,
\* stores and deaths follow one another: the locals of FTL_GC, Static_WL,
\* ANTI_Dynamic_WL and DPM_Date_Move stay within their types, every page and
\* block they come to is one of the chip, and every map entry they read or
\* write holds a uint16_t.
THEOREM GCTypes == GCSpec => []GCTypeOK
<1>1. GCBase => GCTypeOK
  BY DEF GCBase
<1>2. QED
  BY GCInvariance, <1>1, PTL

\* A page whose tag says that it is valid holds the data its ECC was computed
\* from, also when its block is collected and it is copied, retired or spoiled,
\* unless the process died on it (FTL_GC, DPM_Date_Move, pageOP_EraseBlk).
THEOREM GCDataCommitted == GCSpec => []CommittedDataIntact
<1>1. StoreInv => CommittedDataIntact
  BY DEF StoreInv
<1>2. QED
  BY GCInvariance, <1>1, PTL

\* Garbage collection and wear levelling destroy nothing that was stored and was
\* not in reach of a block with a dirty page when that block was collected, of
\* the target of a move of the third pass, or of the mark of a bad block
\* (FTL_GC, Static_WL, DPM_Date_Move, NAND_MarkBadBlock).
THEOREM CleanSurvives == GCSpec => []CleanDataSurvives
<1>1. SurviveInv => CleanDataSurvives
  BY DEF SurviveInv
<1>2. QED
  BY GCInvariance, <1>1, PTL
=============================================================================
