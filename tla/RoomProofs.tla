----------------------------- MODULE RoomProofs ------------------------------
(***************************************************************************)
(* What FTL_GC leaves to its callers: a page, when it had one to collect,  *)
(* and the same pages and the same map when it had none.  For every        *)
(* geometry of the chip, and every number of sectors, calls and deaths.    *)
(***************************************************************************)
EXTENDS GCProofs

-----------------------------------------------------------------------------
(* Tags.                                                                   *)

LEMMA SameTags ==
  ASSUME UNCHANGED flash
  PROVE  /\ FreeOrBad' <=> FreeOrBad
         /\ \A p : ReadSpare(flash, p)' = ReadSpare(flash, p)
         /\ \A blk \in Blocks : /\ Bad(blk)' = Bad(blk)
                                /\ Dirty(blk)' = Dirty(blk)
                                /\ Live(blk)' = Live(blk)
                                /\ Noted(blk)' = Noted(blk)
                                /\ Passed1(blk)' <=> Passed1(blk)
                                /\ Passed2(blk)' <=> Passed2(blk)
<1>1. \A p : ReadSpare(flash, p)' = ReadSpare(flash, p)
  BY DEF ReadSpare
<1>2. FreeOrBad' <=> FreeOrBad
  BY DEF FreeOrBad, ReadSpare
<1>3. ASSUME NEW blk \in Blocks
      PROVE  /\ Bad(blk)' = Bad(blk)
             /\ Dirty(blk)' = Dirty(blk)
             /\ Live(blk)' = Live(blk)
  BY DEF Bad, Dirty, Live, ReadSpare
<1>4. ASSUME NEW blk \in Blocks
      PROVE  /\ Noted(blk)' = Noted(blk)
             /\ Passed1(blk)' <=> Passed1(blk)
             /\ Passed2(blk)' <=> Passed2(blk)
  BY <1>3 DEF Noted, Passed1, Passed2
<1>5. QED
  BY <1>1, <1>2, <1>3, <1>4

LEMMA NoneBad ==
  ASSUME ~FreeOrBad, NEW blk \in Blocks
  PROVE  Bad(blk) = {}
  BY BlockPages DEF FreeOrBad, Bad

LEMMA OnePageFree ==
  ASSUME NEW p \in Pages, flash'[Skew(p)].tag.bi # Clear \/ flash'[Skew(p)].tag.used = Clear
  PROVE  FreeOrBad'
<1>1. IsBad(ReadSpare(flash', p)) \/ IsFree(ReadSpare(flash', p))
  BY DEF IsBad, IsFree, ReadSpare
<1>2. QED
  BY <1>1 DEF FreeOrBad, ReadSpare

\* The steps of a collection that write leave a page that is free or bad.
LEMMA WrittenIsFree ==
  ASSUME GCBase, StoreInv, SurviveInv, LastRetag \/ SpoilTarget \/ RetireSource
  PROVE  FreeOrBad'
<1>a. flash \in Image /\ mv.src \in Nat /\ mv.dst \in Pages
  BY DEF GCBase, GCTypeOK, VarTypes, Image
<1>1. CASE LastRetag
  <2>1. fresh \in Tag /\ fresh.used = Clear /\ Page_Addr \in Pages
    BY <1>1 DEF GCBase, GCTypeOK, VarTypes, Erasing, StoreInv, LastRetag
  <2>2. NewTag(Page_Addr) \in Tag /\ NewTag(Page_Addr).used = Clear
    <3>1. NewTag(Page_Addr) \in Tag
      BY <2>1, NewTagTypes
    <3>2. NewTag(Page_Addr).used = fresh.used
      BY <2>1 DEF NewTag, Tag
    <3>3. QED
      BY <2>1, <3>1, <3>2
  <2>3. flash'[Skew(Page_Addr)].tag.used = Clear
    BY <1>1, <1>a, <2>1, <2>2, TagWritten DEF LastRetag
  <2>4. QED
    BY <2>1, <2>3, OnePageFree
<1>2. CASE SpoilTarget
  <2>1. PICK tag \in Garbage : flash' = WriteSpare(flash, mv.dst, tag)
    BY <1>2 DEF SpoilTarget
  <2>2. tag \in Tag /\ tag.bi # Clear
    BY GarbageAssumption DEF Set, Clear
  <2>3. flash'[Skew(mv.dst)].tag.bi # Clear
    BY <1>a, <2>1, <2>2, TagWritten
  <2>4. QED
    BY <1>a, <2>3, OnePageFree
<1>3. CASE RetireSource
  <2>1. mv.src \in Pages
    BY <1>3, <1>a, ReachedPage DEF RetireSource, GCBase, PlaceInv
  <2>2. ReadSpare(flash, mv.src) = ErasedTag
    BY <1>3 DEF RetireSource, SurviveInv
  <2>3. [ErasedTag EXCEPT !.dirty = Set] \in Tag /\ [ErasedTag EXCEPT !.dirty = Set].used = Clear
    BY ErasedTypes, DirtyTag DEF ErasedTag
  <2>4. flash' = WriteSpare(flash, mv.src, [ErasedTag EXCEPT !.dirty = Set])
    BY <1>3, <2>2 DEF RetireSource
  <2>5. flash'[Skew(mv.src)].tag.used = Clear
    BY <1>a, <2>1, <2>3, <2>4, TagWritten
  <2>6. QED
    BY <2>1, <2>5, OnePageFree
<1>4. QED
  BY <1>1, <1>2, <1>3

-----------------------------------------------------------------------------
(* Steps that lead to the places the invariants speak of.                  *)

InScan == pc \in {"gc", "scan1", "overflow"} /\ place \in Passes \cup {"search2", "alloc"}

FromAnti == ANTI_Dynamic_WL /\ FTL_GC_From("anti") /\ UNCHANGED flash

Scanning ==
  \/ FTL_GC_WhenIdle \/ FTL_GC_ForStore \/ FromAnti \/ FTL_GC_Recursion
  \/ Pass1 \/ NextPass \/ Pass2 \/ Pass3 \/ Search2
  \/ CallDynamic_WL \/ (ScanFirst /\ UNCHANGED gcLocals)
  \/ LastRetag \/ SpoilTarget \/ RetireSource

LEMMA Arrivals ==
  ASSUME GCBase, [GCNext]_allVars, InScan'
  PROVE  UNCHANGED allVars \/ Scanning
<1> SUFFICES ASSUME ~UNCHANGED allVars PROVE Scanning
  OBVIOUS
<1>a. PlaceInv
  BY DEF GCBase
<1>b. pc' \in {"gc", "scan1", "overflow"} /\ place' \in Passes \cup {"search2", "alloc"}
  BY DEF InScan
<1>1. ASSUME Storing_FTL, UNCHANGED gcLocals PROVE Scanning
  <2>1. Create_DPM => pc' \in {"dpm", "idle"}
    BY DEF Create_DPM
  <2>2. ScanYounger => pc' = "scan2"
    BY DEF ScanYounger
  <2>3. Get_FreeDPage => pc' \in {"program", "idle"}
    BY DEF Get_FreeDPage, Returned
  <2>4. WritePageData \/ WritePageTag \/ RejectPage \/ MarkPageBad
          => pc' \in {"tag", "verify", "markbad", "idle"}
    BY DEF WritePageData, WritePageTag, RejectPage, MarkPageBad, Returned
  <2>5. Nand_EraseBlock \/ Retag => pc' \in {"retag", "up"}
    BY DEF Nand_EraseBlock, Retag, Returned
  <2>6. MeetBadPage => pc' = "mark"
    BY DEF MeetBadPage
  <2>7. QED
    BY <1>1, <1>b, <2>1, <2>2, <2>3, <2>4, <2>5, <2>6 DEF Storing_FTL, Scanning
<1>2. ASSUME VerifyPage \/ MarkBlockBad PROVE FALSE
  BY <1>2, <1>b DEF VerifyPage, MarkBlockBad, NAND_BuildBBT, Returned
<1>3. ASSUME Collecting PROVE Scanning
  <2>1. ~FTL_GC_Returns
    BY <1>b DEF FTL_GC_Returns, Passes
  <2>2. ~FTL_GC_MeetsBadPage
    BY <1>b DEF FTL_GC_MeetsBadPage, MarkBad
  <2>3. ASSUME Search3 PROVE FALSE
    <3>1. place = "search3"
      BY <2>3 DEF Search3
    <3>2. place' \in {"copy", "search3"} \/ Collect(gc.blk)
      BY <2>3, <3>1, Zenon DEF Search3
    <3>3. QED
      BY <1>b, <3>2 DEF Collect, Passes
  <2>4. ~Dynamic_WL_Returns /\ ~CopyPage /\ ~CopyAborts
    BY <1>b DEF Dynamic_WL_Returns, CopyPage, CopyAborts, gcLocals, Passes
  <2>5. ~SeekRarelyErased
    BY <1>b DEF SeekRarelyErased, MarkBad, Passes
  <2>6. ~RarelyErasedFound /\ ~OftenErasedFound
    BY <1>b DEF RarelyErasedFound, OftenErasedFound, Passes
  <2>7. ~Static_WL_Moves
    BY <1>b DEF Static_WL_Moves, Passes
  <2>8. ~SeekOftenErased
    BY <1>b DEF SeekOftenErased, MarkBad, Passes
  <2>9. ANTI_Dynamic_WL => FromAnti
    BY <1>b DEF ANTI_Dynamic_WL, FromAnti, MarkBad, Passes
  <2>10. QED
    BY <1>3, <2>1, <2>2, <2>3, <2>4, <2>5, <2>6, <2>7, <2>8, <2>9 DEF Collecting, Scanning
<1>4. ASSUME Working PROVE Scanning
  BY <1>1, <1>2, <1>3, <1>4 DEF Working
<1>5. ASSUME GCCalls PROVE Scanning
  <2>1. ASSUME Calls, UNCHANGED gcVars PROVE FALSE
    <3>1. pc \in {"off", "up", "idle"}
      BY <2>1 DEF Calls, PowerOn, DPM_Malloc, Get_Useful_WPage, pageOP_EraseBlk
    <3>2. place' = "none"
      BY <1>a, <2>1, <3>1 DEF PlaceInv, gcVars, gcLocals
    <3>3. QED
      BY <1>b, <3>2 DEF Passes
  <2>2. ASSUME Static_WL PROVE FALSE
    BY <1>b, <2>2 DEF Static_WL, MarkBad, Passes
  <2>3. ASSUME NEW s \in Sectors, Discard(s) PROVE FALSE
    BY <1>b, <2>3 DEF Discard
  <2>4. QED
    BY <1>5, <2>1, <2>2, <2>3 DEF GCCalls, Scanning
<1>6. ASSUME GcKilled PROVE FALSE
  BY <1>b, <1>6 DEF GcKilled, Passes
<1>7. QED
  BY <1>4, <1>5, <1>6 DEF GCNext

LEMMA OverflowsHere ==
  ASSUME GCBase, [GCNext]_allVars, pc' = "overflow"
  PROVE  UNCHANGED allVars \/ FTL_GC_Recursion
<1> SUFFICES ASSUME ~UNCHANGED allVars PROVE FTL_GC_Recursion
  OBVIOUS
<1>1. ASSUME Storing_FTL \/ VerifyPage \/ MarkBlockBad PROVE FALSE
  BY <1>1
  DEF Storing_FTL, Create_DPM, ScanFirst, ScanYounger, Get_FreeDPage, WritePageData, WritePageTag,
      RejectPage, MarkPageBad, Nand_EraseBlock, Retag, VerifyPage, MeetBadPage, MarkBlockBad,
      NAND_BuildBBT, Returned
<1>2. ASSUME Collecting, ~FTL_GC_Recursion PROVE FALSE
  <2>1. ASSUME FTL_GC_ForStore \/ FTL_GC_Returns \/ CallDynamic_WL \/ Dynamic_WL_Returns PROVE FALSE
    BY <2>1 DEF FTL_GC_ForStore, FTL_GC_From, FTL_GC_Returns, GcIsDone, CallDynamic_WL,
                Dynamic_WL_Returns, GCBase, GCTypeOK
  <2>2. ASSUME \/ FTL_GC_MeetsBadPage \/ Pass1 \/ NextPass \/ Pass2 \/ Search2 \/ Pass3
        PROVE  FALSE
    BY <2>2 DEF FTL_GC_MeetsBadPage, MarkBad, Pass1, NextPass, Pass2, Search2, Pass3,
                Looking, Collect
  <2>3. ASSUME Search3 PROVE FALSE
    <3>1. pc = "gc" /\ (UNCHANGED pc \/ Collect(gc.blk))
      BY <2>3, Zenon DEF Search3
    <3>2. QED
      BY <3>1 DEF Collect
  <2>4. ASSUME CopyPage \/ CopyAborts \/ SpoilTarget \/ RetireSource \/ LastRetag PROVE FALSE
    BY <2>4 DEF CopyPage, Moving, CopyAborts, SpoilTarget, RetireSource, LastRetag
  <2>5. ASSUME SeekRarelyErased \/ RarelyErasedFound \/ Static_WL_Moves PROVE FALSE
    BY <2>5 DEF SeekRarelyErased, RarelyErasedFound, Static_WL_Moves, MarkBad
  <2>6. ASSUME ANTI_Dynamic_WL \/ SeekOftenErased \/ OftenErasedFound PROVE FALSE
    BY <2>6 DEF ANTI_Dynamic_WL, FTL_GC_From, SeekOftenErased, OftenErasedFound, MarkBad
  <2>7. QED
    BY <1>2, <2>1, <2>2, <2>3, <2>4, <2>5, <2>6 DEF Collecting
<1>3. ASSUME GCCalls PROVE FALSE
  BY <1>3 DEF GCCalls, Calls, PowerOn, DPM_Malloc, Get_Useful_WPage, pageOP_EraseBlk, FTL_GC_WhenIdle,
              FTL_GC_From, Static_WL, Discard, MarkBad
<1>4. ASSUME GcKilled PROVE FALSE
  BY <1>4 DEF GcKilled, Killed, Death, Returned
<1>5. QED
  BY <1>1, <1>2, <1>3, <1>4 DEF GCNext, Working

-----------------------------------------------------------------------------
(* A page for the caller.                                                  *)

LEMMA FirstPages ==
  /\ FirstPage(0) = 0
  /\ FirstPage(BlocksPerChip) = PagesPerChip
  /\ \A blk \in Blocks :
       /\ FirstPage(blk) \in Nat
       /\ FirstPage(blk + 1) = FirstPage(blk) + PagesPerBlock
       /\ PagesOf(blk) = FirstPage(blk) .. FirstPage(blk) + PagesPerBlock - 1
<1>1. FirstPage(0) = 0 /\ FirstPage(BlocksPerChip) = PagesPerChip
  BY NandAssumption DEF FirstPage, PagesPerChip
<1>2. ASSUME NEW blk \in Blocks
      PROVE  /\ blk * PagesPerBlock \in Nat
             /\ (blk + 1) * PagesPerBlock = blk * PagesPerBlock + PagesPerBlock
  BY NandAssumption DEF Blocks
<1>3. ASSUME NEW blk \in Blocks
      PROVE  /\ FirstPage(blk) \in Nat
             /\ FirstPage(blk + 1) = FirstPage(blk) + PagesPerBlock
             /\ PagesOf(blk) = FirstPage(blk) .. FirstPage(blk) + PagesPerBlock - 1
  BY <1>2 DEF FirstPage, PagesOf
<1>4. QED
  BY <1>1, <1>3

LEMMA BlockNumbers ==
  ASSUME GCBase
  PROVE  gc.blk \in Nat /\ gc.blk \in 0 .. BlocksPerChip
  BY DEF GCBase, GCTypeOK

\* A dirty page is before the pass, or nothing has changed.
LEMMA RoomStep ==
  ASSUME GCBase, StoreInv, SurviveInv, RoomInv, [GCNext]_allVars
  PROVE  RoomInv'
<1> SUFFICES ASSUME pc' = "gc", place' \in Passes, ~FreeOrBad'
             PROVE  /\ place' # "pass3" => ~gc'.tick
                    /\ gc'.owed => \E p \in Pages : /\ ReadSpare(flash', p).dirty # Clear
                                                    /\ place' = "pass3" => p >= FirstPage(gc'.blk)
  BY DEF RoomInv, ReadSpare
<1> USE DEF mapVars, scanVars, eraseVars, history, gcLocals
<1>a. /\ gc \in [blk : 0 .. BlocksPerChip, tick : BOOLEAN, noted : SUBSET Pages,
                 page : 0 .. PagesPerChip, k : 0 .. PagesPerBlock \cup {Unset},
                 caller : {"none", "idle", "scan1", "anti"}, owed : BOOLEAN,
                 had : BOOLEAN]
      /\ PlaceInv
  BY DEF GCBase, GCTypeOK
<1>b. UNCHANGED allVars \/ Scanning
  BY Arrivals DEF InScan
<1>1. CASE UNCHANGED allVars
  <2>1. RoomInv'
    BY <1>1 DEF RoomInv, FreeOrBad, ReadSpare, allVars, vars, gcVars
  <2>2. QED
    BY <2>1 DEF RoomInv, ReadSpare
<1>2. ASSUME NEW caller, FTL_GC_From(caller), UNCHANGED flash
      PROVE  /\ ~gc'.tick
             /\ gc'.owed => \E p \in Pages : ReadSpare(flash', p).dirty # Clear
             /\ place' # "pass3"
  BY <1>2 DEF FTL_GC_From, NoGC, ReadSpare
<1>3. CASE FTL_GC_WhenIdle \/ FTL_GC_ForStore \/ FromAnti
  BY <1>2, <1>3 DEF FTL_GC_WhenIdle, FTL_GC_ForStore, FromAnti
<1>4. CASE LastRetag \/ SpoilTarget \/ RetireSource
  BY <1>4, WrittenIsFree
<1>5. ASSUME UNCHANGED flash, pc = "gc", place \in Passes
      PROVE  /\ place # "pass3" => ~gc.tick
             /\ gc.owed => \E p \in Pages : /\ ReadSpare(flash', p).dirty # Clear
                                            /\ place = "pass3" => p >= FirstPage(gc.blk)
  BY <1>5, SameTags DEF RoomInv, ReadSpare
<1>6. CASE Pass1
  <2>1. Stops("pass1", gc.blk) # {} /\ UNCHANGED flash
    BY <1>6 DEF Pass1, Collect
  <2>2. pc = "gc" /\ place = "pass1" /\ place' = "pass1"
    BY <1>6 DEF Pass1, Looking
  <2>3. gc' = [gc EXCEPT !.blk = gc.blk + 1, !.tick = gc.tick]
    BY <1>a, <1>6, <2>1 DEF Pass1
  <2>4. gc'.tick = gc.tick /\ gc'.owed = gc.owed
    BY <1>a, <2>3
  <2>5. QED
    BY <1>5, <2>1, <2>2, <2>4 DEF Passes
<1>7. CASE NextPass
  <2>1. UNCHANGED flash /\ pc = "gc" /\ place \in {"pass1", "pass2"} /\ ~gc.tick
        /\ gc'.tick = gc.tick /\ gc'.owed = gc.owed /\ gc'.blk = 0
    BY <1>a, <1>7 DEF NextPass
  <2>2. \A p \in Pages : p >= FirstPage(0)
    BY FirstPages, Sizes
  <2>3. QED
    BY <1>5, <2>1, <2>2 DEF Passes
<1>8. CASE Pass2
  <2>1. UNCHANGED flash /\ pc = "gc" /\ place = "pass2" /\ place' = "pass2"
        /\ gc'.tick = gc.tick /\ gc'.owed = gc.owed
    BY <1>a, <1>8 DEF Pass2, Looking, Passes
  <2>2. QED
    BY <1>5, <2>1 DEF Passes
<1>9. CASE Pass3
  <2>1. UNCHANGED flash /\ pc = "gc" /\ place = "pass3" /\ place' = "pass3" /\ gc.blk \in Blocks
        /\ Dirty(gc.blk) = {} /\ gc'.owed = gc.owed /\ gc'.blk = gc.blk + 1
    BY <1>a, <1>9 DEF Pass3, Looking, Passes
  <2>2. ASSUME NEW p \in Pages, ReadSpare(flash', p).dirty # Clear, p >= FirstPage(gc.blk)
        PROVE  p >= FirstPage(gc'.blk)
    <3>1. p \notin PagesOf(gc.blk)
      BY <2>1, <2>2 DEF Dirty, ReadSpare
    <3>2. /\ FirstPage(gc.blk) \in Nat
          /\ FirstPage(gc.blk + 1) = FirstPage(gc.blk) + PagesPerBlock
          /\ PagesOf(gc.blk) = FirstPage(gc.blk) .. FirstPage(gc.blk) + PagesPerBlock - 1
      BY <2>1, FirstPages
    <3>3. p \in Nat
      BY Sizes
    <3>4. p >= FirstPage(gc.blk + 1)
      BY <2>2, <3>1, <3>2, <3>3, NandAssumption
    <3>5. QED
      BY <2>1, <3>4
  <2>3. gc.owed => \E p \in Pages : ReadSpare(flash', p).dirty # Clear /\ p >= FirstPage(gc.blk)
    BY <1>5, <2>1 DEF Passes
  <2>4. QED
    BY <2>1, <2>2, <2>3
<1>10. CASE Search2 \/ CallDynamic_WL \/ FTL_GC_Recursion \/ (ScanFirst /\ UNCHANGED gcLocals)
  <2>1. ~Search2
    BY DEF Search2, Collect, Passes
  <2>2. ~CallDynamic_WL /\ ~FTL_GC_Recursion
    BY DEF CallDynamic_WL, FTL_GC_Recursion
  <2>3. ~ScanFirst
    BY DEF ScanFirst
  <2>4. QED
    BY <1>10, <2>1, <2>2, <2>3
<1>11. QED
  BY <1>b, <1>1, <1>3, <1>4, <1>6, <1>7, <1>8, <1>9, <1>10 DEF Scanning

LEMMA RoomIsThere ==
  ASSUME GCBase, RoomInv
  PROVE  RoomAfterGC
<1> SUFFICES ASSUME GcIsDone, gc.owed, NoPageBad, ~FreeOrBad
             PROVE  FALSE
  BY DEF RoomAfterGC, FreeOrBad, NoPageBad
<1>1. pc = "gc" /\ place \in Passes /\ gc.blk = BlocksPerChip
  BY DEF GcIsDone, Passes
<1>2. place = "pass3"
  BY <1>1 DEF GcIsDone, RoomInv
<1>3. PICK p \in Pages : p >= FirstPage(BlocksPerChip)
  BY <1>1, <1>2 DEF RoomInv
<1>4. QED
  BY <1>3, FirstPages, Sizes DEF Pages

-----------------------------------------------------------------------------
(* What the passes have found.                                             *)

LEMMA BlockCounts ==
  ASSUME NEW blk \in Blocks
  PROVE  Cardinality(Dirty(blk)) \in Nat /\ Cardinality(Live(blk)) \in Nat
<1>1. IsFiniteSet(PagesOf(blk))
  BY BlockInChip, FS_Interval, NandAssumption DEF PagesOf
<1>2. Dirty(blk) \in SUBSET PagesOf(blk) /\ Live(blk) \in SUBSET PagesOf(blk)
  BY DEF Dirty, Live
<1>3. IsFiniteSet(Dirty(blk)) /\ IsFiniteSet(Live(blk))
  BY <1>1, <1>2, FS_Subset
<1>4. QED
  BY <1>3, FS_CardinalityType

\* The parts of PassInv, for a block number.
BehindPass1(n) == \A blk \in Blocks : blk < n => Passed1(blk)
BehindPass2(n) == \A blk \in Blocks : Passed1(blk) /\ (blk < n => Passed2(blk))
\* The search of the second pass is at its beginning, or has just come to a move.
Searching2 == pc = "gc" /\ place = "search2"
Moving2 == pc \in {"gc", "scan1", "overflow"} /\ place = "alloc"
FromFirst ==
  /\ BehindPass2(gc.blk)
  /\ ~Passed2(gc.blk)
  /\ gc.noted = Noted(gc.blk) /\ gc.page = FirstPage(gc.blk) /\ gc.k = 0

LEMMA PassParts ==
  PassInv <=>
    (~FreeOrBad =>
       /\ pc = "gc" /\ place = "pass1" => BehindPass1(gc.blk)
       /\ pc = "gc" /\ place = "pass2" => BehindPass2(gc.blk)
       /\ Searching2 => FromFirst
       /\ Moving2 => FirstMove)
  BY DEF PassInv, BehindPass1, BehindPass2, Searching2, Moving2, FromFirst

LEMMA PassPartsAfter ==
  PassInv' <=>
    (~FreeOrBad' =>
       /\ pc' = "gc" /\ place' = "pass1" => BehindPass1(gc.blk)'
       /\ pc' = "gc" /\ place' = "pass2" => BehindPass2(gc.blk)'
       /\ Searching2' => FromFirst'
       /\ Moving2' => FirstMove')
  BY DEF PassInv, BehindPass1, BehindPass2, Searching2, Moving2, FromFirst

\* Where nothing was written, the places before tell the same of the pages, and
\* a search of the map comes to the same.
LEMMA SameParts ==
  ASSUME UNCHANGED <<flash, DPM_Table>>
  PROVE  /\ \A n : /\ BehindPass1(n)' <=> BehindPass1(n)
                   /\ BehindPass2(n)' <=> BehindPass2(n)
         /\ \A noted, page, k : NextMapped(noted, page, k)' = NextMapped(noted, page, k)
<1>1. \A n : /\ BehindPass1(n)' <=> BehindPass1(n)
             /\ BehindPass2(n)' <=> BehindPass2(n)
  BY SameTags DEF BehindPass1, BehindPass2
<1>2. \A noted, page, k : MappedFrom(noted, page, k)' = MappedFrom(noted, page, k)
  BY DEF MappedFrom
<1>3. \A noted, page, k : NextMapped(noted, page, k)' = NextMapped(noted, page, k)
  BY <1>2 DEF NextMapped
<1>4. QED
  BY <1>1, <1>3

\* What the second pass is about to move, in these terms.
LEMMA FirstMoveParts ==
  /\ FirstMove <=>
       /\ BehindPass2(gc.blk) /\ ~Passed2(gc.blk)
       /\ <<gc.page, gc.k - 1>> \in NextMapped(Noted(gc.blk), FirstPage(gc.blk), 0)
       /\ mv.src = gc.page \div DPM_Pages_Per_Blk
  /\ FirstMove' <=>
       /\ BehindPass2(gc.blk)' /\ ~Passed2(gc.blk)'
       /\ <<gc'.page, gc'.k - 1>> \in NextMapped(Noted(gc.blk), FirstPage(gc.blk), 0)'
       /\ mv'.src = gc'.page \div DPM_Pages_Per_Blk
  BY DEF FirstMove, BehindPass2

LEMMA SameSearch ==
  ASSUME UNCHANGED <<flash, DPM_Table, gc>>, gc.blk \in Blocks
  PROVE  /\ BehindPass2(gc.blk)' <=> BehindPass2(gc.blk)
         /\ Passed2(gc.blk)' <=> Passed2(gc.blk)
         /\ Noted(gc.blk)' = Noted(gc.blk)
         /\ NextMapped(Noted(gc.blk), FirstPage(gc.blk), 0)'
              = NextMapped(Noted(gc.blk), FirstPage(gc.blk), 0)
<1>1. \A blk \in Blocks : (Noted(blk)' = Noted(blk)) /\ (Passed2(blk)' <=> Passed2(blk))
  BY SameTags
<1>2. Noted(gc.blk)' = Noted(gc.blk) /\ (Passed2(gc.blk)' <=> Passed2(gc.blk))
  BY <1>1
<1>3. FirstPage(gc.blk)' = FirstPage(gc.blk)
  BY DEF FirstPage
<1>4. NextMapped(Noted(gc.blk), FirstPage(gc.blk), 0)'
        = NextMapped(Noted(gc.blk), FirstPage(gc.blk), 0)
  BY <1>2, <1>3, SameParts
<1>5. QED
  BY <1>2, <1>4, SameParts

LEMMA SameMove ==
  ASSUME GCBase, Moving2, FirstMove, UNCHANGED <<flash, DPM_Table, gc, mv, place>>
  PROVE  FirstMove'
<1>1. gc.blk \in Blocks
  BY DEF GCBase, PlaceInv, Moving2, Searches
<1>2. QED
  BY <1>1, SameSearch, FirstMoveParts

\* Where a move begins, and where the search for its page goes on.
LEMMA PassStep ==
  ASSUME GCBase, StoreInv, SurviveInv, PassInv, [GCNext]_allVars
  PROVE  PassInv'
<1> USE DEF mapVars, scanVars, eraseVars, history, gcLocals
<1> DEFINE Goal == /\ pc' = "gc" /\ place' = "pass1" => BehindPass1(gc.blk)'
                   /\ pc' = "gc" /\ place' = "pass2" => BehindPass2(gc.blk)'
                   /\ Searching2' => FromFirst'
                   /\ Moving2' => FirstMove'
<1> SUFFICES ASSUME ~FreeOrBad', InScan' PROVE Goal
  <2>1. ~InScan' => Goal
    BY DEF InScan, Searching2, Moving2, Passes
  <2>2. (~FreeOrBad' => Goal) => PassInv'
    BY PassPartsAfter
  <2>3. QED
    BY <2>1, <2>2
<1>a. /\ gc \in [blk : 0 .. BlocksPerChip, tick : BOOLEAN, noted : SUBSET Pages,
                 page : 0 .. PagesPerChip, k : 0 .. PagesPerBlock \cup {Unset},
                 caller : {"none", "idle", "scan1", "anti"}, owed : BOOLEAN,
                 had : BOOLEAN]
      /\ PlaceInv
  BY DEF GCBase, GCTypeOK
<1>b. UNCHANGED allVars \/ Scanning
  BY Arrivals
<1>c. ASSUME UNCHANGED flash
      PROVE  /\ ~FreeOrBad
             /\ pc = "gc" /\ place = "pass1" => BehindPass1(gc.blk)
             /\ pc = "gc" /\ place = "pass2" => BehindPass2(gc.blk)
             /\ Searching2 => FromFirst
             /\ Moving2 => FirstMove
  BY <1>c, SameTags, PassParts
<1>1. CASE UNCHANGED allVars
  <2>1. UNCHANGED <<flash, DPM_Table, gc, mv, place, pc>>
    BY <1>1 DEF allVars, vars, gcVars
  <2>2. Moving2 => FirstMove'
    BY <1>c, <2>1, SameMove
  <2>3. Searching2 => FromFirst'
    <3>1. Searching2 => gc.blk \in Blocks
      BY <1>a DEF Searching2, PlaceInv, Searches
    <3>2. (gc.page = FirstPage(gc.blk) /\ gc.k = 0)' <=> gc.page = FirstPage(gc.blk) /\ gc.k = 0
      BY <2>1 DEF FirstPage
    <3>3. QED
      BY <1>c, <2>1, <3>1, <3>2, SameSearch DEF FromFirst
  <2>4. (Searching2' <=> Searching2) /\ (Moving2' <=> Moving2)
    BY <2>1 DEF Searching2, Moving2
  <2>5. QED
    BY <1>c, <2>1, <2>2, <2>3, <2>4, SameParts
<1>3. CASE FTL_GC_WhenIdle \/ FTL_GC_ForStore \/ FromAnti
  <2>1. place' = "pass1" /\ gc'.blk = 0
    BY <1>3 DEF FTL_GC_WhenIdle, FTL_GC_ForStore, FromAnti, FTL_GC_From, NoGC
  <2>2. BehindPass1(0)'
    BY NandAssumption DEF BehindPass1, Blocks
  <2>3. QED
    BY <2>1, <2>2 DEF Searching2, Moving2
<1>4. CASE LastRetag \/ SpoilTarget \/ RetireSource
  BY <1>4, WrittenIsFree
<1>5. CASE Pass1
  <2>1. /\ UNCHANGED <<flash, DPM_Table>> /\ gc.blk \in Blocks /\ pc = "gc" /\ place = "pass1"
        /\ place' = "pass1" /\ gc'.blk = gc.blk + 1
    BY <1>a, <1>5 DEF Pass1, Looking, Collect
  <2>2. BehindPass1(gc.blk) /\ ~FreeOrBad
    BY <1>c, <2>1
  <2>3. CASE pc' # "gc"
    BY <2>1, <2>3 DEF Searching2, Moving2
  <2>4. CASE pc' = "gc"
    <3>1. Stops("pass1", gc.blk) # {}
      BY <1>5, <2>4 DEF Pass1, Collect
    <3>2. Passed1(gc.blk)
      BY <2>1, <2>2, <3>1, NoneBad DEF Stops, Passed1
    <3>3. BehindPass1(gc.blk + 1)
      BY <2>1, <2>2, <3>2, NandAssumption DEF BehindPass1, Blocks
    <3>4. BehindPass1(gc.blk)'
      BY <2>1, <3>3, SameParts
    <3>5. QED
      BY <2>1, <3>4 DEF Searching2, Moving2
  <2>5. QED
    BY <2>3, <2>4
<1>6. CASE NextPass
  <2>1. /\ UNCHANGED <<flash, DPM_Table>> /\ pc = "gc" /\ gc.blk = BlocksPerChip /\ gc'.blk = 0
        /\ place = "pass1" => place' = "pass2"
        /\ place \in {"pass1", "pass2"}
        /\ place # "pass1" => place' = "pass3"
    BY <1>a, <1>6 DEF NextPass
  <2>2. CASE place # "pass1"
    BY <2>1, <2>2 DEF Searching2, Moving2
  <2>3. CASE place = "pass1"
    <3>1. BehindPass1(BlocksPerChip)
      BY <1>c, <2>1, <2>3
    <3>2. BehindPass2(0)
      BY <3>1, NandAssumption DEF BehindPass1, BehindPass2, Blocks
    <3>3. BehindPass2(gc.blk)'
      BY <2>1, <3>2, SameParts
    <3>4. QED
      BY <2>1, <2>3, <3>3 DEF Searching2, Moving2
  <2>4. QED
    BY <2>2, <2>3
<1>7. CASE Pass2
  <2>1. /\ UNCHANGED <<flash, DPM_Table>> /\ gc.blk \in Blocks /\ pc = "gc" /\ place = "pass2"
    BY <1>7 DEF Pass2, Looking
  <2>2. BehindPass2(gc.blk)
    BY <1>c, <2>1
  <2>3. CASE place' = "search2"
    <3>1. Cardinality(Dirty(gc.blk)) > Cardinality(Live(gc.blk))
          /\ gc'.noted = Noted(gc.blk) /\ gc'.page = FirstPage(gc.blk) /\ gc'.k = 0
          /\ gc'.blk = gc.blk
      BY <1>a, <1>7, <2>1, <2>3 DEF Pass2
    <3>2. BehindPass2(gc.blk)'
      BY <2>1, <2>2, <3>1, SameParts
    <3>3. (gc.noted = Noted(gc.blk))' /\ (~Passed2(gc.blk))'
      <4>1. /\ Noted(gc.blk)' = Noted(gc.blk)
            /\ Passed2(gc.blk)' <=> Passed2(gc.blk)
        <5>1. \A blk \in Blocks : (Noted(blk)' = Noted(blk)) /\ (Passed2(blk)' <=> Passed2(blk))
          BY <2>1, SameTags
        <5>2. QED
          BY <2>1, <3>1, <5>1
      <4>2. ~Passed2(gc.blk)
        BY <3>1 DEF Passed2
      <4>3. QED
        BY <3>1, <4>1, <4>2
    <3>4. (gc.page = FirstPage(gc.blk) /\ gc.k = 0)'
      BY <3>1 DEF FirstPage
    <3>5. FromFirst'
      BY <3>2, <3>3, <3>4 DEF FromFirst
    <3>6. QED
      BY <2>3, <3>5 DEF Moving2
  <2>4. CASE place' # "search2"
    <3>1. place' = "pass2" /\ gc'.blk = gc.blk + 1
          /\ Cardinality(Dirty(gc.blk)) <= Cardinality(Live(gc.blk))
      BY <1>a, <1>7, <2>1, <2>4 DEF Pass2
    <3>2. Passed2(gc.blk)
      BY <2>1, <3>1, BlockCounts DEF Passed2
    <3>3. BehindPass2(gc.blk + 1)
      BY <2>1, <2>2, <3>2, NandAssumption DEF BehindPass2, Blocks
    <3>4. BehindPass2(gc.blk)'
      BY <2>1, <3>1, <3>3, SameParts
    <3>5. QED
      BY <3>1, <3>4 DEF Searching2, Moving2
  <2>5. QED
    BY <2>3, <2>4
<1>8. CASE Search2
  <2>1. UNCHANGED <<flash, DPM_Table>> /\ pc = "gc" /\ place = "search2" /\ gc.blk \in Blocks
    BY <1>a, <1>8 DEF Search2, Collect, PlaceInv, Searches
  <2>2. FromFirst
    BY <1>c, <2>1 DEF Searching2
  <2>3. CASE place' = "alloc"
    <3>1. PICK m \in NextMapped(gc.noted, gc.page, gc.k) :
            /\ mv' = [src |-> DPM_Table[m[2] \div DPM_Pages_Per_Blk], dst |-> 0,
                      caller |-> "search2"]
            /\ gc' = [gc EXCEPT !.page = m[1], !.k = m[2] + 1]
      BY <1>8, <2>3 DEF Search2
    <3>2. m \in NextMapped(Noted(gc.blk), FirstPage(gc.blk), 0)
      BY <2>2, <3>1 DEF FromFirst
    <3>3. /\ m \in gc.noted \X (0 .. PagesPerBlock - 1)
          /\ DPM_Table[m[2] \div DPM_Pages_Per_Blk] = m[1] \div DPM_Pages_Per_Blk
      BY DEF NextMapped, MappedFrom
    <3>4. /\ gc'.blk = gc.blk /\ gc'.page = m[1] /\ gc'.k = m[2] + 1
          /\ mv'.src = gc'.page \div DPM_Pages_Per_Blk
      BY <1>a, <3>1, <3>3
    <3>5. <<gc'.page, gc'.k - 1>> = m
      BY <3>3, <3>4, NandAssumption
    <3>6. \A blk \in Blocks : (Noted(blk)' = Noted(blk)) /\ (Passed2(blk)' <=> Passed2(blk))
      BY <2>1, SameTags
    <3>7. Noted(gc.blk)' = Noted(gc.blk) /\ ~Passed2(gc.blk)'
      BY <2>1, <2>2, <3>4, <3>6 DEF FromFirst
    <3>8. BehindPass2(gc.blk)'
      BY <2>1, <2>2, <3>4, SameParts DEF FromFirst
    <3>9. NextMapped(Noted(gc.blk), FirstPage(gc.blk), 0)'
            = NextMapped(Noted(gc.blk), FirstPage(gc.blk), 0)
      <4>1. FirstPage(gc.blk)' = FirstPage(gc.blk)
        BY <3>4 DEF FirstPage
      <4>2. QED
        BY <2>1, <3>7, <4>1, SameParts
    <3>10. FirstMove'
      BY <3>2, <3>4, <3>5, <3>7, <3>8, <3>9, FirstMoveParts
    <3>11. QED
      BY <2>3, <3>10 DEF Searching2
  <2>4. CASE place' # "alloc"
    BY <1>8, <2>4 DEF Search2, Collect, Searching2, Moving2
  <2>5. QED
    BY <2>3, <2>4
<1>9. CASE CallDynamic_WL \/ FTL_GC_Recursion \/ (ScanFirst /\ UNCHANGED gcLocals)
  <2>1. UNCHANGED <<flash, DPM_Table, gc, mv, place>> /\ pc \in {"gc", "scan1"} /\ pc' # "gc"
    BY <1>9 DEF CallDynamic_WL, FTL_GC_Recursion, ScanFirst
  <2>2. CASE place = "alloc"
    <3>1. Moving2 /\ FirstMove
      BY <1>c, <2>1, <2>2 DEF Moving2
    <3>2. FirstMove'
      BY <2>1, <3>1, SameMove
    <3>3. QED
      BY <2>1, <3>2 DEF Searching2
  <2>3. CASE place # "alloc"
    BY <2>1, <2>3 DEF Searching2, Moving2
  <2>4. QED
    BY <2>2, <2>3
<1>10. CASE Pass3
  <2>1. pc = "gc" /\ place' \in {"search3", "pass3"}
    BY <1>10 DEF Pass3, Looking
  <2>2. QED
    BY <2>1 DEF Searching2, Moving2
<1>11. QED
  BY <1>b, <1>1, <1>3, <1>4, <1>5, <1>6, <1>7, <1>8, <1>9, <1>10 DEF Scanning

-----------------------------------------------------------------------------
(* What Dynamic_WL does not find.                                          *)

\* The only multiple of a number among the ones of a block is at its end.
LEMMA EndOfBlock ==
  ASSUME NEW n \in Nat \ {0}, NEW b \in Nat, NEW c \in Nat, NEW j \in 0 .. n - 1,
         c * n = b * n + j + 1
  PROVE  j = n - 1
<1>1. b * n \in Nat /\ (b + 1) * n = b * n + n /\ (b + 2) * n = b * n + n + n
  OBVIOUS
<1>2. ASSUME c <= b PROVE FALSE
  <2>1. c * n <= b * n
    BY <1>2, ProductMonotone
  <2>2. QED
    BY <1>1, <2>1
<1>3. ASSUME c >= b + 2 PROVE FALSE
  <2>1. (b + 2) * n <= c * n
    BY <1>3, ProductMonotone
  <2>2. QED
    BY <1>1, <2>1
<1>4. c = b + 1
  BY <1>2, <1>3
<1>5. QED
  BY <1>1, <1>4

LEMMA UnfoundIsLast ==
  ASSUME UnfoundAreLast, NEW blk \in Blocks, NEW p \in PagesOf(blk), Unfound(p)
  PROVE  \A q \in PagesOf(blk) : q <= p
<1> DEFINE k == U16 \div PagesPerBlock
           a == p \div U16
           j == p - blk * PagesPerBlock
<1>1. blk \in Nat /\ blk * PagesPerBlock \in Nat /\ p \in Nat /\ j \in 0 .. PagesPerBlock - 1
      /\ p = blk * PagesPerBlock + j
  BY BlockInChip, NandAssumption DEF Blocks, PagesOf
<1>2. k \in Nat /\ U16 = k * PagesPerBlock + (U16 % PagesPerBlock)
  BY QuotientRemainder, NandAssumption
<1>3. a \in Nat /\ p = a * U16 + (p % U16)
  BY <1>1, QuotientRemainder, NandAssumption
<1> HIDE DEF k, a, j
<1>4. p + 1 = a * U16 + U16
  <2>1. a * U16 \in Nat
    BY <1>3, NandAssumption
  <2>2. QED
    BY <1>3, <2>1, NandAssumption DEF Unfound, MAX16
<1>5. U16 = k * PagesPerBlock
  <2>1. k * PagesPerBlock \in Nat
    BY <1>2, NandAssumption
  <2>2. QED
    BY <1>2, <2>1 DEF UnfoundAreLast
<1>6. a * U16 + U16 = (a * k + k) * PagesPerBlock
  BY <1>2, <1>3, <1>5, NandAssumption
<1>7. j = PagesPerBlock - 1
  <2>1. a * k + k \in Nat
    BY <1>2, <1>3
  <2>2. (a * k + k) * PagesPerBlock = blk * PagesPerBlock + j + 1
    BY <1>1, <1>4, <1>6
  <2>3. QED
    BY <1>1, <2>1, <2>2, EndOfBlock, NandAssumption
<1>8. QED
  BY <1>1, <1>7, NandAssumption DEF PagesOf

\* The scan of a block that found nothing to take has seen all its pages.
LEMMA SeenByScan ==
  ASSUME UnfoundAreLast, m16i_Blk \in Blocks, ScanFirst, Page_Addr' = MAX16
  PROVE  \A p \in PagesOf(m16i_Blk) :
           IsBad(ReadSpare(flash, p)) \/ IsFree(ReadSpare(flash, p)) => Unfound(p)
<1>1. CASE Stops1 = {}
  BY <1>1 DEF Stops1
<1>2. CASE \E p \in FirstOf(Stops1) : ~IsBad(ReadSpare(flash, p)) /\ Take(p)
  <2>1. PICK p \in FirstOf(Stops1) : Take(p)
    BY <1>2
  <2>2. Unfound(p) /\ p \in PagesOf(m16i_Blk) /\ \A q \in Stops1 : p <= q
    BY <2>1 DEF Take, Unfound, FirstOf, Stops1
  <2>3. \A q \in PagesOf(m16i_Blk) : q <= p
    BY <2>2, UnfoundIsLast
  <2>4. PagesOf(m16i_Blk) \subseteq Nat
    BY BlockInChip, Sizes
  <2>5. ASSUME NEW q \in Stops1 PROVE q = p
    <3>1. q \in PagesOf(m16i_Blk)
      BY DEF Stops1
    <3>2. q <= p /\ p <= q /\ q \in Nat /\ p \in Nat
      BY <2>2, <2>3, <2>4, <3>1
    <3>3. QED
      BY <3>2
  <2>6. \A q \in Stops1 : Unfound(q)
    BY <2>2, <2>5
  <2>7. QED
    BY <2>6 DEF Stops1
<1>3. QED
  BY <1>1, <1>2 DEF ScanFirst

\* A search that went over the whole chip and found nothing leaves no page that
\* is free or bad: such a page would have been found under its other number.
LEMMA NothingLeft ==
  ASSUME UnfoundAreOthers,
         \A p \in Pages : IsBad(ReadSpare(flash, p)) \/ IsFree(ReadSpare(flash, p)) => Unfound(p)
  PROVE  ~FreeOrBad
<1> SUFFICES ASSUME NEW p \in Pages, IsBad(ReadSpare(flash, p)) \/ IsFree(ReadSpare(flash, p))
             PROVE  FALSE
  BY DEF FreeOrBad
<1>1. PICK q \in Pages : ~Unfound(q) /\ Skew(q) = Skew(p)
  BY DEF UnfoundAreOthers
<1>2. ReadSpare(flash, q) = ReadSpare(flash, p)
  BY <1>1 DEF ReadSpare
<1>3. QED
  BY <1>1, <1>2

\* A search begins at the first block.
LEMMA SearchArrivals ==
  ASSUME GCBase, [GCNext]_allVars, pc' = "scan1"
  PROVE  \/ UNCHANGED allVars
         \/ ScanFirst
         \/ \E s \in Sectors, v \in Payload : Get_Useful_WPage(s, v)
         \/ CallDynamic_WL
         \/ FTL_GC_Returns
<1>1. ASSUME Storing_FTL, ~ScanFirst PROVE FALSE
  BY <1>1
  DEF Storing_FTL, Create_DPM, ScanYounger, Get_FreeDPage, WritePageData, WritePageTag, RejectPage,
      MarkPageBad, MeetBadPage, Nand_EraseBlock, Retag, Returned
<1>2. ASSUME VerifyPage \/ MarkBlockBad PROVE FALSE
  BY <1>2 DEF VerifyPage, MarkBlockBad, NAND_BuildBBT, Returned
<1>3. ASSUME Collecting, ~CallDynamic_WL, ~FTL_GC_Returns PROVE FALSE
  <2>1. ASSUME FTL_GC_ForStore \/ FTL_GC_Recursion \/ Dynamic_WL_Returns PROVE FALSE
    BY <2>1 DEF FTL_GC_ForStore, FTL_GC_From, FTL_GC_Recursion, Dynamic_WL_Returns
  <2>2. ASSUME \/ FTL_GC_MeetsBadPage \/ Pass1 \/ NextPass \/ Pass2 \/ Search2 \/ Pass3
        PROVE  FALSE
    BY <2>2 DEF FTL_GC_MeetsBadPage, MarkBad, Pass1, NextPass, Pass2, Search2, Pass3,
                Looking, Collect
  <2>3. ASSUME Search3 PROVE FALSE
    <3>1. pc = "gc" /\ (UNCHANGED pc \/ Collect(gc.blk))
      BY <2>3, Zenon DEF Search3
    <3>2. QED
      BY <3>1 DEF Collect
  <2>4. ASSUME CopyPage \/ CopyAborts \/ SpoilTarget \/ RetireSource \/ LastRetag PROVE FALSE
    BY <2>4 DEF CopyPage, Moving, CopyAborts, SpoilTarget, RetireSource, LastRetag
  <2>5. ASSUME SeekRarelyErased \/ RarelyErasedFound \/ Static_WL_Moves PROVE FALSE
    BY <2>5 DEF SeekRarelyErased, RarelyErasedFound, Static_WL_Moves, MarkBad
  <2>6. ASSUME ANTI_Dynamic_WL \/ SeekOftenErased \/ OftenErasedFound PROVE FALSE
    BY <2>6 DEF ANTI_Dynamic_WL, FTL_GC_From, SeekOftenErased, OftenErasedFound, MarkBad
  <2>7. QED
    BY <1>3, <2>1, <2>2, <2>3, <2>4, <2>5, <2>6 DEF Collecting
<1>4. ASSUME GCCalls, ~\E s \in Sectors, v \in Payload : Get_Useful_WPage(s, v) PROVE FALSE
  BY <1>4 DEF GCCalls, Calls, PowerOn, DPM_Malloc, pageOP_EraseBlk, FTL_GC_WhenIdle,
              FTL_GC_From, Static_WL, Discard, MarkBad
<1>5. ASSUME GcKilled PROVE FALSE
  BY <1>5 DEF GcKilled, Killed, Death, Returned
<1>6. QED
  BY <1>1, <1>2, <1>3, <1>4, <1>5 DEF GCNext, Working

\* Between searches the counter of the blocks is back at the first.
LEMMA BackAtFirst ==
  ASSUME GCBase, SearchInv, [GCNext]_allVars, pc' \in {"idle", "gc"}
  PROVE  m16i_Blk' = 0
<1> USE DEF mapVars, scanVars, eraseVars, history, gcLocals
<1> DEFINE First == pc' \in {"idle", "gc"} => m16i_Blk' = 0
<1>a. UNCHANGED <<pc, m16i_Blk>> => First
  BY DEF SearchInv
<1>b. pc \in {"idle", "gc"} /\ UNCHANGED m16i_Blk => First
  BY DEF SearchInv
<1>1. CASE UNCHANGED allVars
  BY <1>1, <1>a DEF allVars, vars
<1>2. ASSUME Storing_FTL \/ VerifyPage \/ MarkBlockBad PROVE First
  BY <1>2
  DEF Storing_FTL, Create_DPM, ScanFirst, ScanYounger, Get_FreeDPage, WritePageData, WritePageTag,
      RejectPage, MarkPageBad, Nand_EraseBlock, Retag, VerifyPage, MeetBadPage, MarkBlockBad,
      NAND_BuildBBT, Returned
<1>3. ASSUME Collecting PROVE First
  <2>1. ASSUME \/ FTL_GC_ForStore \/ FTL_GC_Recursion \/ LastRetag \/ CallDynamic_WL \/ Dynamic_WL_Returns
        PROVE  First
    BY <2>1 DEF FTL_GC_ForStore, FTL_GC_Recursion, LastRetag, CallDynamic_WL, Dynamic_WL_Returns
  <2>2. ASSUME FTL_GC_Returns PROVE First
    BY <1>b, <2>2 DEF FTL_GC_Returns, GcIsDone
  <2>3. ASSUME \/ FTL_GC_MeetsBadPage \/ Pass1 \/ NextPass \/ Pass2 \/ Search2 \/ Pass3
        PROVE  First
    BY <1>b, <2>3 DEF FTL_GC_MeetsBadPage, MarkBad, Pass1, NextPass, Pass2, Search2,
                      Pass3, Looking, Collect
  <2>4. ASSUME Search3 PROVE First
    <3>1. pc = "gc" /\ (UNCHANGED <<pc, scanVars>> \/ Collect(gc.blk))
      BY <2>4, Zenon DEF Search3
    <3>2. QED
      BY <1>b, <3>1 DEF Collect
  <2>5. ASSUME CopyPage \/ CopyAborts \/ SpoilTarget \/ RetireSource PROVE First
    BY <1>b, <2>5 DEF CopyPage, Moving, CopyAborts, SpoilTarget, RetireSource
  <2>6. ASSUME SeekRarelyErased \/ RarelyErasedFound \/ Static_WL_Moves PROVE First
    BY <1>b, <2>6 DEF SeekRarelyErased, RarelyErasedFound, Static_WL_Moves, MarkBad
  <2>7. ASSUME ANTI_Dynamic_WL \/ SeekOftenErased \/ OftenErasedFound PROVE First
    BY <1>b, <2>7 DEF ANTI_Dynamic_WL, FTL_GC_From, SeekOftenErased, OftenErasedFound, MarkBad
  <2>8. QED
    BY <1>3, <2>1, <2>2, <2>3, <2>4, <2>5, <2>6, <2>7 DEF Collecting
<1>4. ASSUME GCCalls PROVE First
  BY <1>4, <1>b
  DEF GCCalls, Calls, PowerOn, DPM_Malloc, Get_Useful_WPage, pageOP_EraseBlk, FTL_GC_WhenIdle,
      FTL_GC_From, Static_WL, Discard, MarkBad
<1>5. ASSUME GcKilled PROVE First
  BY <1>5 DEF GcKilled, Killed, Death, Returned
<1>6. QED
  BY <1>1, <1>2, <1>3, <1>4, <1>5 DEF GCNext, Working

LEMMA SearchStep ==
  ASSUME UnfoundAreLast, GCBase, SearchInv, [GCNext]_allVars
  PROVE  SearchInv'
<1>1. ASSUME pc' = "scan1", NEW p \in Pages, p < FirstPage(m16i_Blk'),
             IsBad(ReadSpare(flash', p)) \/ IsFree(ReadSpare(flash', p))
      PROVE  Unfound(p)
  <2>1. CASE UNCHANGED allVars
    BY <1>1, <2>1 DEF SearchInv, allVars, vars, scanVars, ReadSpare
  <2>2. ASSUME m16i_Blk' = 0 PROVE FALSE
    <3>1. p < 0 /\ p \in Nat
      BY <1>1, <2>2, FirstPages, Sizes
    <3>2. QED
      BY <3>1
  <2>3. CASE ScanFirst
    <3>1. /\ UNCHANGED flash /\ pc = "scan1" /\ m16i_Blk \in Blocks
          /\ Page_Addr' = MAX16 /\ m16i_Blk' = m16i_Blk + 1
      BY <1>1, <2>3 DEF ScanFirst
    <3>2. IsBad(ReadSpare(flash, p)) \/ IsFree(ReadSpare(flash, p))
      BY <1>1, <3>1 DEF ReadSpare
    <3>3. CASE p < FirstPage(m16i_Blk)
      BY <3>1, <3>2, <3>3 DEF SearchInv
    <3>4. CASE p >= FirstPage(m16i_Blk)
      <4>1. p < FirstPage(m16i_Blk + 1) /\ p \in Nat
        BY <1>1, <3>1, Sizes
      <4>2. p \in PagesOf(m16i_Blk)
        BY <3>1, <3>4, <4>1, FirstPages, NandAssumption
      <4>3. QED
        BY <2>3, <3>1, <3>2, <4>2, SeenByScan
    <3>5. FirstPage(m16i_Blk) \in Nat /\ p \in Nat
      BY <3>1, FirstPages, Sizes
    <3>6. QED
      BY <3>3, <3>4, <3>5
  <2>4. ASSUME \/ \E s \in Sectors, v \in Payload : Get_Useful_WPage(s, v)
               \/ CallDynamic_WL
               \/ FTL_GC_Returns
        PROVE  m16i_Blk' = 0
    BY <1>1, <2>4 DEF Get_Useful_WPage, CallDynamic_WL, FTL_GC_Returns, GcIsDone, SearchInv, scanVars
  <2>5. QED
    BY <1>1, <2>1, <2>2, <2>3, <2>4, SearchArrivals
<1>2. QED
  BY <1>1, BackAtFirst DEF SearchInv

LEMMA SearchIsThorough ==
  ASSUME SearchInv
  PROVE  CollectsOnlyWhenFull
<1> SUFFICES ASSUME pc = "scan1", m16i_Blk = BlocksPerChip, NEW p \in Pages, IsFree(ReadSpare(flash, p))
             PROVE  Unfound(p)
  BY DEF CollectsOnlyWhenFull, Unfound
<1>1. p < FirstPage(m16i_Blk)
  BY FirstPages, Sizes DEF Pages
<1>2. QED
  BY <1>1 DEF SearchInv

LEMMA OverflowStep ==
  ASSUME UnfoundAreOthers, GCBase, SearchInv, OverflowInv, [GCNext]_allVars
  PROVE  OverflowInv'
<1> SUFFICES ASSUME pc' = "overflow" PROVE place' = "alloc" /\ ~FreeOrBad'
  BY DEF OverflowInv
<1>1. CASE UNCHANGED allVars
  BY <1>1, SameTags DEF OverflowInv, allVars, vars, gcVars, gcLocals
<1>2. CASE FTL_GC_Recursion
  <2>1. pc = "scan1" /\ place = "alloc" /\ m16i_Blk = BlocksPerChip /\ UNCHANGED <<flash, place>>
    BY <1>2 DEF FTL_GC_Recursion, gcLocals
  <2>2. \A p \in Pages : p < FirstPage(m16i_Blk)
    BY <2>1, FirstPages, Sizes DEF Pages
  <2>3. \A p \in Pages : IsBad(ReadSpare(flash, p)) \/ IsFree(ReadSpare(flash, p)) => Unfound(p)
    BY <2>1, <2>2 DEF SearchInv
  <2>4. QED
    BY <2>1, <2>3, NothingLeft, SameTags
<1>3. QED
  BY <1>1, <1>2, OverflowsHere

-----------------------------------------------------------------------------
(* Theorems.                                                               *)

LEMMA RoomInitially ==
  GCInit => RoomInv /\ PassInv /\ SearchInv /\ OverflowInv
  BY DEF GCInit, Init, RoomInv, PassInv, SearchInv, OverflowInv

LEMMA RoomInvariance ==
  GCSpec => [](GCBase /\ StoreInv /\ SurviveInv /\ RoomInv /\ PassInv)
<1>1. (GCBase /\ StoreInv /\ SurviveInv /\ RoomInv /\ PassInv) /\ [GCNext]_allVars
        => (GCBase /\ StoreInv /\ SurviveInv /\ RoomInv /\ PassInv)'
  BY GCBaseStep, GCStoreStep, SurviveStep, RoomStep, PassStep
<1>2. QED
  BY GCInitially, RoomInitially, <1>1, PTL DEF GCSpec

\* When FTL_GC was called with a page dirty and returns with no page bad, it
\* leaves a free page: the retry of its callers Dynamic_WL and ANTI_Dynamic_WL
\* does not run through an unchanged chip for ever.
THEOREM RoomIsLeft == GCSpec => []RoomAfterGC
<1>1. GCBase /\ StoreInv /\ SurviveInv /\ RoomInv /\ PassInv => RoomAfterGC
  BY RoomIsThere
<1>2. QED
  BY RoomInvariance, <1>1, PTL

\* Dynamic_WL comes to FTL_GC, for a store or for a move, only when the chip has
\* no free page that it can name.
THEOREM CollectedWhenFull ==
  ASSUME UnfoundAreLast
  PROVE  GCSpec => []CollectsOnlyWhenFull
<1>1. GCBase /\ SearchInv /\ [GCNext]_allVars => SearchInv'
  BY SearchStep
<1>2. SearchInv => CollectsOnlyWhenFull
  BY SearchIsThorough
<1>3. QED
  BY GCInvariance, RoomInitially, <1>1, <1>2, PTL DEF GCSpec

LEMMA OverflowLooksAgain ==
  ASSUME PassInv, OverflowInv
  PROVE  OverflowRepeats
  BY DEF PassInv, OverflowInv, OverflowRepeats

\* The calls that Dynamic_WL and FTL_GC make of each other for a move that finds
\* no page do not end before the stack does: nothing on the chip is free or bad,
\* and what the second pass is about to move is what it finds first when FTL_GC
\* is called again - the same block is the first with more dirty than live pages,
\* the same entry the first that names one of its noted pages, the same page.
THEOREM RecursionRepeats ==
  ASSUME UnfoundAreLast, UnfoundAreOthers
  PROVE  GCSpec => []OverflowRepeats
<1>1. (GCBase /\ StoreInv /\ SurviveInv /\ RoomInv /\ PassInv) /\ SearchInv /\ OverflowInv
        /\ [GCNext]_allVars => (SearchInv /\ OverflowInv)'
  BY SearchStep, OverflowStep
<1>2. GCBase /\ PassInv /\ OverflowInv => OverflowRepeats
  BY OverflowLooksAgain
<1>3. QED
  BY RoomInvariance, RoomInitially, <1>1, <1>2, PTL DEF GCSpec

-----------------------------------------------------------------------------
(* The chip of the code: Hardware.h, Driver.h, and a uint16_t.             *)

LEMMA PagesBelow ==
  \A p \in Pages : p \in Int /\ p >= 0 /\ p <= PagesPerChip - 1
  BY Sizes DEF Pages

\* The chip of the code is such a chip (BYTE_PER_FILEPAGE, PAGES_PER_CHIP).
THEOREM ChipHasOthers ==
  ASSUME PagesPerBlock = 64, BlocksPerChip = 2048, FilePage = 80, U16 = 65536
  PROVE  UnfoundAreLast /\ UnfoundAreOthers
<1>1. MAX16 = 65535 /\ PagesPerChip = 131072
  BY DEF MAX16, PagesPerChip
<1>2. \A p \in Nat : Skew(p) = p + (p % 80)
  BY ConvertIsIdentity DEF Skew, PageAddr
<1>3. ASSUME NEW p \in Pages, Unfound(p) PROVE p = 65535 \/ p = 131071
  <2>1. p \in Int /\ p >= 0 /\ p <= 131071
    BY <1>1, PagesBelow
  <2>2. p % 65536 = 65535
    BY <1>1, <1>3 DEF Unfound
  <2>3. QED
    BY ONLY <2>1, <2>2, SMT
<1>4. Skew(65535) = 65550 /\ Skew(65495) = 65550 /\ Skew(131071) = 131102 /\ Skew(131031) = 131102
  BY <1>2
<1>5. 65495 \in Pages /\ ~Unfound(65495) /\ 131031 \in Pages /\ ~Unfound(131031)
  <2>1. 65495 \in Pages /\ 131031 \in Pages
    BY <1>1 DEF Pages
  <2>2. 65495 % U16 = 65495 /\ 131031 % U16 = 65495
    OBVIOUS
  <2>3. QED
    BY <1>1, <2>1, <2>2 DEF Unfound
<1>6. ASSUME NEW p \in Pages, Unfound(p) PROVE \E q \in Pages : ~Unfound(q) /\ Skew(q) = Skew(p)
  BY <1>3, <1>4, <1>5, <1>6
<1>7. U16 % PagesPerBlock = 0
  OBVIOUS
<1>8. QED
  BY <1>6, <1>7 DEF UnfoundAreLast, UnfoundAreOthers

\* Of its 2048 blocks pageOP_EraseBlk can erase the first 32; for any other the
\* assertion on the chip that Nand_EraseBlock computes ends the process.
THEOREM ErasableBlocks ==
  ASSUME PagesPerBlock = 64, BlocksPerChip = 2048, NEW blk \in Blocks
  PROVE  EraseReaches(FirstPage(blk)) <=> blk < 32
<1>1. blk \in Nat
  BY BlockInChip DEF Blocks
<1>2. EraseReaches(FirstPage(blk)) <=> (blk * 64) \div 2048 = 0
  BY DEF EraseReaches, FirstPage
<1>3. (blk * 64) \div 2048 = 0 <=> blk < 32
  BY ONLY <1>1, SMT
<1>4. QED
  BY <1>2, <1>3

LEMMA NoEntryFollows ==
  ASSUME PagesPerChip % U16 = 0, GCBase, RetireSource
  PROVE  UNCHANGED DPM_Table
<1>1. DPM_Size = 0
  BY GCAssumption DEF DPM_Size
<1>2. FirstOf({k \in Sectors : k < DPM_Size /\ DPM_Table[k] = mv.src}) = {}
  BY <1>1 DEF FirstOf, Sectors
<1>3. DPM_Table' = [k \in Sectors |-> DPM_Table[k]]
  BY <1>2 DEF RetireSource
<1>4. DPM_Table \in [Sectors -> PageNumbers]
  BY DEF GCBase, GCTypeOK, VarTypes
<1>5. QED
  BY <1>3, <1>4

LEMMA MapWhileCollecting ==
  ASSUME PagesPerChip % U16 = 0, GCBase, [GCNext]_allVars, pc = "gc", pc' # "off"
  PROVE  UNCHANGED DPM_Table
<1> USE DEF mapVars
<1>1. CASE UNCHANGED allVars
  BY <1>1 DEF allVars, vars
<1>2. ASSUME Storing_FTL \/ VerifyPage \/ MarkBlockBad PROVE FALSE
  BY <1>2
  DEF Storing_FTL, Create_DPM, ScanFirst, ScanYounger, Get_FreeDPage, WritePageData, WritePageTag,
      RejectPage, MarkPageBad, Nand_EraseBlock, Retag, VerifyPage, MeetBadPage, MarkBlockBad
<1>3. ASSUME Collecting PROVE UNCHANGED DPM_Table
  <2>1. ASSUME \/ FTL_GC_ForStore \/ FTL_GC_Recursion \/ FTL_GC_Returns \/ LastRetag
               \/ CallDynamic_WL \/ Dynamic_WL_Returns
        PROVE  UNCHANGED DPM_Table
    BY <2>1 DEF FTL_GC_ForStore, FTL_GC_Recursion, FTL_GC_Returns, LastRetag, CallDynamic_WL,
                Dynamic_WL_Returns
  <2>2. ASSUME \/ FTL_GC_MeetsBadPage \/ Pass1 \/ NextPass \/ Pass2 \/ Search2 \/ Pass3
        PROVE  UNCHANGED DPM_Table
    BY <2>2 DEF FTL_GC_MeetsBadPage, MarkBad, Pass1, NextPass, Pass2, Search2, Pass3, Collect
  <2>3. ASSUME Search3 PROVE UNCHANGED DPM_Table
    <3>1. UNCHANGED mapVars \/ Collect(gc.blk)
      BY <2>3, Zenon DEF Search3
    <3>2. QED
      BY <3>1 DEF Collect
  <2>4. ASSUME CopyPage \/ CopyAborts \/ SpoilTarget PROVE UNCHANGED DPM_Table
    BY <2>4 DEF CopyPage, CopyAborts, SpoilTarget
  <2>5. ASSUME RetireSource PROVE UNCHANGED DPM_Table
    BY <2>5, NoEntryFollows
  <2>6. ASSUME SeekRarelyErased \/ RarelyErasedFound \/ Static_WL_Moves PROVE UNCHANGED DPM_Table
    BY <2>6 DEF SeekRarelyErased, RarelyErasedFound, Static_WL_Moves, MarkBad
  <2>7. ASSUME ANTI_Dynamic_WL \/ SeekOftenErased \/ OftenErasedFound PROVE UNCHANGED DPM_Table
    BY <2>7 DEF ANTI_Dynamic_WL, SeekOftenErased, OftenErasedFound, MarkBad
  <2>8. QED
    BY <1>3, <2>1, <2>2, <2>3, <2>4, <2>5, <2>6, <2>7 DEF Collecting
<1>4. ASSUME GCCalls PROVE FALSE
  BY <1>4 DEF GCCalls, Calls, PowerOn, DPM_Malloc, Get_Useful_WPage, pageOP_EraseBlk, FTL_GC_WhenIdle,
              Static_WL, Discard
<1>5. ASSUME GcKilled PROVE FALSE
  BY <1>5 DEF GcKilled, Killed, Death, Returned
<1>6. QED
  BY <1>1, <1>2, <1>3, <1>4, <1>5 DEF GCNext, Working

\* The map does not follow the pages that FTL_GC and Static_WL move: the number
\* of its entries, cut to a uint16_t, is 0, so the loop of DPM_Date_Move over
\* them does not run.
MapIsLeftBehind == [][pc = "gc" /\ pc' # "off" => UNCHANGED DPM_Table]_allVars

THEOREM MapIsNotUpdated ==
  ASSUME PagesPerBlock = 64, BlocksPerChip = 2048, U16 = 65536
  PROVE  GCSpec => MapIsLeftBehind
<1>1. PagesPerChip % U16 = 0
  <2>1. PagesPerChip = 131072
    BY DEF PagesPerChip
  <2>2. QED
    BY <2>1
<1>2. GCBase /\ [GCNext]_allVars => [pc = "gc" /\ pc' # "off" => UNCHANGED DPM_Table]_allVars
  BY <1>1, MapWhileCollecting
<1>3. GCBase /\ StoreInv /\ SurviveInv => GCBase
  OBVIOUS
<1>4. QED
  BY GCInvariance, <1>2, <1>3, PTL DEF GCSpec, MapIsLeftBehind
=============================================================================
