--------------------------------- MODULE GC ---------------------------------
(***************************************************************************)
(* Garbage collection and static wear levelling over the store of FTL:     *)
(* the three passes of FTL_GC, Static_WL with ANTI_Dynamic_WL, and         *)
(* DPM_Date_Move with pageOP_ReadData and pageOP_WriteData.                *)
(*                                                                         *)
(* FTL_GC runs when the upper layer calls it, when Dynamic_WL or           *)
(* ANTI_Dynamic_WL find no free page, and calls Dynamic_WL itself.  pc is  *)
(* the place in the functions of FTL, "gc" while none of them runs; place  *)
(* is the place in the functions of this module.                           *)
(*                                                                         *)
(* Nothing that FTL models makes a page dirty: Get_Useful_WPage does not   *)
(* write the flag it sets.  Here the upper layer does, for sectors whose   *)
(* contents it gives up.                                                   *)
(***************************************************************************)
EXTENDS FTL

CONSTANTS
  CleanBits,  \* bits of clean_cfg, a uint8_t
  U8,         \* number of values of a uint8_t
  MaxChurn    \* bound: calls of the upper layer that make pages dirty

ASSUME GCAssumption ==
  /\ CleanBits \in 1 .. MaskBits
  /\ U8 \in Nat \ {0}
  /\ MaxChurn \in Nat
  /\ SectorCnt >= PagesPerBlock  \* the entries that FTL_GC searches are set
  /\ DPM_Pages_Per_Blk = 1       \* one page per map entry

VARIABLES
  place,  \* where the process is in the functions of this module
  gc,     \* locals of FTL_GC
  mv,     \* DPM_Date_Move: its arguments, and where its caller goes on
  wl,     \* locals of Static_WL and ANTI_Dynamic_WL
  lost,   \* sectors whose page was in reach of something that destroys pages
  churn   \* calls so far of Discard and Static_WL

gcLocals == <<place, gc, mv, wl, lost>>
gcVars == <<gcLocals, churn>>
allVars == <<vars, gcVars>>

Unset == -1   \* k_page_map before its first assignment

\* FTL_GC: the block being looked at, whether a block was collected (tick_cfg),
\* the pages noted in clean_cfg, the page and map entry the search has come to,
\* and who called; and as history whether a page was dirty at the call (owed), and
\* whether the block had a dirty page when its live pages were noted (had).
NoGC == [blk |-> 0, tick |-> FALSE, noted |-> {}, page |-> 0, k |-> 0,
         caller |-> "none", owed |-> FALSE, had |-> FALSE]
NoMove == [src |-> 0, dst |-> 0, caller |-> "none"]
\* Static_WL: the smallest erase count and its block, the page it has come to and
\* the page it moves; ANTI_Dynamic_WL: the greatest erase count and its page; at:
\* the block that the scan of one of them has come to.
NoWear == [min |-> 0, blk |-> 0, page |-> 0, src |-> 0, max |-> 0, found |-> 0, at |-> 0]

GCInit ==
  /\ Init
  /\ place = "none"
  /\ gc = NoGC
  /\ mv = NoMove
  /\ wl = NoWear
  /\ lost = {}
  /\ churn = 0

-----------------------------------------------------------------------------
(* What FTL_GC reads of a block.                                           *)

Bad(blk)   == {p \in PagesOf(blk) : IsBad(ReadSpare(flash, p))}
Dirty(blk) == {p \in PagesOf(blk) : ReadSpare(flash, p).dirty # Clear}
Live(blk)  == {p \in PagesOf(blk) : IsValid(ReadSpare(flash, p))}

\* Pages for which clean_cfg has the bit (1 << j): a shift counts modulo
\* MaskBits, and bits from CleanBits on are cut off.
Noted(blk) ==
  {p \in PagesOf(blk) :
     /\ (p - FirstPage(blk)) % MaskBits < CleanBits
     /\ \E q \in Live(blk) : (q - p) % MaskBits = 0}

\* Physical pages that pageOP_EraseBlk erases or gives a new tag.
Reach(blk) == ErasedBy(FirstPage(blk)) \cup {Skew(p) : p \in PagesOf(blk)}

StoredIn(pages) == {s \in Stored : home[s] \in pages}

-----------------------------------------------------------------------------
(* Calls.                                                                  *)

InFTL_GC == place \notin {"none", "rare", "wear", "anti", "old"}

FTL_GC_From(caller) ==
  /\ pc' = "gc"
  /\ place' = "pass1"
  /\ gc' = [NoGC EXCEPT !.caller = caller,
              !.owed = \E p \in Pages : ReadSpare(flash, p).dirty # Clear]

\* By the upper layer.
FTL_GC_WhenIdle ==
  /\ pc = "idle"
  /\ FTL_GC_From("idle")
  /\ UNCHANGED <<flash, mapVars, scanVars, eraseVars, history, mv, wl, lost>>

\* By Dynamic_WL for Get_FreeDPage.
FTL_GC_ForStore ==
  /\ pc = "scan1"
  /\ place = "none"
  /\ m16i_Blk = BlocksPerChip
  /\ FTL_GC_From("scan1")
  /\ m16i_Blk' = 0
  /\ UNCHANGED <<flash, mapVars, sector, payload, Page_Addr, EraseTime_MIN,
                 eraseVars, history, mv, wl, lost>>

\* By Dynamic_WL for FTL_GC itself: it changes nothing before it comes to the
\* call of Dynamic_WL for the same page, which finds no page again (see
\* OverflowRepeats), and so on until the stack is used up.
FTL_GC_Recursion ==
  /\ pc = "scan1"
  /\ place = "alloc"
  /\ m16i_Blk = BlocksPerChip
  /\ pc' = "overflow"
  /\ UNCHANGED <<flash, mapVars, scanVars, eraseVars, history, gcLocals>>

\* A pass that collected a block is the last one.
GcIsDone ==
  /\ pc = "gc"
  /\ gc.blk = BlocksPerChip
  /\ (place \in {"pass1", "pass2"} /\ gc.tick) \/ place = "pass3"

\* The caller goes on: Dynamic_WL and ANTI_Dynamic_WL search from the start.
FTL_GC_Returns ==
  /\ GcIsDone
  /\ pc' = IF gc.caller = "anti" THEN "gc" ELSE gc.caller
  /\ place' = IF gc.caller = "anti" THEN "anti" ELSE "none"
  /\ gc' = NoGC
  /\ UNCHANGED <<flash, mapVars, scanVars, eraseVars, history, mv, wl, lost>>

\* A page the process meets is bad: its block is to be marked, see MarkBlockBad.
MarkBad(blk) ==
  /\ pc' = "mark"
  /\ m16i_Blk' = blk
  /\ UNCHANGED <<flash, mapVars, sector, payload, Page_Addr, EraseTime_MIN, eraseVars,
                 history, place, gc, mv, wl, lost>>

-----------------------------------------------------------------------------
(* pageOP_EraseBlk, called by FTL_GC.                                      *)

\* The block has a dirty page, or had one when its live pages were noted.
HadDirty(blk) == gc.had \/ Dirty(blk) # {}

Collect(blk) ==
  /\ m16i_Blk' = blk
  /\ marks' = Bad(blk)
  /\ fresh' = ReadSpare(flash, FirstPage(blk) + PagesPerBlock - 1)
  /\ pc' = IF EraseReaches(FirstPage(blk)) THEN "erase" ELSE "abort"
  /\ lost' = IF HadDirty(blk) THEN lost \cup StoredIn(Reach(blk)) ELSE lost
  /\ UNCHANGED <<flash, mapVars, sector, payload, Page_Addr, EraseTime_MIN,
                 erases, history, mv, wl>>

\* Mutant: after the last page of the block the tags are written again from its
\* first page on.
LastRetag_Stays ==
  /\ pc = "retag"
  /\ place # "none"
  /\ Page_Addr + 1 \notin PagesOf(m16i_Blk)
  /\ flash' = WriteSpare(flash, Page_Addr, NewTag(Page_Addr))
  /\ torn' = torn \ {Skew(Page_Addr)}
  /\ Page_Addr' = FirstPage(m16i_Blk)
  /\ UNCHANGED <<pc, m16i_Blk, marks, fresh, mapVars, sector, payload, EraseTime_MIN,
                 erases, acked, home, mapped, wrapped, place, gc, mv, wl, lost>>

\* The last page of the block gets its tag, and FTL_GC goes on.
LastRetag ==
  /\ pc = "retag"
  /\ place # "none"
  /\ Page_Addr + 1 \notin PagesOf(m16i_Blk)
  /\ flash' = WriteSpare(flash, Page_Addr, NewTag(Page_Addr))
  /\ torn' = torn \ {Skew(Page_Addr)}
  /\ pc' = "gc"
  /\ Page_Addr' = MAX16
  /\ EraseTime_MIN' = 0
  /\ m16i_Blk' = 0
  /\ marks' = {}
  /\ fresh' = ErasedTag
  /\ UNCHANGED <<mapVars, sector, payload, erases, acked, home, mapped, wrapped, gcLocals>>

-----------------------------------------------------------------------------
(* FTL_GC.  A step looks at one block.                                     *)

Looking(pass) == pc = "gc" /\ place = pass /\ gc.blk \in Blocks

\* Pages at which the scan of a block stops: the first pass leaves a block at
\* its first page that is not dirty.
Stops(pass, blk) ==
  IF pass = "pass1" THEN Bad(blk) \cup (PagesOf(blk) \ Dirty(blk)) ELSE Bad(blk)

FTL_GC_MeetsBadPage ==
  \E pass \in {"pass1", "pass2", "pass3"} :
    /\ Looking(pass)
    /\ FirstOf(Stops(pass, gc.blk)) \cap Bad(gc.blk) # {}
    /\ MarkBad(gc.blk)

\* Blocks all of whose pages are dirty are erased.
Pass1 ==
  /\ Looking("pass1")
  /\ FirstOf(Stops("pass1", gc.blk)) \cap Bad(gc.blk) = {}
  /\ gc' = [gc EXCEPT !.blk = gc.blk + 1, !.tick = gc.tick \/ Stops("pass1", gc.blk) = {}]
  /\ \/ Stops("pass1", gc.blk) = {} /\ Collect(gc.blk)
     \/ /\ Stops("pass1", gc.blk) # {}
        /\ UNCHANGED <<flash, pc, mapVars, scanVars, eraseVars, history, mv, wl, lost>>
  /\ UNCHANGED place

\* No block was collected in the pass: the next one.
NextPass ==
  /\ pc = "gc"
  /\ gc.blk = BlocksPerChip
  /\ ~gc.tick
  /\ \/ place = "pass1" /\ place' = "pass2" /\ gc' = [gc EXCEPT !.blk = 0]
     \/ place = "pass2" /\ place' = "pass3" /\ gc' = [gc EXCEPT !.blk = 0, !.k = Unset]
  /\ UNCHANGED <<flash, pc, mapVars, scanVars, eraseVars, history, mv, wl, lost>>

\* Blocks with more dirty than live pages: their live pages are to be moved.
Pass2 ==
  /\ Looking("pass2")
  /\ Bad(gc.blk) = {}
  /\ \/ /\ Cardinality(Dirty(gc.blk)) > Cardinality(Live(gc.blk))
        /\ place' = "search2"
        /\ gc' = [gc EXCEPT !.noted = Noted(gc.blk), !.page = FirstPage(gc.blk), !.k = 0,
                            !.had = Dirty(gc.blk) # {}]
     \/ /\ Cardinality(Dirty(gc.blk)) <= Cardinality(Live(gc.blk))
        /\ gc' = [gc EXCEPT !.blk = gc.blk + 1]
        /\ UNCHANGED place
  /\ UNCHANGED <<flash, pc, mapVars, scanVars, eraseVars, history, mv, wl, lost>>

\* A search from page and entry k on goes through the noted pages, and for each
\* of them through the first PagesPerBlock pages of the map: the pairs it stops
\* at, and the first of them.
MappedFrom(noted, page, k) ==
  {m \in noted \X (0 .. PagesPerBlock - 1) :
     /\ m[1] > page \/ (m[1] = page /\ m[2] >= k)
     /\ DPM_Table[m[2] \div DPM_Pages_Per_Blk] = m[1] \div DPM_Pages_Per_Blk}

NextMapped(noted, page, k) ==
  LET mapped2 == MappedFrom(noted, page, k)
  IN  {m \in mapped2 : \A n \in mapped2 : m[1] < n[1] \/ (m[1] = n[1] /\ m[2] <= n[2])}

\* Mutant: the number of the entry is taken for the page to move.
Search2_MovesEntry ==
  /\ pc = "gc"
  /\ place = "search2"
  /\ \/ \E m \in NextMapped(gc.noted, gc.page, gc.k) :
          /\ mv' = [src |-> m[2] \div DPM_Pages_Per_Blk, dst |-> 0, caller |-> "search2"]
          /\ gc' = [gc EXCEPT !.page = m[1], !.k = m[2] + 1]
          /\ place' = "alloc"
          /\ UNCHANGED <<flash, pc, mapVars, scanVars, eraseVars, history, wl, lost>>
     \/ /\ MappedFrom(gc.noted, gc.page, gc.k) = {}
        /\ place' = "pass2"
        /\ gc' = [gc EXCEPT !.blk = gc.blk + 1, !.tick = TRUE, !.noted = {}, !.page = 0,
                            !.k = 0, !.had = FALSE]
        /\ Collect(gc.blk)

Search2 ==
  /\ pc = "gc"
  /\ place = "search2"
  /\ \/ \E m \in NextMapped(gc.noted, gc.page, gc.k) :
          /\ mv' = [src |-> DPM_Table[m[2] \div DPM_Pages_Per_Blk], dst |-> 0,
                    caller |-> "search2"]
          /\ gc' = [gc EXCEPT !.page = m[1], !.k = m[2] + 1]
          /\ place' = "alloc"
          /\ UNCHANGED <<flash, pc, mapVars, scanVars, eraseVars, history, wl, lost>>
     \/ /\ MappedFrom(gc.noted, gc.page, gc.k) = {}
        /\ place' = "pass2"
        /\ gc' = [gc EXCEPT !.blk = gc.blk + 1, !.tick = TRUE, !.noted = {}, !.page = 0,
                            !.k = 0, !.had = FALSE]
        /\ Collect(gc.blk)

\* Mutant: a block with dirty and live pages is left as it is.
Pass3_AllDirty ==
  /\ Looking("pass3")
  /\ Bad(gc.blk) = {}
  /\ \/ /\ Dirty(gc.blk) # {} /\ Live(gc.blk) = {}
        /\ place' = "search3"
        /\ gc' = [gc EXCEPT !.noted = Noted(gc.blk), !.page = FirstPage(gc.blk),
                            !.had = Dirty(gc.blk) # {}]
     \/ /\ Dirty(gc.blk) = {} \/ Live(gc.blk) # {}
        /\ gc' = [gc EXCEPT !.blk = gc.blk + 1]
        /\ UNCHANGED place
  /\ UNCHANGED <<flash, pc, mapVars, scanVars, eraseVars, history, mv, wl, lost>>

\* Mutant: a block is collected whether it has a dirty page or not.
Pass3_AnyBlock ==
  /\ Looking("pass3")
  /\ Bad(gc.blk) = {}
  /\ place' = "search3"
  /\ gc' = [gc EXCEPT !.noted = Noted(gc.blk), !.page = FirstPage(gc.blk),
                      !.had = Dirty(gc.blk) # {}]
  /\ UNCHANGED <<flash, pc, mapVars, scanVars, eraseVars, history, mv, wl, lost>>

\* Blocks with a dirty page: their live pages are to be moved.
Pass3 ==
  /\ Looking("pass3")
  /\ Bad(gc.blk) = {}
  /\ \/ /\ Dirty(gc.blk) # {}
        /\ place' = "search3"
        /\ gc' = [gc EXCEPT !.noted = Noted(gc.blk), !.page = FirstPage(gc.blk),
                            !.had = Dirty(gc.blk) # {}]
     \/ /\ Dirty(gc.blk) = {}
        /\ gc' = [gc EXCEPT !.blk = gc.blk + 1]
        /\ UNCHANGED place
  /\ UNCHANGED <<flash, pc, mapVars, scanVars, eraseVars, history, mv, wl, lost>>

\* An entry of the page map as C reads it: beyond the sectors it is unknown.
MayHold(entry, page) ==
  IF entry \in Sectors THEN {DPM_Table[entry] = page} ELSE BOOLEAN

\* k_Dblk_map is computed before the loop that searches the map, from what
\* k_page_map was left at: nothing, 0 or MAX_PAGES_PER_BLOCK.  When that entry
\* is the page's, the entry number is taken for the page to move and the live
\* page for the one to move it to.
Search3 ==
  /\ pc = "gc"
  /\ place = "search3"
  /\ \/ \E p \in FirstOf({q \in gc.noted : q >= gc.page}),
           k \in (IF gc.k = Unset THEN PageNumbers ELSE {gc.k}) :
          LET k_Dblk_map == k \div DPM_Pages_Per_Blk
              page       == p \div DPM_Pages_Per_Blk
          IN  /\ \/ /\ TRUE \in MayHold(k_Dblk_map, page)
                    /\ mv' = [src |-> k_Dblk_map, dst |-> page, caller |-> "search3"]
                    /\ gc' = [gc EXCEPT !.page = p + 1, !.k = 0]
                    /\ place' = "copy"
                 \/ /\ FALSE \in MayHold(k_Dblk_map, page)
                    /\ gc' = [gc EXCEPT !.page = p + 1, !.k = PagesPerBlock]
                    /\ UNCHANGED <<place, mv>>
              /\ UNCHANGED <<flash, pc, mapVars, scanVars, eraseVars, history, wl, lost>>
     \/ /\ \A q \in gc.noted : q < gc.page
        /\ place' = "pass3"
        /\ gc' = [gc EXCEPT !.blk = gc.blk + 1, !.noted = {}, !.page = 0, !.had = FALSE]
        /\ Collect(gc.blk)

-----------------------------------------------------------------------------
(* DPM_Date_Move.                                                          *)

\* Dynamic_WL is called for the target of a move ...
CallDynamic_WL ==
  /\ pc = "gc"
  /\ place = "alloc"
  /\ pc' = "scan1"
  /\ Page_Addr' = MAX16
  /\ m16i_Blk' = 0
  /\ UNCHANGED <<flash, mapVars, sector, payload, EraseTime_MIN, eraseVars, history, gcLocals>>

\* ... and has found one.
Dynamic_WL_Returns ==
  /\ pc = "scan2"
  /\ place = "alloc"
  /\ m16i_Blk = BlocksPerChip
  /\ pc' = "gc"
  /\ place' = "copy"
  /\ mv' = [mv EXCEPT !.dst = Page_Addr \div DPM_Pages_Per_Blk]
  /\ Page_Addr' = MAX16
  /\ EraseTime_MIN' = 0
  /\ m16i_Blk' = 0
  /\ UNCHANGED <<flash, mapVars, sector, payload, eraseVars, history, gc, wl, lost>>

\* pageOP_ReadData compares the ECC it computes, over 80 bytes and the 176
\* behind them, with three of the 16 bytes in front of the tag.  Writing a tag
\* makes them zero, and no ECC has a zero third byte; where no tag has been
\* written they are erased, and the outcome depends on what lies behind.
pageOP_ReadData(image, page) ==
  IF ReadSpare(image, page) = ErasedTag THEN BOOLEAN ELSE {FALSE}

Moving == pc = "gc" /\ place = "copy" /\ PageReaches(mv.src)

Source == flash[Skew(mv.src)]
Target == Skew(mv.dst)

\* The pages whose data the move overwrites: pass 3 takes a live one.
Overwritten == IF mv.caller = "search3" THEN {Target} ELSE {}

TornAfterCopy ==
  IF Skew(mv.src) \in torn THEN torn \cup {Target} ELSE torn \ {Target}

\* pageOP_WriteData: the page with its tag, then a read of it.
CopyPage ==
  /\ Moving
  /\ flash' = WritePage(flash, mv.dst, Source)
  /\ torn' = TornAfterCopy
  /\ lost' = lost \cup StoredIn(Overwritten)
  /\ \E good \in pageOP_ReadData(flash', mv.dst) : place' = IF good THEN "retire" ELSE "spoil"
  /\ UNCHANGED <<pc, mapVars, scanVars, eraseVars, acked, home, mapped, wrapped, gc, mv, wl>>

\* The page to move is not on the chip: the assertion of the simulator.
CopyAborts ==
  /\ pc = "gc"
  /\ place = "copy"
  /\ ~PageReaches(mv.src)
  /\ pc' = "abort"
  /\ UNCHANGED <<flash, mapVars, scanVars, eraseVars, history, gcLocals>>

\* Where the callers of DPM_Date_Move go on when it fails: two of them try
\* another target, the third does not look at the result.
AfterFailure == [search2 |-> "alloc", wear |-> "anti", search3 |-> "search3"]

\* Mutant: the page that was to be moved gets the tag.
SpoilSource ==
  /\ pc = "gc"
  /\ place = "spoil"
  /\ \E tag \in Garbage : flash' = WriteSpare(flash, mv.src, tag)
  /\ place' = AfterFailure[mv.caller]
  /\ UNCHANGED <<pc, mapVars, scanVars, eraseVars, history, gc, mv, wl, lost>>

\* The read of the copy failed: its target gets a tag of which only the bad
\* flag is set, the rest is what the stack holds.
SpoilTarget ==
  /\ pc = "gc"
  /\ place = "spoil"
  /\ \E tag \in Garbage : flash' = WriteSpare(flash, mv.dst, tag)
  /\ place' = AfterFailure[mv.caller]
  /\ UNCHANGED <<pc, mapVars, scanVars, eraseVars, history, gc, mv, wl, lost>>

\* uint16_t, and the cast comes before the division.
DPM_Size == (PagesPerChip % U16) \div DPM_Pages_Per_Blk

\* The source becomes dirty, and the first entry that names it the target's.
RetireSource ==
  /\ pc = "gc"
  /\ place = "retire"
  /\ flash' = WriteSpare(flash, mv.src, [ReadSpare(flash, mv.src) EXCEPT !.dirty = Set])
  /\ LET entries == {k \in Sectors : k < DPM_Size /\ DPM_Table[k] = mv.src}
     IN  DPM_Table' = [k \in Sectors |->
                         IF k \in FirstOf(entries) THEN mv.dst % U16 ELSE DPM_Table[k]]
  /\ place' = mv.caller
  /\ UNCHANGED <<pc, PageCnt, scanVars, eraseVars, history, gc, mv, wl, lost>>

-----------------------------------------------------------------------------
(* Static_WL and ANTI_Dynamic_WL.                                          *)

\* The first page of the chip that is bad or has live data.
FirstLive ==
  FirstOf({p \in Pages : IsBad(ReadSpare(flash, p)) \/ IsValid(ReadSpare(flash, p))})

Static_WL ==
  /\ pc = "idle"
  /\ \E blk \in Blocks : \E p \in FirstLive \cap PagesOf(blk) :
       \/ IsBad(ReadSpare(flash, p)) /\ MarkBad(blk)
       \/ /\ ~IsBad(ReadSpare(flash, p))
          /\ pc' = "gc"
          /\ place' = "rare"
          /\ wl' = [NoWear EXCEPT !.min = ReadSpare(flash, p).erase % U16, !.blk = blk]
          /\ UNCHANGED <<flash, mapVars, scanVars, eraseVars, history, gc, mv, lost>>

\* A live page with a smaller erase count in each of the blocks.
SeekRarelyErased ==
  LET stops == {p \in PagesOf(wl.at) :
                  LET tag == ReadSpare(flash, p)
                  IN  IsBad(tag) \/ tag.erase > wl.min \/ IsValid(tag)}
      onward == [wl EXCEPT !.at = wl.at + 1]
  IN  /\ pc = "gc"
      /\ place = "rare"
      /\ wl.at \in Blocks
      /\ \/ \E p \in FirstOf(stops) : IsBad(ReadSpare(flash, p)) /\ MarkBad(wl.at)
         \/ /\ \/ stops = {} /\ wl' = onward
               \/ \E p \in FirstOf(stops) :
                    LET tag == ReadSpare(flash, p)
                    IN  /\ ~IsBad(tag)
                        /\ wl' = IF tag.erase > wl.min THEN onward
                                 ELSE [onward EXCEPT !.min = tag.erase % U16, !.blk = wl.at]
            /\ UNCHANGED <<flash, pc, mapVars, scanVars, eraseVars, history, place, gc, mv, lost>>

RarelyErasedFound ==
  /\ pc = "gc"
  /\ place = "rare"
  /\ wl.at = BlocksPerChip
  /\ place' = "wear"
  /\ wl' = [wl EXCEPT !.at = 0]
  /\ UNCHANGED <<flash, pc, mapVars, scanVars, eraseVars, history, gc, mv, lost>>

\* The next live page of the block.  The page to move is computed from the
\* erase count in place of the number of the block.
Static_WL_Moves ==
  LET left == {j \in wl.page .. PagesPerBlock - 1 :
                 IsValid(ReadSpare(flash, FirstPage(wl.blk) + j))}
  IN  /\ pc = "gc"
      /\ place = "wear"
      /\ \/ \E j \in FirstOf(left) :
              /\ wl' = [wl EXCEPT !.page = j + 1,
                           !.src = (wl.min * PagesPerBlock + j) \div DPM_Pages_Per_Blk]
              /\ place' = "anti"
              /\ UNCHANGED pc
         \/ /\ left = {}
            /\ pc' = "idle"
            /\ place' = "none"
            /\ wl' = NoWear
      /\ UNCHANGED <<flash, mapVars, scanVars, eraseVars, history, gc, mv, lost>>

FirstFree ==
  FirstOf({p \in Pages : IsBad(ReadSpare(flash, p)) \/ IsFree(ReadSpare(flash, p))})

ANTI_Dynamic_WL ==
  /\ pc = "gc"
  /\ place = "anti"
  /\ \/ /\ FirstFree = {}
        /\ FTL_GC_From("anti")
        /\ UNCHANGED <<flash, mapVars, scanVars, eraseVars, history, mv, wl, lost>>
     \/ \E blk \in Blocks : \E p \in FirstFree \cap PagesOf(blk) :
          \/ IsBad(ReadSpare(flash, p)) /\ MarkBad(blk)
          \/ /\ ~IsBad(ReadSpare(flash, p))
             /\ place' = "old"
             /\ wl' = [wl EXCEPT !.max = ReadSpare(flash, p).erase % U8, !.found = p]
             /\ UNCHANGED <<flash, pc, mapVars, scanVars, eraseVars, history, gc, mv, lost>>

\* A free page with a greater erase count in each of the blocks; EraseTime_MAX
\* is a uint8_t.
SeekOftenErased ==
  LET stops == {p \in PagesOf(wl.at) :
                  LET tag == ReadSpare(flash, p)
                  IN  IsBad(tag) \/ (IsFree(tag) /\ tag.erase > wl.max)}
      onward == [wl EXCEPT !.at = wl.at + 1]
  IN  /\ pc = "gc"
      /\ place = "old"
      /\ wl.at \in Blocks
      /\ \/ \E p \in FirstOf(stops) : IsBad(ReadSpare(flash, p)) /\ MarkBad(wl.at)
         \/ /\ \/ stops = {} /\ wl' = onward
               \/ \E p \in FirstOf(stops) :
                    /\ ~IsBad(ReadSpare(flash, p))
                    /\ wl' = [onward EXCEPT !.max = ReadSpare(flash, p).erase % U8, !.found = p]
            /\ UNCHANGED <<flash, pc, mapVars, scanVars, eraseVars, history, place, gc, mv, lost>>

OftenErasedFound ==
  /\ pc = "gc"
  /\ place = "old"
  /\ wl.at = BlocksPerChip
  /\ place' = "copy"
  /\ mv' = [src |-> wl.src, dst |-> wl.found, caller |-> "wear"]
  /\ wl' = [wl EXCEPT !.max = 0, !.found = 0, !.at = 0]
  /\ UNCHANGED <<flash, pc, mapVars, scanVars, eraseVars, history, gc, lost>>

-----------------------------------------------------------------------------
(* The surroundings.                                                       *)

\* The upper layer gives up the contents of a sector and marks its page dirty:
\* pageOP_ReadSpare and pageOP_WriteSpare, as Get_Useful_WPage means to do.  The
\* page of a lost sector may by now be that of another.
Discard(s) ==
  /\ pc = "idle"
  /\ s \in mapped
  /\ LET page == DPM_Table[s]
     IN  /\ flash' = WriteSpare(flash, page, [ReadSpare(flash, page) EXCEPT !.dirty = Set])
         /\ lost' = (lost \cup StoredIn({Skew(page)})) \ {s}
  /\ acked' = [acked EXCEPT ![s] = None]
  /\ mapped' = mapped \ {s}
  /\ UNCHANGED <<pc, mapVars, scanVars, eraseVars, home, wrapped, torn, place, gc, mv, wl>>

\* A full page was being written, or the tag of a target.
TornMove ==
  \/ /\ Moving
     /\ \E data \in {flash[Target].data, Partial, Source.data},
           tag \in TornTags(flash[Target].tag, Source.tag) :
          flash' = [flash EXCEPT ![Target] = [data |-> data, tag |-> tag]]
     /\ torn' = torn \cup {Target}
     /\ lost' = lost \cup StoredIn(Overwritten)
  \/ /\ pc = "gc" /\ place = "spoil"
     /\ \E tag \in Garbage : TornTag(Target, tag)
     /\ UNCHANGED lost

GcKilled ==
  /\ \/ /\ Killed
        /\ lost' = IF pc = "mark" /\ flash' # flash
                     THEN lost \cup StoredIn({BadMark(m16i_Blk)})
                     ELSE lost
     \/ Death /\ TornMove
  /\ place' = "none"
  /\ gc' = NoGC
  /\ mv' = NoMove
  /\ wl' = NoWear
  /\ UNCHANGED churn

-----------------------------------------------------------------------------

\* Steps of FTL inside a call, and of this module.
Storing_FTL ==
  \/ Create_DPM \/ ScanFirst \/ ScanYounger
  \/ place = "none" /\ Get_FreeDPage
  \/ WritePageData \/ WritePageTag \/ RejectPage \/ MarkPageBad
  \/ MeetBadPage
  \/ Nand_EraseBlock
  \/ Retag /\ (place # "none" => pc' = "retag")

Collecting ==
  \/ FTL_GC_ForStore \/ FTL_GC_Recursion \/ FTL_GC_Returns \/ LastRetag
  \/ FTL_GC_MeetsBadPage \/ Pass1 \/ NextPass \/ Pass2 \/ Search2 \/ Pass3 \/ Search3
  \/ CallDynamic_WL \/ Dynamic_WL_Returns
  \/ CopyPage \/ CopyAborts \/ SpoilTarget \/ RetireSource
  \/ SeekRarelyErased \/ RarelyErasedFound \/ Static_WL_Moves
  \/ ANTI_Dynamic_WL \/ SeekOftenErased \/ OftenErasedFound

Working ==
  /\ \/ Storing_FTL /\ UNCHANGED gcLocals
     \/ VerifyPage /\ lost' = lost \ {sector} /\ UNCHANGED <<place, gc, mv, wl>>
     \/ /\ MarkBlockBad
        /\ lost' = lost \cup StoredIn({BadMark(m16i_Blk)})
        /\ UNCHANGED <<place, gc, mv, wl>>
     \/ Collecting
  /\ UNCHANGED <<BBT_BlkNum, kills, churn>>

GCCalls ==
  \/ Calls /\ UNCHANGED gcVars
  \/ FTL_GC_WhenIdle /\ UNCHANGED churn
  \/ /\ churn < MaxChurn
     /\ churn' = churn + 1
     /\ Static_WL \/ \E s \in Sectors : Discard(s)

GCNext ==
  \/ Working
  \/ GCCalls /\ UNCHANGED <<BBT_BlkNum, kills>>
  \/ GcKilled /\ UNCHANGED BBT_BlkNum

GCSpec == GCInit /\ [][GCNext]_allVars

\* As in FTL: a process inside a call is scheduled again and again.
GCFairSpec == GCSpec /\ WF_allVars(Working)

-----------------------------------------------------------------------------
(* Properties.                                                             *)

Passes == {"pass1", "pass2", "pass3"}

\* The types of the variables.
GCTypeOK ==
  /\ VarTypes
  /\ pc \in {"off", "up", "dpm", "idle", "gc", "abort", "mark", "hung", "overflow"}
            \cup Storing \cup Erasing
  /\ place \in Passes \cup {"none", "search2", "search3", "alloc", "copy", "spoil",
                          "retire", "rare", "wear", "anti", "old"}
  /\ gc \in [blk : 0 .. BlocksPerChip, tick : BOOLEAN, noted : SUBSET Pages,
             page : 0 .. PagesPerChip, k : 0 .. PagesPerBlock \cup {Unset},
             caller : {"none", "idle", "scan1", "anti"}, owed : BOOLEAN, had : BOOLEAN]
  /\ mv \in [src : Nat, dst : Pages, caller : {"none", "search2", "search3", "wear"}]
  /\ wl \in [min : PageNumbers, blk : Blocks, page : 0 .. PagesPerBlock, src : Nat,
             max : 0 .. U8 - 1, found : Pages, at : 0 .. BlocksPerChip]
  /\ lost \subseteq Sectors
  /\ churn \in Nat

\* Garbage collection destroys nothing but what is in reach of a block that had
\* a dirty page when it was collected, of a live page that pass 3 takes for the
\* target of a move, and of the mark of a bad block: every other sector keeps
\* its contents, on a page that is valid, through collections, moves, stores and
\* deaths of the process (FTL_GC, DPM_Date_Move, Dynamic_WL).
CleanDataSurvives ==
  ~wrapped =>
    \A s \in Stored \ lost :
      /\ flash[home[s]].data = acked[s]
      /\ IsValid(flash[home[s]].tag)
      /\ flash[home[s]].tag.ecc = acked[s]

\* What makes it inductive: where the process can be, and what it knows there of
\* the pages it is about to write.
Searches == {"search2", "search3"}
MovePlaces == {"copy", "spoil", "retire"}

PlaceInv ==
  /\ pc \in {"off", "up", "dpm", "idle", "program", "tag", "verify", "markbad"} => place = "none"
  /\ pc \in Erasing => place \in Passes \cup {"none"}
  /\ pc \in {"off", "up", "dpm", "idle", "gc"} => Page_Addr = MAX16
  /\ pc \in {"scan1", "scan2"} /\ place = "none" => payload \in Payload
  /\ gc.caller = "scan1" => payload \in Payload
  /\ gc.caller # "none" <=>
       \/ place \in Passes \cup Searches \cup {"alloc"}
       \/ place \in MovePlaces /\ mv.caller # "wear"
  /\ place = "alloc" => mv.caller = "search2"
  /\ place \in MovePlaces => mv.caller # "none"
  /\ place \in {"spoil", "retire"} => PageReaches(mv.src)
  /\ place \in Searches => gc.blk \in Blocks
  /\ place \in MovePlaces \cup {"alloc"} /\ mv.caller \in Searches => gc.blk \in Blocks
  /\ \/ place \in Searches
     \/ place \in MovePlaces \cup {"alloc"} /\ mv.caller \in Searches
     => gc.had

Safe == Stored \ lost

SurviveInv ==
  /\ pc = "retag" => Page_Addr \in PagesOf(m16i_Blk)
  /\ pc = "gc" /\ place = "retire" => ReadSpare(flash, mv.src) = ErasedTag
  /\ ~wrapped =>
       /\ pc \in {"verify", "markbad"} => \A s \in Safe : home[s] # Skew(Page_Addr)
       /\ pc \in Erasing => \A s \in Safe : home[s] \notin Reach(m16i_Blk)
       /\ pc = "gc" /\ place = "old" => ReadSpare(flash, wl.found).used = Clear
       /\ pc = "gc" /\ place = "copy" /\ mv.caller # "search3" =>
            ReadSpare(flash, mv.dst).used = Clear
       /\ pc = "gc" /\ place = "spoil" => \A s \in Safe : home[s] # Target
  /\ CleanDataSurvives

NoPageBad == \A p \in Pages : ~IsBad(ReadSpare(flash, p))

\* Dynamic_WL leaves the search for a page to FTL_GC, whose passes destroy live
\* data, only when the chip has no free page that a uint16_t can name: no block
\* is passed over, in whatever order pages were freed and taken.
CollectsOnlyWhenFull ==
  pc = "scan1" /\ m16i_Blk = BlocksPerChip =>
    \A p \in Pages : IsFree(ReadSpare(flash, p)) => p % U16 = MAX16

\* When a page was dirty at the call of FTL_GC, FTL_GC returns with a free page:
\* what the retry in Dynamic_WL and ANTI_Dynamic_WL (goto LOOP) relies on.
RoomAfterGC ==
  GcIsDone /\ gc.owed /\ NoPageBad => \E p \in Pages : IsFree(ReadSpare(flash, p))

\* Whatever FTL_GC collects or moves leaves a page that is free or bad; as long as
\* there is none, it has changed nothing, and what the passes have found of the
\* blocks behind them still holds.
FreeOrBad == \E p \in Pages : IsBad(ReadSpare(flash, p)) \/ IsFree(ReadSpare(flash, p))

Passed1(blk) == Dirty(blk) # PagesOf(blk)
Passed2(blk) == ~(Cardinality(Dirty(blk)) > Cardinality(Live(blk)))

\* What FTL_GC is about to move is what it finds first: the first block with more
\* dirty than live pages, of that block the first noted page that one of the
\* entries searched names, and the first of these entries.
FirstMove ==
  /\ \A blk \in Blocks : Passed1(blk) /\ (blk < gc.blk => Passed2(blk))
  /\ ~Passed2(gc.blk)
  /\ <<gc.page, gc.k - 1>> \in NextMapped(Noted(gc.blk), FirstPage(gc.blk), 0)
  /\ mv.src = gc.page \div DPM_Pages_Per_Blk

\* A move for which Dynamic_WL finds no page recurses for ever: FTL_GC called again
\* passes over the same blocks and comes to the same entry for the same page of
\* the same block, and Dynamic_WL called for it again finds no page.
OverflowRepeats == pc = "overflow" => ~FreeOrBad /\ FirstMove

\* What makes the two inductive.
RoomInv ==
  pc = "gc" /\ place \in Passes /\ ~FreeOrBad =>
    /\ place # "pass3" => ~gc.tick
    /\ gc.owed => \E p \in Pages : /\ ReadSpare(flash, p).dirty # Clear
                                   /\ place = "pass3" => p >= FirstPage(gc.blk)

PassInv ==
  ~FreeOrBad =>
    /\ pc = "gc" /\ place = "pass1" => \A blk \in Blocks : blk < gc.blk => Passed1(blk)
    /\ pc = "gc" /\ place \in {"pass2", "search2"} =>
         \A blk \in Blocks : Passed1(blk) /\ (blk < gc.blk => Passed2(blk))
    /\ pc = "gc" /\ place = "search2" =>
         /\ ~Passed2(gc.blk)
         /\ gc.noted = Noted(gc.blk) /\ gc.page = FirstPage(gc.blk) /\ gc.k = 0
    /\ pc \in {"gc", "scan1", "overflow"} /\ place = "alloc" => FirstMove

\* Dynamic_WL does not take a page whose number is MAX16 modulo U16, which says
\* that none was found.
Unfound(p) == p % U16 = MAX16

SearchInv ==
  /\ pc \in {"idle", "gc"} => m16i_Blk = 0
  /\ pc = "scan1" =>
       \A p \in Pages :
         /\ p < FirstPage(m16i_Blk)
         /\ IsBad(ReadSpare(flash, p)) \/ IsFree(ReadSpare(flash, p))
         => Unfound(p)

OverflowInv == pc = "overflow" => place = "alloc" /\ ~FreeOrBad

\* Such a page is the last of its block, and it is another page as well: of the
\* chip of the code, 65535 is also 65495, and 131071 also 131031.
UnfoundAreLast   == U16 % PagesPerBlock = 0
UnfoundAreOthers == \A p \in Pages : Unfound(p) => \E q \in Pages : ~Unfound(q) /\ Skew(q) = Skew(p)

\* No page is bad, and the blocks with dirty pages have no live ones.
Collectable ==
  /\ NoPageBad
  /\ \A blk \in Blocks : Dirty(blk) # {} => Live(blk) = {}

\* A call of FTL_GC that finds nothing to move comes to an end, whichever blocks
\* it collects, unless the process dies or aborts.
GcReturns ==
  Looking("pass1") /\ gc.blk = 0 /\ Collectable ~> ~InFTL_GC \/ pc = "abort"

\* A store that finds no free page gets one from garbage collection when there
\* is nothing to move and a page is dirty (the goto LOOP of Dynamic_WL).
StoreNeedsGC ==
  /\ pc = "scan1" /\ place = "none" /\ m16i_Blk = BlocksPerChip
  /\ Collectable
  /\ \E p \in Pages : ReadSpare(flash, p).dirty # Clear

RoomIsMade == StoreNeedsGC ~> pc \in {"program", "abort", "off"}

-----------------------------------------------------------------------------
(* What the comments of the code say and the code does not do.             *)

\* FTL_GC_WL.c: live data are moved away before their block is erased.
LiveDataAreMoved ==
  ~wrapped =>
    \A s \in Stored : \E f \in PhysicalPages :
      IsValid(flash[f].tag) /\ flash[f].data = acked[s]
=============================================================================
