-------------------------------- MODULE FTL ---------------------------------
(***************************************************************************)
(* Storing a sector through the flash translation layer: the page map of   *)
(* FTL_DPM.c, the allocation of a young page by Dynamic_WL, and the        *)
(* programming of the page by pageOP_Write, on the chip of NandPages.      *)
(*                                                                         *)
(* The process is sequential and can be killed between any two accesses to *)
(* the chip image, or in the middle of one that writes; the image is a     *)
(* file and survives, the page map is lost.  A step is the code between    *)
(* two points that such a death tells apart.                               *)
(*                                                                         *)
(* The upper layer that calls these functions is not in the repository.    *)
(* It erases blocks (pageOP_EraseBlk) before it stores anything, calls     *)
(* Create_DPM, and then stores sectors one at a time: Get_Useful_WPage,    *)
(* then pageOP_Write on the page it got.                                   *)
(***************************************************************************)
EXTENDS NandPages

CONSTANTS
  SectorCnt,  \* number of sectors the upper layer stores
  None,       \* no payload
  DPM_Pages_Per_Blk,  \* set by the upper layer
  BadBlockTables, \* what BBT_BlkNum may hold: sets of blocks
  Heap,       \* what memory from malloc may hold, as entries of the page map
  Prefilled,  \* pages an earlier life of the chip left in use
  Overread,   \* TRUE: what the ECC of pageOP_Write reads behind the 16 bytes of
              \* the caller's buffer, 240 bytes, may change under it
  BadOffset,  \* BLKINFO_BAD_OFFSET, 16
  Writes,     \* what the upper layer stores: pairs of a sector and its contents
  MaxErases,  \* bound: blocks erased in a behaviour
  MaxKills    \* bound: deaths of the process in a behaviour

ASSUME FTLAssumption ==
  /\ SectorCnt \in Nat \ {0}
  /\ None \notin Payload
  /\ Payload # {} /\ Erased \notin Payload /\ Partial \notin Payload
  /\ DPM_Pages_Per_Blk \in Nat \ {0}
  /\ BadBlockTables \subseteq SUBSET Blocks
  /\ Heap \subseteq 0 .. MAX16
  /\ Prefilled \subseteq Pages
  /\ Overread \in BOOLEAN
  /\ BadOffset \in 0 .. FilePage - 1
  /\ Writes \subseteq (0 .. SectorCnt - 1) \X Payload
  /\ MaxErases \in Nat
  /\ MaxKills \in Nat
  /\ U16 <= PagesPerChip

Sectors == 0 .. SectorCnt - 1

VARIABLES
  flash,     \* the chip image
  BBT_BlkNum, \* the bad block table, set by the upper layer
  pc,        \* where the process is
  DPM_Table, \* the page map: sector to page
  PageCnt,   \* Create_DPM: the entry of the next page in use
  sector,    \* the sector being stored
  payload,   \* the contents being stored
  Page_Addr, \* the page found so far by Dynamic_WL, then the page to program
  EraseTime_MIN,  \* the smallest erase count found so far by Dynamic_WL
  m16i_Blk,  \* the block being looked at, erased or marked bad
  marks,     \* pageOP_EraseBlk: pages of the block found bad
  fresh,     \* pageOP_EraseBlk: the tag its pages get
  acked,     \* what the last successful pageOP_Write stored for a sector
  home,      \* the physical page it was stored in
  mapped,    \* sectors stored since Create_DPM and not being stored again
  wrapped,   \* a free page was found whose number does not fit a uint16_t
  torn,      \* physical pages the process died on while writing or erasing them
  erases,    \* blocks erased so far
  kills      \* times the process has died

mapVars == <<DPM_Table, PageCnt>>
scanVars == <<sector, payload, Page_Addr, EraseTime_MIN, m16i_Blk>>
eraseVars == <<marks, fresh, erases>>
history == <<acked, home, mapped, wrapped, torn>>
vars == <<flash, BBT_BlkNum, pc, mapVars, scanVars, eraseVars, history, kills>>

PageNumbers == 0 .. MAX16

\* A call returned: its locals are gone.
Returned(nextpc) ==
  /\ pc' = nextpc
  /\ sector' = 0
  /\ payload' = None
  /\ Page_Addr' = MAX16
  /\ EraseTime_MIN' = 0
  /\ m16i_Blk' = 0

Init ==
  /\ \E v \in Payload :
       LET inUse == [data |-> v, tag |-> [ErasedTag EXCEPT !.used = Set, !.ecc = v]]
       IN  flash = [f \in PhysicalPages |->
                      IF \E p \in Prefilled : Skew(p) = f THEN inUse ELSE ErasedPage]
  /\ BBT_BlkNum \in BadBlockTables
  /\ pc = "off"
  /\ DPM_Table = [s \in Sectors |-> 0]
  /\ PageCnt = 0
  /\ sector = 0
  /\ payload = None
  /\ Page_Addr = MAX16
  /\ EraseTime_MIN = 0
  /\ m16i_Blk = 0
  /\ marks = {}
  /\ fresh = ErasedTag
  /\ acked = [s \in Sectors |-> None]
  /\ home = [s \in Sectors |-> 0]
  /\ mapped = {}
  /\ wrapped = FALSE
  /\ torn = {}
  /\ erases = 0
  /\ kills = 0

-----------------------------------------------------------------------------
(* Power on, and the page map.                                             *)

PowerOn ==
  /\ pc = "off"
  /\ pc' = "up"
  /\ UNCHANGED <<flash, mapVars, scanVars, eraseVars, history>>

\* Create_DPM: malloc(0) - the size is cast to uint16_t before the division -
\* so memset fills nothing and the entries are what the heap held.
DPM_Malloc ==
  /\ pc = "up"
  /\ DPM_Table' \in [Sectors -> Heap]
  /\ PageCnt' = 0
  /\ m16i_Blk' = 0
  /\ pc' = "dpm"
  /\ UNCHANGED <<flash, sector, payload, Page_Addr, EraseTime_MIN, eraseVars, history>>

\* What reading a set of pages may give: the pages whose three attempts did not
\* all fail.  Any may fail, because the ECC that is compared with that of the tag
\* is computed over FTL_pageOP_RBuffer and the 240 bytes behind it.
pageOP_Read(pages) == SUBSET pages

\* Read_DPM on the pages in use of one block.  A page whose read fails takes an
\* entry but does not fill it.
DPM_Block ==
  LET inUse == {p \in PagesOf(m16i_Blk) :
                  LET tag == ReadSpare(flash, p) IN tag.used # Clear /\ tag.dirty = Clear}
      entry(p) == (PageCnt + Cardinality({q \in inUse : q < p})) % U16
  IN  /\ \E good \in pageOP_Read(inUse) :
           DPM_Table' = [k \in Sectors |->
             IF \E p \in good : entry(p) = k
               THEN ((CHOOSE p \in good : entry(p) = k) \div DPM_Pages_Per_Blk) % U16
               ELSE DPM_Table[k]]
      /\ PageCnt' = (PageCnt + Cardinality(inUse)) % U16

\* Mutant: a block without bad pages sends Create_DPM back to its start.
Create_DPM_Restarts ==
  /\ pc = "dpm"
  /\ \/ /\ m16i_Blk \in Blocks
        /\ m16i_Blk' = 0
        /\ UNCHANGED <<mapVars, pc>>
     \/ /\ m16i_Blk = BlocksPerChip
        /\ m16i_Blk' = 0
        /\ pc' = "idle"
        /\ UNCHANGED mapVars
  /\ UNCHANGED <<flash, sector, payload, Page_Addr, EraseTime_MIN, eraseVars, history>>

Create_DPM ==
  /\ pc = "dpm"
  /\ \/ /\ m16i_Blk \in BBT_BlkNum   \* goto LOOP
        /\ m16i_Blk' = 0
        /\ UNCHANGED <<mapVars, pc>>
     \/ /\ m16i_Blk \in Blocks \ BBT_BlkNum
        /\ DPM_Block
        /\ m16i_Blk' = m16i_Blk + 1
        /\ UNCHANGED pc
     \/ /\ m16i_Blk = BlocksPerChip
        /\ m16i_Blk' = 0
        /\ pc' = "idle"
        /\ UNCHANGED mapVars
  /\ UNCHANGED <<flash, sector, payload, Page_Addr, EraseTime_MIN, eraseVars, history>>

-----------------------------------------------------------------------------
(* Get_Useful_WPage: the page a sector is stored in.                       *)

\* Mutant: the page in the map is used whether it is free or not.
Get_Mapped_WPage(s, v) ==
  /\ pc = "idle"
  /\ sector' = s
  /\ payload' = v
  /\ mapped' = mapped \ {s}
  /\ Page_Addr' = DPM_Table[s]
  /\ pc' = "program"
  /\ UNCHANGED <<flash, mapVars, EraseTime_MIN, m16i_Blk, eraseVars, acked, home,
                 wrapped, torn>>

\* Mutant: the page in use is marked dirty before its data are stored elsewhere.
Get_WPage_Dirty(s, v) ==
  /\ pc = "idle"
  /\ sector' = s
  /\ payload' = v
  /\ mapped' = mapped \ {s}
  /\ LET old  == DPM_Table[s]
         tag  == ReadSpare(flash, old)
         free == tag.used = Clear /\ old # MAX16
     IN  \/ /\ free
            /\ Page_Addr' = old
            /\ pc' = "program"
            /\ UNCHANGED <<flash, m16i_Blk>>
         \/ /\ ~free
            /\ flash' = WriteSpare(flash, old, [tag EXCEPT !.dirty = Set])
            /\ Page_Addr' = MAX16
            /\ m16i_Blk' = 0
            /\ pc' = "scan1"
  /\ UNCHANGED <<mapVars, EraseTime_MIN, eraseVars, acked, home, wrapped, torn>>

\* The page in the map is used when it is free.  A page that is in use is to
\* be marked dirty, but the code reads its tag again instead of writing it.
Get_Useful_WPage(s, v) ==
  /\ pc = "idle"
  /\ sector' = s
  /\ payload' = v
  /\ mapped' = mapped \ {s}
  /\ LET old  == DPM_Table[s]
         free == ReadSpare(flash, old).used = Clear /\ old # MAX16
     IN  \/ /\ free
            /\ Page_Addr' = old
            /\ pc' = "program"
            /\ UNCHANGED m16i_Blk
         \/ /\ ~free
            /\ Page_Addr' = MAX16
            /\ m16i_Blk' = 0
            /\ pc' = "scan1"
  /\ UNCHANGED <<flash, mapVars, EraseTime_MIN, eraseVars, acked, home, wrapped, torn>>

\* Mutant: the first page of a block is not looked at.
Stops1_NotFirst == {p \in PagesOf(m16i_Blk) \ {m16i_Blk * PagesPerBlock} :
                      LET tag == ReadSpare(flash, p) IN IsBad(tag) \/ IsFree(tag)}

\* Pages of the block at which the inner loop of Dynamic_WL stops: it stops at
\* the first of them.
Stops1 == {p \in PagesOf(m16i_Blk) :
             LET tag == ReadSpare(flash, p) IN IsBad(tag) \/ IsFree(tag)}
Stops2 == {p \in PagesOf(m16i_Blk) :
             LET tag == ReadSpare(flash, p)
             IN  IsBad(tag) \/ tag.erase >= EraseTime_MIN \/ IsFree(tag)}
FirstOf(pages) == {p \in pages : \A q \in pages : p <= q}

\* NAND_MarkBadBlock writes one byte of 48; the rest comes from the stack.  It
\* addresses page BadOffset of the block, not byte BadOffset of its first page.
BadMark(blk) == PageAddr(blk * PagesPerBlock, BadOffset)

NAND_MarkBadBlock(blk) ==
  \E tag \in Garbage : flash' = [flash EXCEPT ![BadMark(blk)].tag = tag]

\* Its counter is a uint16_t and never reaches 65536: the process stays in its
\* loop, that writes far behind the table, or dies of it.
NAND_BuildBBT == pc' = "hung"

\* A bad page of the block: the block is to be marked bad ...
MeetBadPage ==
  /\ pc \in {"scan1", "scan2"}
  /\ m16i_Blk \in Blocks
  /\ \E p \in FirstOf(IF pc = "scan1" THEN Stops1 ELSE Stops2) : IsBad(ReadSpare(flash, p))
  /\ pc' = "mark"
  /\ UNCHANGED <<flash, mapVars, scanVars, eraseVars, history>>

\* ... and the table of bad blocks built anew.
MarkBlockBad ==
  /\ pc = "mark"
  /\ NAND_MarkBadBlock(m16i_Blk)
  /\ NAND_BuildBBT
  /\ UNCHANGED <<mapVars, scanVars, eraseVars, history>>

\* Dynamic_WL takes page p; its number is stored in a uint16_t.
Take(p) ==
  /\ Page_Addr' = p % U16
  /\ EraseTime_MIN' = ReadSpare(flash, p).erase % U16
  /\ wrapped' = (wrapped \/ p >= U16)

\* Mutant: after a block without a free page the first block is looked at again.
ScanFirstAgain ==
  /\ pc = "scan1"
  /\ m16i_Blk \in Blocks
  /\ \/ /\ Stops1 = {}
        /\ UNCHANGED <<Page_Addr, EraseTime_MIN, wrapped>>
     \/ \E p \in FirstOf(Stops1) : ~IsBad(ReadSpare(flash, p)) /\ Take(p)
  /\ m16i_Blk' = 0
  /\ pc' = IF Page_Addr' = MAX16 THEN pc ELSE "scan2"
  /\ UNCHANGED <<flash, mapVars, sector, payload, eraseVars, acked, home, mapped, torn>>

\* The first free page of the chip.
ScanFirst ==
  /\ pc = "scan1"
  /\ m16i_Blk \in Blocks
  /\ \/ /\ Stops1 = {}
        /\ UNCHANGED <<Page_Addr, EraseTime_MIN, wrapped>>
     \/ \E p \in FirstOf(Stops1) : ~IsBad(ReadSpare(flash, p)) /\ Take(p)
  /\ \/ /\ Page_Addr' = MAX16
        /\ m16i_Blk' = m16i_Blk + 1
        /\ UNCHANGED pc
     \/ /\ Page_Addr' # MAX16
        /\ m16i_Blk' = 0
        /\ pc' = "scan2"
  /\ UNCHANGED <<flash, mapVars, sector, payload, eraseVars, acked, home, mapped, torn>>

\* Mutant: the search goes on behind the last block instead of starting again.
FTL_GC_NoRestart ==
  /\ pc = "scan1"
  /\ m16i_Blk = BlocksPerChip
  /\ m16i_Blk' = m16i_Blk + 1
  /\ UNCHANGED <<flash, pc, mapVars, sector, payload, Page_Addr, EraseTime_MIN,
                 eraseVars, history>>

\* No page was found: FTL_GC, then from the start.  When no page is dirty each
\* of the three passes of FTL_GC changes nothing; what it does when a page is
\* dirty is the subject of GC, here the behaviour ends.
FTL_GC ==
  /\ pc = "scan1"
  /\ m16i_Blk = BlocksPerChip
  /\ \/ /\ \A p \in Pages : ReadSpare(flash, p).dirty = Clear
        /\ m16i_Blk' = 0
        /\ UNCHANGED pc
     \/ /\ \E p \in Pages : ReadSpare(flash, p).dirty # Clear
        /\ pc' = "gc"
        /\ UNCHANGED m16i_Blk
  /\ UNCHANGED <<flash, mapVars, sector, payload, Page_Addr, EraseTime_MIN,
                 eraseVars, history>>

\* A younger free page in each of the blocks.
ScanYounger ==
  /\ pc = "scan2"
  /\ m16i_Blk \in Blocks
  /\ \/ /\ Stops2 = {}
        /\ UNCHANGED <<Page_Addr, EraseTime_MIN, wrapped>>
     \/ \E p \in FirstOf(Stops2) :
          /\ ~IsBad(ReadSpare(flash, p))
          /\ IF ReadSpare(flash, p).erase < EraseTime_MIN
               THEN Take(p)
               ELSE UNCHANGED <<Page_Addr, EraseTime_MIN, wrapped>>
  /\ m16i_Blk' = m16i_Blk + 1
  /\ UNCHANGED <<flash, pc, mapVars, sector, payload, eraseVars, acked, home, mapped, torn>>

\* Mutant: the page does not go into the map.
Get_FreeDPage_Unmapped ==
  /\ pc = "scan2"
  /\ m16i_Blk = BlocksPerChip
  /\ LET page == Page_Addr \div DPM_Pages_Per_Blk
     IN  \/ /\ page # MAX16
            /\ Page_Addr' = page
            /\ m16i_Blk' = 0
            /\ EraseTime_MIN' = 0
            /\ pc' = "program"
            /\ UNCHANGED <<sector, payload>>
         \/ page = MAX16 /\ Returned("idle")
  /\ UNCHANGED <<flash, mapVars, eraseVars, history>>

\* The page goes into the map; 0xFFFF tells the caller that there is none.
Get_FreeDPage ==
  /\ pc = "scan2"
  /\ m16i_Blk = BlocksPerChip
  /\ LET page == Page_Addr \div DPM_Pages_Per_Blk
     IN  /\ DPM_Table' = [DPM_Table EXCEPT ![sector] = page]
         /\ \/ /\ page # MAX16
               /\ Page_Addr' = page
               /\ m16i_Blk' = 0
               /\ EraseTime_MIN' = 0
               /\ pc' = "program"
               /\ UNCHANGED <<sector, payload>>
            \/ /\ page = MAX16
               /\ Returned("idle")
  /\ UNCHANGED <<flash, PageCnt, eraseVars, history>>

-----------------------------------------------------------------------------
(* pageOP_Write on the page: data, tag, and a read of both.                *)

\* Outcomes of comparing the ECC of what was read with the ECC of its tag.
EccAgrees(tag, data) == IF Overread THEN BOOLEAN ELSE {tag.ecc = data}

\* The erase count of the page is lost.
TagOf(v) ==
  [bi |-> Clear, used |-> Set, dirty |-> Clear, ecc |-> v, erase |-> MAX32]

\* Mutant: the tag is written before the data.
WriteTagFirst ==
  /\ pc = "program"
  /\ flash' = WriteSpare(flash, Page_Addr, TagOf(payload))
  /\ pc' = "tag"
  /\ UNCHANGED <<mapVars, scanVars, eraseVars, history>>

WritePageData ==
  /\ pc = "program"
  /\ flash' = WriteData(flash, Page_Addr, payload)
  /\ pc' = "tag"
  /\ UNCHANGED <<mapVars, scanVars, eraseVars, history>>

WritePageTag ==
  /\ pc = "tag"
  /\ flash' = WriteSpare(flash, Page_Addr, TagOf(payload))
  /\ torn' = torn \ {Skew(Page_Addr)}
  /\ pc' = "verify"
  /\ UNCHANGED <<mapVars, scanVars, eraseVars, acked, home, mapped, wrapped>>

\* The page was written as it reads: pageOP_Write returns 0.
VerifyPage ==
  /\ pc = "verify"
  /\ TRUE \in EccAgrees(ReadSpare(flash, Page_Addr), ReadData(flash, Page_Addr))
  /\ acked' = [acked EXCEPT ![sector] = payload]
  /\ home' = [home EXCEPT ![sector] = Skew(Page_Addr)]
  /\ mapped' = mapped \cup {sector}
  /\ Returned("idle")
  /\ UNCHANGED <<flash, mapVars, eraseVars, wrapped, torn>>

\* It was not: the page is marked bad and pageOP_Write returns 1.
RejectPage ==
  /\ pc = "verify"
  /\ FALSE \in EccAgrees(ReadSpare(flash, Page_Addr), ReadData(flash, Page_Addr))
  /\ pc' = "markbad"
  /\ UNCHANGED <<flash, mapVars, scanVars, eraseVars, history>>

MarkPageBad ==
  /\ pc = "markbad"
  /\ flash' = WriteSpare(flash, Page_Addr, [ReadSpare(flash, Page_Addr) EXCEPT !.bi = Set])
  /\ Returned("idle")
  /\ UNCHANGED <<mapVars, eraseVars, history>>

-----------------------------------------------------------------------------
(* pageOP_EraseBlk, before anything is stored.                             *)

FirstPage(blk) == blk * PagesPerBlock

\* The bad pages of the block are noted; the tag of its last page is the one
\* that all its pages will get.
pageOP_EraseBlk(blk) ==
  /\ pc = "up"
  /\ erases < MaxErases
  /\ \A s \in Sectors : acked[s] = None
  /\ m16i_Blk' = blk
  /\ marks' = {p \in PagesOf(blk) : IsBad(ReadSpare(flash, p))}
  /\ fresh' = ReadSpare(flash, FirstPage(blk) + PagesPerBlock - 1)
  /\ pc' = IF EraseReaches(FirstPage(blk)) THEN "erase" ELSE "abort"
  /\ UNCHANGED <<flash, mapVars, sector, payload, Page_Addr, EraseTime_MIN, erases, history>>

\* Mutant: only the erase count of the old tag is replaced.
EraseKeepsTag ==
  /\ pc = "erase"
  /\ flash' = EraseBlock(flash, FirstPage(m16i_Blk))
  /\ torn' = torn \ ErasedBy(FirstPage(m16i_Blk))
  /\ fresh' = [fresh EXCEPT !.erase = (fresh.erase + 1) % U32]
  /\ Page_Addr' = FirstPage(m16i_Blk)
  /\ pc' = "retag"
  /\ UNCHANGED <<mapVars, sector, payload, EraseTime_MIN, m16i_Blk, marks, erases,
                 acked, home, mapped, wrapped>>

\* Mutant: the erase count does not wrap.
EraseCountWide ==
  /\ pc = "erase"
  /\ flash' = EraseBlock(flash, FirstPage(m16i_Blk))
  /\ torn' = torn \ ErasedBy(FirstPage(m16i_Blk))
  /\ fresh' = [ErasedTag EXCEPT !.erase = fresh.erase + 1]
  /\ Page_Addr' = FirstPage(m16i_Blk)
  /\ pc' = "retag"
  /\ UNCHANGED <<mapVars, sector, payload, EraseTime_MIN, m16i_Blk, marks, erases,
                 acked, home, mapped, wrapped>>

Nand_EraseBlock ==
  /\ pc = "erase"
  /\ flash' = EraseBlock(flash, FirstPage(m16i_Blk))
  /\ torn' = torn \ ErasedBy(FirstPage(m16i_Blk))
  /\ fresh' = [ErasedTag EXCEPT !.erase = (fresh.erase + 1) % U32]
  /\ Page_Addr' = FirstPage(m16i_Blk)
  /\ pc' = "retag"
  /\ UNCHANGED <<mapVars, sector, payload, EraseTime_MIN, m16i_Blk, marks, erases,
                 acked, home, mapped, wrapped>>

\* Bad_Blk has one bit for every page number modulo 32.
NewTag(page) ==
  [fresh EXCEPT !.bi = IF \E q \in marks : (q - page) % MaskBits = 0 THEN Set ELSE Clear]

Retag ==
  /\ pc = "retag"
  /\ flash' = WriteSpare(flash, Page_Addr, NewTag(Page_Addr))
  /\ torn' = torn \ {Skew(Page_Addr)}
  /\ \/ /\ Page_Addr + 1 \in PagesOf(m16i_Blk)
        /\ Page_Addr' = Page_Addr + 1
        /\ UNCHANGED <<pc, sector, payload, EraseTime_MIN, m16i_Blk, eraseVars>>
     \/ /\ Page_Addr + 1 \notin PagesOf(m16i_Blk)
        /\ Returned("up")
        /\ marks' = {}
        /\ fresh' = ErasedTag
        /\ erases' = erases + 1
  /\ UNCHANGED <<mapVars, acked, home, mapped, wrapped>>

-----------------------------------------------------------------------------
(* Death of the process.                                                   *)

\* The tag of page f was being replaced.
TornTag(f, new) ==
  \E tag \in TornTags(flash[f].tag, new) :
    /\ flash' = [flash EXCEPT ![f].tag = tag]
    /\ torn' = IF tag \in {flash[f].tag, new} THEN torn ELSE torn \cup {f}

\* Some pages of the block were erased and one of them half: its data are no
\* longer those of its tag, which may still be whole.
TornErase ==
  \E done \in SUBSET ErasedBy(FirstPage(m16i_Blk)), f \in ErasedBy(FirstPage(m16i_Blk)) :
    \E tag \in TornTags(flash[f].tag, ErasedTag) :
      /\ flash' = [g \in PhysicalPages |->
                     IF g = f THEN [data |-> Partial, tag |-> tag]
                     ELSE IF g \in done THEN ErasedPage ELSE flash[g]]
      /\ torn' = (torn \ done) \cup {f}

\* What is lost with the process: its call, the page map, its locals.
Death ==
  /\ pc # "off"
  /\ kills < MaxKills
  /\ kills' = kills + 1
  /\ Returned("off")
  /\ DPM_Table' = [s \in Sectors |-> 0]
  /\ PageCnt' = 0
  /\ marks' = {}
  /\ fresh' = ErasedTag
  /\ mapped' = {}
  /\ UNCHANGED <<erases, acked, home, wrapped>>

Killed ==
  /\ Death
  /\ \/ UNCHANGED <<flash, torn>>
     \/ /\ pc = "program"
        /\ flash' = WriteData(flash, Page_Addr, Partial)
        /\ UNCHANGED torn
     \/ pc = "tag" /\ TornTag(Skew(Page_Addr), TagOf(payload))
     \/ pc = "retag" /\ TornTag(Skew(Page_Addr), NewTag(Page_Addr))
     \/ pc = "erase" /\ TornErase
     \/ pc = "mark" /\ \E tag \in Garbage : TornTag(BadMark(m16i_Blk), tag)

-----------------------------------------------------------------------------

\* Steps of a process that is in the middle of a call.
Running ==
  \/ Create_DPM
  \/ MeetBadPage \/ MarkBlockBad \/ ScanFirst \/ FTL_GC \/ ScanYounger \/ Get_FreeDPage
  \/ WritePageData \/ WritePageTag \/ VerifyPage \/ RejectPage \/ MarkPageBad
  \/ Nand_EraseBlock \/ Retag

Calls ==
  \/ PowerOn
  \/ DPM_Malloc
  \/ \E s \in Sectors, v \in Payload : <<s, v>> \in Writes /\ Get_Useful_WPage(s, v)
  \/ \E blk \in Blocks : pageOP_EraseBlk(blk)

Next ==
  /\ \/ (Calls \/ Running) /\ UNCHANGED kills
     \/ Killed
  /\ UNCHANGED BBT_BlkNum

Spec == Init /\ [][Next]_vars

\* A thread inside a call is scheduled again and again; nothing obliges the
\* upper layer to make a call, or the process to be started or killed.
FairSpec == Spec /\ WF_vars(Running /\ UNCHANGED <<BBT_BlkNum, kills>>)

-----------------------------------------------------------------------------
(* Properties.                                                             *)

Storing == {"scan1", "scan2", "program", "tag", "verify", "markbad"}
Erasing == {"erase", "retag"}

\* What the variables hold wherever the process is.
VarTypes ==
  /\ flash \in [PhysicalPages -> Content]
  /\ BBT_BlkNum \in SUBSET Blocks
  /\ DPM_Table \in [Sectors -> PageNumbers]
  /\ PageCnt \in PageNumbers
  /\ sector \in Sectors
  /\ payload \in Payload \cup (IF pc \in {"program", "tag", "verify", "markbad"} THEN {}
                              ELSE {None})
  /\ Page_Addr \in IF pc \in Erasing THEN Pages ELSE PageNumbers
  /\ EraseTime_MIN \in PageNumbers
  /\ m16i_Blk \in IF pc \in Erasing \cup {"mark"} THEN Blocks ELSE 0 .. BlocksPerChip
  /\ marks \subseteq Pages
  /\ fresh \in Tag
  /\ acked \in [Sectors -> Payload \cup {None}]
  /\ home \in [Sectors -> PhysicalPages]
  /\ mapped \subseteq Sectors
  /\ wrapped \in BOOLEAN
  /\ torn \subseteq PhysicalPages
  /\ erases \in Nat
  /\ kills \in Nat

\* The types of the variables: of the numbers kept in a uint16_t, and of the
\* locals while the call they belong to is running.
TypeOK ==
  /\ VarTypes
  /\ pc \in {"off", "up", "dpm", "idle", "gc", "abort", "mark", "hung"} \cup Storing \cup Erasing
  /\ pc \in Storing => payload \in Payload

\* Data are programmed before the tag that declares them valid, so a page that
\* is valid holds the data its ECC was computed from, whenever the process was
\* killed: unless it was killed while it wrote that tag or erased that page, or a
\* page number did not fit its uint16_t (pageOP_Write, pageOP_EraseBlk).
CommittedDataIntact ==
  ~wrapped =>
    \A f \in PhysicalPages \ torn :
      IsValid(flash[f].tag) => flash[f].tag.ecc = flash[f].data

Stored == {s \in Sectors : acked[s] # None}

\* What pageOP_Write returned success for stays on the chip until the sector is
\* stored again, through the storing of other sectors, failed attempts to store
\* this one, and restarts: no other page that is programmed is the same
\* physical page under another number (Get_Useful_WPage, Dynamic_WL).
AckedDurable ==
  ~wrapped =>
    /\ \A s \in Stored :
         /\ flash[home[s]].data = acked[s]
         /\ IsValid(flash[home[s]].tag)
         /\ flash[home[s]].tag.ecc = acked[s]
    /\ \A s, t \in Stored : home[s] = home[t] => s = t

Get_Useful_RPage(s) == DPM_Table[s]

\* Between calls, a sector stored since Create_DPM is read back through the
\* page map as it was stored (Get_Useful_RPage, pageOP_Read).
ReadBack ==
  pc = "idle" /\ ~wrapped =>
    \A s \in mapped : ReadData(flash, Get_Useful_RPage(s)) = acked[s]

\* What FTL looks like to the upper layer: the contents of a sector are those of
\* the page it was stored in, and reading goes through the page map.
SS == INSTANCE SectorStore WITH
  Sector  <- Sectors,
  durable <- [s \in Sectors |-> IF s \in Stored THEN flash[home[s]].data ELSE None],
  view    <- [s \in mapped |-> ReadData(flash, Get_Useful_RPage(s))],
  pending <- IF pc \in Storing THEN {[sector |-> sector, payload |-> payload]} ELSE {},
  sound   <- ~wrapped

\* Storing is atomic and crash-safe: every step of Get_Useful_WPage, Dynamic_WL,
\* pageOP_Write, pageOP_EraseBlk and Create_DPM, and every death of the process
\* in one of them, is a step of SectorStore or changes nothing its users see.
SectorStoreSpec == SS!Spec

\* The strengthenings that make these inductive.  StoreInv: from its choice to
\* the writing of its tag, the page to be programmed is one whose tag says that
\* it is not in use, so a death before the tag leaves the page invalid, and the
\* page is nobody's home.  DurableInv: no page ever turns bad when reads are
\* true, and the map leads to the home of every sector that was stored.
StoreInv ==
  /\ pc = "scan1" => Page_Addr = MAX16
  /\ pc \in {"scan2", "program", "tag"} /\ ~wrapped =>
       ReadSpare(flash, Page_Addr).used = Clear
  /\ pc \in {"tag", "verify"} => ReadData(flash, Page_Addr) = payload
  /\ pc = "verify" => ReadSpare(flash, Page_Addr) = TagOf(payload)
  /\ pc = "retag" => fresh.used = Clear
  /\ CommittedDataIntact

DurableInv ==
  /\ \A f \in PhysicalPages : flash[f].tag.bi = Clear
  /\ marks = {} /\ fresh.bi = Clear /\ pc \notin {"markbad", "mark", "hung"}
  /\ pc \in Erasing \cup {"abort"} => Stored = {}
  /\ pc \in Erasing \cup {"off", "up", "dpm", "abort"} => mapped = {}
  /\ pc \in Storing => sector \notin mapped
  /\ pc \in {"program", "tag", "verify"} => DPM_Table[sector] = Page_Addr
  /\ pc = "verify" /\ ~wrapped => \A s \in Stored : home[s] # Skew(Page_Addr)
  /\ ~wrapped => \A s \in mapped : s \in Stored /\ Skew(DPM_Table[s]) = home[s]
  /\ AckedDurable

\* A page that is free, and that Dynamic_WL can name.
Room ==
  /\ \A p \in Pages : ~IsBad(ReadSpare(flash, p))
  /\ \E p \in Pages : IsFree(ReadSpare(flash, p)) /\ p % U16 # MAX16

\* Dynamic_WL terminates whenever there is room, however the free pages and the
\* erase counts are spread over the blocks.
RoomIsFound ==
  pc = "scan1" /\ Room ~> pc \notin {"scan1", "scan2"}

\* Create_DPM terminates when no block is in the bad block table.
MapIsBuilt ==
  pc = "dpm" /\ BBT_BlkNum = {} ~> pc # "dpm"

-----------------------------------------------------------------------------
(* What the comments of the code say and the code does not do.             *)

\* FTL_DPM.c: Get_Useful_WPage gets "the number of an idle page".
IdlePageIsReturned ==
  pc = "program" => ReadSpare(flash, Page_Addr).used = Clear

\* FTL_DPM.c: a page whose data are to be modified is flagged as dirty data.
OverwrittenPageIsDirty ==
  [][pc = "verify" /\ pc' = "idle" /\ acked[sector] # None /\ home'[sector] # home[sector] =>
       flash'[home[sector]].tag.dirty = Set]_vars
=============================================================================
