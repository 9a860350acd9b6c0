----------------------------- MODULE NandPages ------------------------------
(***************************************************************************)
(* The simulated NAND array as the FTL sees it: NandFlash_sim.c under      *)
(* Driver.c under the accessors of FTL_pageOP.c.  A chip image is a        *)
(* function from physical pages to their contents; every operation of this *)
(* module is an operator on chip images.                                   *)
(*                                                                         *)
(* A page holds its data and, in its spare area, the tag of FTL_Struct.h.  *)
(* The 16 bytes that Nand_WriteSpare leaves in front of the tag are not    *)
(* modelled: only pageOP_ReadData and pageOP_WriteData look at them.       *)
(***************************************************************************)
EXTENDS Integers, FiniteSets

CONSTANTS
  PagesPerBlock,  \* MAX_PAGES_PER_BLOCK, 64
  BlocksPerChip,  \* MAX_BLOCKS_PER_CHIP and BLOCKS_PER_CHIP, 2048
  FilePage,       \* BYTE_PER_FILEPAGE, 80: bytes of a page in the chip image
  U16,            \* number of values of a uint16_t
  MaskBits,       \* bits of an int, 32
  Payload,        \* contents an upper layer stores
  Garbage         \* bad tags filled in from an uninitialised SPARE_TAG_TYPE

PagesPerChip == BlocksPerChip * PagesPerBlock

ASSUME NandAssumption ==
  /\ PagesPerBlock \in Nat \ {0}
  /\ BlocksPerChip \in Nat \ {0}
  /\ BlocksPerChip % 2 = 0   \* two planes
  /\ FilePage \in Nat \ {0}
  /\ U16 \in Nat \ {0}
  /\ MaskBits \in Nat \ {0}

Blocks == 0 .. BlocksPerChip - 1
Pages  == 0 .. PagesPerChip - 1

\* Contents of a data area that are nobody's payload, and the ECC field of a
\* tag that was never computed.
Erased  == "erased"     \* every byte 0xFF
Partial == "partial"    \* the process died while it was being written

\* The flags of a tag are bytes; only 0xFF and not 0xFF are told apart.
Clear == "0xFF"
Set   == "not 0xFF"
Flag  == {Clear, Set}

U32 == U16 * U16
MAX32 == U32 - 1
MAX16 == U16 - 1

\* SPARE_TAG_TYPE: bad flag, used flag, dirty flag, erase count, and the ECC,
\* named after the contents it was computed from.
Tag == [bi : Flag, used : Flag, dirty : Flag,
        ecc : Payload \cup {Erased}, erase : 0 .. MAX32]

ErasedTag ==
  [bi |-> Clear, used |-> Clear, dirty |-> Clear, ecc |-> Erased, erase |-> MAX32]

ErasedPage == [data |-> Erased, tag |-> ErasedTag]

Content == [data : Payload \cup {Erased, Partial}, tag : Tag]

ASSUME GarbageAssumption == Garbage \subseteq {t \in Tag : t.bi = Set}

-----------------------------------------------------------------------------
(* Addresses.                                                              *)

\* ConvertPageAddr: the chip has two planes of half its blocks each.
ConvertPageAddr(page) ==
  LET blocksPerPlane == BlocksPerChip \div 2
      blk   == page \div PagesPerBlock
      plane == blk \div blocksPerPlane
  IN  (page % PagesPerBlock)
        + ((blk % blocksPerPlane) + plane * (BlocksPerChip \div 2)) * PagesPerBlock

\* Nand_Read, Nand_ReadSpare, Nand_Write, ...: the argument AddrInPage is added
\* to the number of the page.
PageAddr(PageNo, AddrInPage) == ConvertPageAddr(PageNo + AddrInPage)

\* Every pageOP function passes PageNo % BYTE_PER_FILEPAGE for AddrInPage.
Skew(PageNo) == PageAddr(PageNo, PageNo % FilePage)

\* Physical pages an access can reach; those beyond PagesPerChip lie between
\* the end of the chip and the end of the last view of its file.
PhysicalPages == 0 .. PagesPerChip + FilePage - 2

\* Nand_EraseBlock divides the page number by BLOCKS_PER_CHIP to get its chip;
\* there is one chip, and the assertion on a chip that is not there aborts.
EraseReaches(PageNo) == PageNo \div BlocksPerChip = 0

\* NandEraseFromBlock: the pages whose bytes are the range written with 0xFF.
ErasedBy(PageNo) ==
  LET block == ConvertPageAddr(PageNo) \div PagesPerBlock
  IN  block * PagesPerBlock .. block * PagesPerBlock + PagesPerBlock - 1

-----------------------------------------------------------------------------
(* Operations on a chip image, through the skewed address.                 *)

ReadSpare(flash, PageNo) == flash[Skew(PageNo)].tag
ReadData(flash, PageNo)  == flash[Skew(PageNo)].data

WriteSpare(flash, PageNo, tag) ==
  [flash EXCEPT ![Skew(PageNo)].tag = tag]

WriteData(flash, PageNo, data) ==
  [flash EXCEPT ![Skew(PageNo)].data = data]

\* Nand_Write of a full page: its data and its tag in one transfer.
WritePage(flash, PageNo, page) ==
  [flash EXCEPT ![Skew(PageNo)] = page]

\* Nand_Read and Nand_Write compute the chip of a page with PAGES_PER_CHIP; the
\* assertion on a chip that is not there aborts.
PageReaches(PageNo) == PageNo \div PagesPerChip = 0

EraseBlock(flash, PageNo) ==
  [f \in PhysicalPages |->
     IF f \in ErasedBy(PageNo) THEN ErasedPage ELSE flash[f]]

\* What a process that dies inside the memcpy of a tag leaves: each field is
\* the old one or the new one.
TornTags(old, new) ==
  [bi : {old.bi, new.bi}, used : {old.used, new.used},
   dirty : {old.dirty, new.dirty}, ecc : {old.ecc, new.ecc},
   erase : {old.erase, new.erase}]

-----------------------------------------------------------------------------
(* What the tag of a page says.                                            *)

IsBad(tag)   == tag.bi # Clear
IsFree(tag)  == tag.bi = Clear /\ tag.used = Clear
IsValid(tag) == tag.bi = Clear /\ tag.used # Clear /\ tag.dirty = Clear

PagesOf(blk) == blk * PagesPerBlock .. blk * PagesPerBlock + PagesPerBlock - 1
=============================================================================
