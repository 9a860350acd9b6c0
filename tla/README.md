# A formal model of NandFlashSimulator

The program (`src/NandFlashSimulator(0405ok-DMP)/`) is a flash translation layer
(FTL) written against a simulated NAND chip. The chip is a file, accessed through
an `mmap` window. This directory holds TLA+ models of the path a sector takes from
the FTL to that file, TLC configurations that check them on small instances, and
proofs, checked by TLAPS, for every instance.

The program is sequential: no thread is created in the build. What makes it hard is
not interleaving but *death and restart* (the file survives the process, the page
map does not), *address arithmetic* (16 bit page numbers for 131072 pages, skewed
addresses, windows), *stale state* (a map entry, a window, a table that is never
filled) and *termination* of searches written as `goto LOOP`.

## 1. Inventory

| component | source | state | operations | hard behaviour | what makes it correct | module |
|---|---|---|---|---|---|---|
| File | `File/MyFile.c`, `FileAccess.c` | descriptor, `mView`, `pBuffer`, the file | open, flush, close, read, write | ranges across views, failing `mmap`/`munmap`, death inside a `memcpy` | SUCCESS means exactly the range moved; no other byte changes | `MFile`, `FlatFile` |
| NAND simulator | `NandFlash/NandFlash_sim.c` | chip table, chip files | page and spare read/write, block erase, chip and ID load | address conversion, spare offset, FAILURE ignored | one page number, one physical page; erase stays in its block | `NandPages` |
| Driver | `Driver/Driver.c` | none | `Nand_ReadData`, `Nand_WriteSpare`, `Nand_EraseBlock`, ... | page number to chip and page; `AddrInPage` added to a page number | the access reaches the page it names | `NandPages` |
| page operations | `FTL_pageOP/FTL_pageOP.c` | none of its own | read, write, spare read/write, erase block, read/write data | several accesses in sequence, death between them, tag against data | a valid tag describes the data of its page | `FTL`, `GC` |
| page map | `FTL_DPM/FTL_DPM.c` | `DPM_Table`, `DPM_Change_Cfg` | `Create_DPM`, `Get_Useful_WPage`, `Get_Useful_RPage`, `DPM_Date_Move` | entries that name used or foreign pages; restart | the map leads to what was acknowledged last | `FTL`, `GC`, `SectorStore` |
| allocation, GC, wear levelling | `FTL_GC_WL/FTL_GC_WL.c` | none of its own | `Get_FreeDPage`, `Dynamic_WL`, `FTL_GC`, `Static_WL`, `ANTI_Dynamic_WL` | search that may not end; truncation; moving live data; recursion between collection and allocation | only free pages are given out; what collection does not erase survives it; dirty pages become free | `FTL` (allocation), `GC` |
| bad blocks | `FTL_BBM/FTL_BBM.c` | `BBT_BlkNum` | build table, is bad, mark bad, is free, mark used | 16 bit counter up to 65536 | bad blocks are not used | `FTL`, `GC` (as called) |
| ECC | `FTL_ECC/FTL_ECC.c` | none | `nand_calculate_ecc`, `nand_correct_data` | bit arithmetic | one bit corrected, two never miscorrected | `ECC` |
| Bitmap, Thread, File_lib, headers, test | `Bitmap/`, `Thread/`, `File/File_lib.*`, `Hardware/`, `FTL_strInclude/`, `FunctionTest/` | - | - | - | - | not modelled |

Calls go downwards: FTL_DPM -> FTL_GC_WL -> FTL_pageOP (and FTL_BBM) ->
Driver -> NandFlash_sim -> FileAccess -> MyFile, with one exception: FTL_GC and
Static_WL call back into FTL_DPM (`DPM_Date_Move`). The other upward edges are through
global state: `DPM_Table` (filled by FTL_GC_WL), `BBT_BlkNum` and
`DPM_Pages_Per_Blk` (read by FTL_DPM; nothing in the repository sets the last one).
The layer above - a sector interface that calls `Create_DPM`, `Get_Useful_WPage` and
`pageOP_Write` - is not in the repository; neither is a caller of
`nand_correct_data`.

## 2. Modules

| module | what it is |
|---|---|
| `FlatFile` | abstract specification: a byte array that survives the process, one call at a time, torn writes |
| `MFile` | `MyFile.c` under `FileAccess.c`, with the two system calls it depends on |
| `NandPages` | the chip as a function from physical pages to data and tag; address arithmetic of the simulator, driver and page operations; operators only |
| `FTL` | storing sectors: `Create_DPM`, `Get_Useful_WPage`, `Get_FreeDPage`, `Dynamic_WL`, `pageOP_Write`, `pageOP_EraseBlk` on `NandPages` |
| `SectorStore` | abstract specification: what `FTL` promises the upper layer, a store of sectors with atomic, crash-safe writes |
| `GC` | extends `FTL`: `FTL_GC` with its three passes, `DPM_Date_Move`, `Static_WL`, `ANTI_Dynamic_WL`, `pageOP_ReadData`, `pageOP_WriteData` |
| `ECC` | the error correcting code and bit errors |
| `MCMFile`, `MCFTL`, `MCGC`, `MCECC` | instances for TLC |
| `MFileProofs`, `NandPagesProofs`, `FTLProofs`, `StoreProofs`, `GCProofs`, `RoomProofs`, `ECCProofs` | theorems (`RoomProofs` extends `GCProofs`) |

Operators commented `Mutant:` are wrong variants of the definition that follows them.
They are not used by any specification; replacing the definition by its variant shows
that a property notices the bug.

### MFile

`mView` is `pFileInfo->mView`; `pBuffer` is the view really mapped, or one of four bad
pointers (`MAP_FAILED`, an unmapped window, and the `NULL` or garbage of a fresh
`malloc`). A call is `Begin`, `BindView` (the remap at its start), `CopyFirst`,
`ShiftView` and `CopySecond` when the range crosses a view, `Return`: one step between
two points at which a death of the process leaves different files. Reading and writing
share the steps because `MFileRead` and `MFileWrite` differ only in the direction of the
`memcpy`. `Killed` can tear a `memcpy` at any subset of its bytes; `SegmentationFault` is
the copy through a bad pointer. Flush and close leave a handle that never mapped anything
with its `NULL`, and any other with the address of a window that is gone. The death is that of the process: the page cache, and
so every byte copied into the `MAP_SHARED` window, survives.

After a failed call the handle is not to be trusted (a failed `munmap` leaves `mView`
ahead of the mapping, and a later call returns SUCCESS from the wrong view), which is
what the history variable `failed` is for. `FlatFileSpec` needs no such exception when
only `mmap` can fail: the process then dies before it can return SUCCESS.

### NandPages

A page is a data area and a tag (`SPARE_TAG_TYPE`); flags are told apart only as 0xFF
and not 0xFF, the ECC of a tag is named after the contents it was computed from (the
code itself is the subject of `ECC`). `Skew` is the address every `pageOP` function
really uses: it passes `PageNo % BYTE_PER_FILEPAGE` as `AddrInPage`, which the driver
adds to the page *number*. Erases are not skewed. `PhysicalPages` therefore reaches 79
pages beyond the chip, where the file still has room up to its last view.

### FTL

`pc` is the place in the code: `off`, `up` (power on, before the map), `dpm`
(`Create_DPM`, a block per step), `idle`, `scan1` and `scan2` (the two loops of
`Dynamic_WL`, a block per step), `mark` (a bad page was met and its block is about to be
marked), `program`/`tag`/`verify`/`markbad` (`pageOP_Write`), `erase`/`retag`
(`pageOP_EraseBlk`), and three places where nothing more happens:
`hung` (`NAND_BuildBBT`, whose `uint16_t` counter never reaches 65536), `abort` (the
assertion on a chip that is not there), `gc` (garbage collection has something to
collect: module `GC` goes on from there, `FTL` on its own stops). `Killed` may happen at
all of them and may tear the access in progress: data become `Partial`, a tag - that of a
page, of an erased page, or the mark of a bad block - gets any mix of old and new fields,
a block is erased in any subset of its pages and one of them in half. History variables: `acked` and `home` (what a successful
`pageOP_Write` stored for a sector and where), `mapped`, `wrapped` (a free page was found
whose number does not fit), `torn` (pages whose tag was being written, or that were being erased, at a death).

`wrapped` and `torn` restrict the guarantees to what the code can give: a tag is 48
bytes written by one `memcpy`, and no code detects a torn one; a page half erased may
have lost data under a tag that is still whole; and once a page number is
truncated any page may be overwritten (finding `idlepage`).

What is assumed of the surroundings:

* The chip image is formatted (all 0xFF) by somebody: a file that `MFileOpen` creates
  reads as zeroes, that is, every page bad. `Prefilled` pages were used by an earlier
  life and hold a valid tag.
* The upper layer sets `BBT_BlkNum` and `DPM_Pages_Per_Blk`, erases blocks only before
  it stores anything, stores one sector at a time, and gives up a store at 0xFFFF.
* `Overread = FALSE`: the 240 bytes behind the caller's buffer, which the ECC of
  `pageOP_Write` includes, do not change between its two computations.
  `Overread = TRUE`: they may. The read of `Read_DPM` (behind its own static buffer, at
  another time than the write) may always fail.
* `malloc` in `Create_DPM` gets size 0 (`(uint16_t)131072 / DPM_Pages_Per_Blk`), so the
  memset fills nothing: an entry is any of the values in `Heap`. That the table lies
  outside its chunk is taken to be harmless otherwise.
* `Writes` names which contents the upper layer stores for which sector; a run may
  narrow it to bound the states, the theorems hold for any.
* `NAND_MarkBadBlock` writes one byte of its own and 47 of the stack into a tag: a tag
  of `Garbage`, a set of tags with the bad flag set.
* `0x0001 << m8i` for `m8i >= 32` is the shift by `m8i % 32` of x86 (undefined in C).
* An access of the chip does not fail (`MFile` shows that SUCCESS is exact; the
  simulator ignores FAILURE). A window that cannot be mapped kills the process in its
  `memcpy`, and a death is possible at every access.

### SectorStore

What the upper layer sees of `FTL` while page numbers fit 16 bits: `durable`, the
contents of each sector; `view`, what reading gives for the sectors stored since the
process started; `pending`, the store in progress; `sound`, whether the promise still
holds. `Commit` changes both functions at once, `Fail` and `Crash` leave `durable`
alone. The mapping (`SS` in `FTL`) looks at the chip: `durable` is what the page holds
that the last successful store of a sector went to, `view` what the map leads to.
`Void` is the step in which a page number is truncated.

### GC

`FTL_GC` runs when the upper layer calls it, when `Dynamic_WL` or `ANTI_Dynamic_WL` find
no free page, and calls `Dynamic_WL` itself for the targets of moves. `pc` is the place
in `FTL`'s functions, `place` the place in this module's: the three passes (a block per
step), `search2` and `search3` (the pages to move, one per step), `alloc`, `copy`,
`spoil`, `retire` (`DPM_Date_Move`), `rare` (the search of `Static_WL` for a block
erased rarely, a block per step), `wear` (its pages to move), `anti` (the first loop of
`ANTI_Dynamic_WL`) and `old` (its second loop, a block per step). A block is erased by the same steps as in `FTL` (`Nand_EraseBlock`,
`Retag`). `gc`, `mv` and `wl` are the locals of the three functions. `overflow` is the
stack of a recursion that does not end. `lost` is a history variable: the sectors whose
page was in reach of an erase, of a move of pass 3, or of a bad block mark. An erase adds
to it only when the tags justify it: the block has a dirty page then, or had one when
pass 2 noted its live pages (`gc.had`, which the code does not keep: a move of its own may
have changed the tags since). A pass that comes to a block by anything else than its
tags destroys sectors that are not in `lost`.

* Nothing of `FTL` makes a page dirty (finding `dirty`), so on its own the code has
  nothing to collect. `Discard` is the upper layer giving up a sector and setting the
  flag itself, as `Get_Useful_WPage` means to. `MaxChurn` bounds these calls.
* `pageOP_ReadData` compares the ECC with bytes in front of the tag that no writer of a
  tag fills: writing a tag makes them zero, which no ECC has as its third byte. So it
  fails for every page with a tag, and may come out either way where none was written
  (`ErasedTag`): a verified copy of a page with data does not exist in the code, and
  every move of a live page ends in `SpoilTarget`. `RetireSource` runs when the source
  is an erased page, as pass 3 and the static wear levelling choose.
* An entry of the page map beyond the sectors the upper layer stores is not known
  (`MayHold`); pass 2 looks at the first `PagesPerBlock` entries only, which
  `GCAssumption` requires to be sectors.

### ECC

Bytes are sets of bit positions. The loop of `nand_calculate_ecc` is the recursive
function `parity` of `ParitiesOf`, one round of it `AddByte`; the additions of
`nand_correct_data` are the function `sum` of `Number`. The entries of
`column_parity_table` are computed. Bits of data and of the
stored code change (`FlipData`, `FlipCode`), then `nand_correct_data` runs on what was
read.

## 3. Properties and runs

| run | question | bounds |
|---|---|---|
| `MCMFile_all` | `SuccessIsExact`, `NoStrayWrite`, `IInv` under failing `open`, `mmap`, `munmap` and deaths | views of 2 bytes, a file of 5 bytes = 2.5 views (the proportion of the real 10 MiB image and 4 MiB view), ranges of up to 2 bytes = a view |
| `MCMFile_refines` | `MFile` implements `FlatFile` with failing `mmap` | the same |
| `MCFTL_store` | committed data intact, acknowledged data durable, read back, and the refinement of `SectorStore`, over repeated stores of two sectors, with a bad block table or none | 4 blocks of 2 pages, 4 prefilled; `FilePage = 2`, so that half the pages are skewed; `U16 = 4`, so that half the pages have numbers that do not fit; 2 deaths, 1 erase; the map may start with the entries 2, a page, or 3, the value 0xFFFF of this chip (`Heap`) |
| `MCFTL_faults` | committed data intact when verification may fail, so that bad pages and blocks are met; `RoomIsFound`, `MapIsBuilt` with fairness | the same chip, 1 sector, 1 death, 1 erase; a tag from the stack has an erase count of 0 or all ones |
| `MCGC_collect` | `CommittedDataIntact`, `CleanDataSurvives`, `CollectsOnlyWhenFull`, `RoomAfterGC`, `OverflowRepeats` over stores, collections and wear levelling | 2 blocks of 3 pages, `FilePage = 4`, so that pages 2 and 4, and 3 and 5, share a physical page; 3 sectors, each with contents of its own, so that one stored over another shows; `CleanBits = 1` of 3 pages and `MaskBits = 2`; 2 pages made dirty or calls of `Static_WL`, any number of stores and of calls of `FTL_GC` |
| `MCGC_crash` | `CommittedDataIntact` and `CleanDataSurvives` of the same with deaths | the same chip, pages 1 and 2 prefilled, 2 of the 3 sectors stored, 2 payloads, 1 death, 1 page made dirty; `BadOffset = 3`, so that the mark of a bad block reaches a page in use |
| `MCGC_live` | `GcReturns`, `RoomIsMade` with fairness | 2 blocks of 2 pages, 2 sectors, 2 pages prefilled, 1 death, 2 pages made dirty |
| `MCECC_flips` | one flip corrected, two not miscorrected, erased page agrees | 4 bytes of 8 bits, each of three bytes of either parity; up to 2 flips anywhere in data and code; the code is linear, so which bits changed decides the outcome and the contents do not |

The bounds keep each interesting case: a range inside, up to and across a view; the last,
half-used view; a page number that wraps; a skewed page that is another block's; a page
map entry that names a page in use, a free page, or another sector's page; a death in
each access; a block all dirty, mostly dirty, and with one dirty page; a live page that
`clean_cfg` has no bit for, one the map does not name, and one that is moved; a block
that an erase cannot reach (half the blocks, as blocks from 32 on are on the real chip);
no page left for a move; a sector that survives a death inside the erase of another's block
(pages 3 and 5 are one page, outside the reach of the erase of block 0), one that survives
a death between the tags after it, and one that the mark of a bad block destroys. Two
payloads suffice where any may be stored, because the properties compare contents for
equality only (and they are symmetric); `MCGC_collect`, where each sector has its own,
takes three. The type invariant of a module is checked by one run
(`MCMFile_all`, `MCFTL_store`, `MCGC_collect`, `MCECC_flips`) and proved for all. Deadlock is not checked in the FTL runs where
the process may hang or abort after its last death, nor in ECC, where one correction
ends a behaviour.

One disjunct has no step within these bounds: the return of `Static_WL` after it has
moved the last page (in `Static_WL_Moves`). A page with data has the erase count
0xFFFFFFFF, from which `Static_WL` computes a page beyond the chip, and the process
aborts; it takes a torn tag with a small count and two collections to get to the return.

Fairness (`FairSpec`, `GCFairSpec`): a process inside a call is scheduled again and
again, which a sequential program on any scheduler is. It is weak fairness of the whole
disjunction of the steps inside a call: one of them is enabled until the call returns,
hangs or aborts. Nothing obliges the upper layer to make a call or the process to be
started. The liveness properties are about a call that runs: it ends, when there is a
free page whose number fits and no bad page (`RoomIsFound`), when the bad block table is
empty (`MapIsBuilt`), when collection has nothing to move (`GcReturns`), and a store that
waits for collection gets a page then (`RoomIsMade`). Collection with pages to move is
left out because it need not end: every copy fails its verification, and the recursion
into `Dynamic_WL` does not return when pages run out (`OverflowRepeats`).

### Findings

Each is a run that checks one statement of a comment and finds it violated.

| run | the code | the comment |
|---|---|---|
| `MCMFile_mapfail` | the result of `mmap` is compared with `NULL` (`MyFile.c:113`, 139, 174, 201): a failure leads to a `memcpy` through `MAP_FAILED` | "MapViewOfFile Failure", return FAILURE |
| `MCFTL_idlepage` | `uint16_t Page_Addr` (`FTL_GC_WL.c:189`) truncates page numbers from 65536 on: a page in use is given out | "get the number of an idle page" (`FTL_DPM.c:101`) |
| `MCFTL_dirty` | the tag of the old page is read again instead of written (`FTL_DPM.c:128`) | "flag it as dirty data" (`FTL_DPM.c:126`) |
| `MCGC_liveerased` | `FTL_GC` erases a block with valid data it has not moved: pages without a bit in the 8 of `clean_cfg` (`FTL_GC_WL.c:250`), pages not named by the first 64 map entries (line 351), and nearly all pages in pass 3 (line 419) | "move the valid data away" before "erase this block" (`FTL_GC_WL.c:382`) |

Further behaviour of the modelled code that its comments do not say, visible in the
same model but without a run of its own:

* With nothing free and nothing dirty `Dynamic_WL` repeats `goto LOOP` for ever
  (`FTL_GC_WL.c:205`); its comment promises 0xFFFF (line 160).
* The second loop of `Dynamic_WL` leaves a block at its first page that is not younger,
  free or not, and a used page has the count 0xFFFFFFFF (`FTL_GC_WL.c:222`,
  `FTL_pageOP.c:91`): the page it finds is not "the youngest" (line 154).
* A block in the bad block table makes `Create_DPM` start over for ever
  (`FTL_DPM.c:79`); block 0 is in a zero-initialised table that was not built.
* `Create_DPM` rebuilds the table in page order (`FTL_DPM.c:89-90`): after a restart it
  does not lead to the sectors that were stored.
* The tags written after an erase go to skewed pages, of other blocks
  (`FTL_pageOP.c:269`); its comment speaks of the data of one block (line 227).
* The chip of an erase is `PageNo / BLOCKS_PER_CHIP` (`Driver.c:203`): from block 32 on
  the assertion on the chip file aborts; the comment says "find the block of this page
  and delete it" (line 194).
* `Static_WL` computes the page to move from the erase count in place of the block
  (`FTL_GC_WL.c:134`).
* `DPM_Size` is 0, so `DPM_Date_Move` never updates the map (`FTL_DPM.c:178`).
* The verification of a moved page fails for every page with a tag (`FTL_pageOP.c:189`),
  and a good target is marked bad (`FTL_pageOP.c:220`), from whose mark the next search
  enters the loop of `NAND_BuildBBT`.
* Pass 3 hands `DPM_Date_Move` the number of a map entry as source and the live page as
  target (`FTL_GC_WL.c:425`).
* `Get_Useful_WPage` looks at the used flag only (`FTL_DPM.c:119`) and gives out a page
  whose bad flag is set.

## 4. Proofs

For every value of the constants that satisfies the named assumptions of the modules:

* `MFileProofs`: `IInv` is inductive (`Invariance`). It strengthens `SuccessIsExact` by
  what a call in progress relies on: the view recorded is the view mapped unless a call
  failed (`WindowInv`), the view recorded is the one the step needs (`CallInv`), and
  the first part has been copied before the window moves (`ProgressInv`). From it follow
  `TypeCorrectness`, `SuccessExact`, `NoByteAstray` (a step moves bytes only at
  `base + i = call.addr + i`) and `Refinement`, that has one case per action: opening,
  closing and death map to `Forget`, the two copies to `Transfer`, the rest to `Begin`,
  `Return`, `Fail` or stuttering. `Refinement` assumes that only `mmap` fails, because a
  failed `munmap` lets a later SUCCESS come from the wrong view.
* `NandPagesProofs`: the address conversion is the identity (`ConvertIsIdentity`), the
  skewed address of every page the FTL names is inside the file (`SkewInFile`), the bytes
  of an erase are those of one block (`ErasedIsBlock`).
* `FTLProofs`: `TypeCorrectness`; `DataCommitted`, that `CommittedDataIntact` holds,
  through `StoreInv`: from its choice until its tag is written the page to be programmed
  is marked unused, so that a death before the tag leaves it invalid; `AckedIsDurable` and
  `ReadsBack`, through `DurableInv`: when reads are true no page turns bad, erases are
  over before the first store, the page chosen is nobody's home since homes are marked
  used, and the map leads from each stored sector to its home.
  The assumption `DPM_Pages_Per_Blk = 1` is needed: with more pages per entry
  `Get_FreeDPage` returns the number of an entry, which its caller uses as the number of
  a page. `Overread = FALSE` is needed for the last two: a page that is rejected is marked
  bad, and Dynamic_WL then writes a tag of garbage over page `BadOffset` of its block.
* `StoreProofs`: `StoreRefinement`, that `FTL` implements `SectorStore`, under the same
  two assumptions. While page numbers fit, `DurableInv` makes the mapped functions equal
  to the history variables `acked` and `mapped` (`ShownNow`, `ShownNext`), so a step
  need only be looked at for what it does to those and to `pc`: each action begins,
  commits or fails a store, is a death, or is not seen (`StepSeen`, one case per action).
  The refinement holds although the pages programmed, marked and erased on the way
  alias each other, because `DurableInv` speaks of physical pages.

* `GCProofs`: `GCTypes`, `GCDataCommitted` (`CommittedDataIntact`) and `CleanSurvives`
  (`CleanDataSurvives`), for every geometry, any number of sectors and of deaths, with
  or without true reads. The inductive invariant is `GCTypeOK`, `StoreInv`, `PlaceInv`
  and `SurviveInv`. `PlaceInv` says which `pc` goes with which `place`; `SurviveInv` what
  the process knows at that place of the pages it is about to write: a page it programs
  or copies to is unused, so nobody's home; a block it erases holds the home of no sector
  outside `lost`; a source it retires has an erased tag. A death may come before any of
  these writes, which is why the invariant has to speak about the place and not about
  the call as a whole. The steps shared with `FTL` reuse the lemmas of `FTLProofs`,
  which are stated with the types both modules have in common (`VarTypes`).

* `RoomProofs`: what `FTL_GC` leaves to its callers.
  `RoomIsLeft` (`RoomAfterGC`) rests on `RoomInv`: whatever a pass collects or moves
  leaves a page that is free or bad, and as long as there is none, nothing has been
  collected and a page that was dirty at the call still is; in pass 3 it is one of those
  not yet looked at. A page that is bad is not enough for the caller, which is
  why the property excludes bad pages and the invariant cannot.
  `RecursionRepeats` (`OverflowRepeats`) rests on `PassInv`, what the passes have found of
  the blocks behind them while there is no such page, and on `OverflowInv`, that at the
  second call of `Dynamic_WL` there is none. That comes from `SearchInv`, which also gives
  `CollectedWhenFull` (`CollectsOnlyWhenFull`): the blocks that `Dynamic_WL` has looked at
  hold no free or bad page, except one whose number is `MAX16` modulo `U16`, which the
  code takes for none found.
  `OverflowRepeats` is `FirstMove` with nothing free or bad: the block being collected is
  the first that pass 2 would collect, the page whose move failed the first of its noted
  pages that one of the entries searched names, and the entry the first of those. `FTL_GC`
  called again passes the same blocks, as nothing changed, and comes to it. For that
  `PassInv` also says where the search of pass 2 starts - with all noted pages, at the
  first page and entry - so that the first pair it stops at is the first of all.
  These two theorems name what they need of the page numbers. `UnfoundAreLast`: such a
  page is the last of its block; otherwise `Dynamic_WL` would stop there and never see the
  pages behind it. `UnfoundAreOthers`: it is physically another page as well, under which
  it is found; otherwise the chip could be left with a free page that cannot be named,
  `FTL_GC` would call `Dynamic_WL` for ever with a free page on the chip, and `FreeOrBad`
  would hold. `ChipHasOthers` proves both for the geometry of the code (64 pages to
  a block, 2048 blocks, `FilePage` 80, 16 bits): 65535 is also 65495, 131071 also 131031.
  Two more theorems are about that chip: an erase reaches blocks 0 to 31 and no
  other (`ErasableBlocks`), and the page map does not change while pages are moved
  (`MapIsNotUpdated`).
* `ECCProofs`: `TypeCorrectness`, `OneFlip`, `TwoFlips` and `ErasedPage`, all invariants of
  `ECC`, for every number of bytes and columns, every contents and every bits that change.
  The invariant adds `FlipInv`: which bits of the data and how many of the code have
  changed. `CodeOfFlip` is the heart: a change of one bit changes exactly one
  of each pair of parities, and which one of each pair spells the number of the byte and
  of the bit. So one changed bit gives `SingleBit` and its own place; two changed bits of
  data give the sum of two such codes, in which both of a pair differ or neither; a data
  bit and a parity leave such a pair, or (one of the two unused bits of the code) are put
  right; two bits of the code are too few, as it has at least three pairs. What the loops
  compute is proved by induction: a set with 0 and, with every number, the next has all
  of them (`Induction`, from the well-foundedness of `<`, without the library's schemes
  over operators), and a loop has a trace of its rounds (`LoopHasTrace`), which its
  recursive function therefore is.
  `ECCAssumption` asks for at least four bits to a byte (`ColBits >= 2`): on two bytes of
  two bits the code has two pairs, and two changed bits of the code, one of each pair,
  are taken for a bit of the data. A byte of the program has eight.

Every invariant that a passing run checks is proved. Only model-checked are the liveness
properties `RoomIsFound`, `MapIsBuilt`, `GcReturns` and `RoomIsMade` (fairness and
`ENABLED` are out of the prover's reach), and the four statements of comments that the
runs refute.

## 5. Not modelled

* The start of the simulator is one step, `PowerOn`, that stands for the return of
  `NandSimInit`. What it calls (`NandFlashSetup`, `NandLoadChip`, `NandFilesInit`) is not
  modelled: with the one chip of `NandSetParam` it always builds the same table, the
  counters it clears (`mBlkErsCnt`, `mPageRdCnt`) are never read, and the 1 that
  `NandFilesInit` returns when a file cannot be opened is dropped by `NandSimInit`
  (`MFile` models the failing open).
* `NAND_IsBadBlock` is only called behind the first loop of `NAND_BuildBBT`, which does
  not end; `NAND_IsFreeBlock`, `NAND_MarkUsedBlock`, `Nand_ReadID` and `Nand_PageCopy`
  have no caller but the manual test.
* A `munmap` that fails under the FTL: `MFile` models it, the FTL modules do not.
* Bit errors under the FTL: no function of the FTL calls `nand_correct_data`; `ECC`
  models it on its own. The verdict of `pageOP_Read` is open (it may fail for any page), and `ReadBack` is about
  the data it delivers.
* What the hazards without a property (`PROJECT.json`) name: steps whose modelled effect
  contradicts no statement of the repository, or where the code itself does what a
  property would have to exclude.
* `Thread/` (vendored, not in the build), `Bitmap/` (three pure helpers), `File_lib.*` and
  the headers (constants), `FunctionTest/` (input and output).
