------------------------------- MODULE MFile --------------------------------
(***************************************************************************)
(* File/MyFile.c: the chip image accessed through one mmap window of       *)
(* VIEW_SIZE bytes that slides over the file.                              *)
(*                                                                         *)
(* The process is sequential; a step here is the code between two points   *)
(* where the file can be observed after the death of the process (the file *)
(* is mapped MAP_SHARED, so every byte copied into the window is in the    *)
(* page cache at once and outlives the process).                           *)
(***************************************************************************)
EXTENDS Integers

CONSTANTS
  VIEW_SIZE,  \* MyFile.h: bytes of the window
  mFileSize,  \* size the handle was created with
  MaxSize,    \* longest range the NAND simulator asks for (one block)
  Byte,       \* values of a byte
  Zero,       \* the byte '\0'
  Faults      \* system calls that may fail: subset of {"open","mmap","munmap"}

\* MFileOpen rounds the size of the file up to a whole number of views.
fileSize ==
  IF mFileSize % VIEW_SIZE = 0
    THEN mFileSize
    ELSE (mFileSize \div VIEW_SIZE + 1) * VIEW_SIZE

ASSUME MFileAssumption ==
  /\ VIEW_SIZE \in Nat \ {0}
  /\ mFileSize \in Nat \ {0}
  /\ MaxSize \in 1 .. VIEW_SIZE
  /\ Zero \in Byte
  /\ Faults \subseteq {"open", "mmap", "munmap"}

VARIABLES
  disk,     \* contents of the file: survives the process
  opened,   \* MFileOpen was called on the handle and MFileClose was not
  hFile,    \* TRUE: hFile is a valid descriptor
  mView,    \* pFileInfo->mView: the view the handle believes is mapped
  pBuffer,  \* pFileInfo->pBuffer: the view really mapped, or a bad pointer
  pc,       \* where the current call is
  call,     \* the current call, or the last one, with the caller's buffer
  status,   \* "none", "busy", or what the last read or write returned
  failed    \* some call since the last successful open returned FAILURE

vars == <<disk, opened, hFile, mView, pBuffer, pc, call, status, failed>>

\* Values of pBuffer that are not the number of a mapped view.
MapFailed == -1   \* MAP_FAILED
Dangling  == -2   \* the address of a window that was unmapped
Null      == -3   \* NULL: the fresh struct of malloc held zeroes
Wild      == -4   \* the fresh struct of malloc held something else
BadPointer == {MapFailed, Dangling, Null, Wild}

Offset == call.addr % VIEW_SIZE

\* Mutant: the view before the one that holds the address.
ViewBefore == (call.addr \div VIEW_SIZE) - 1

View == call.addr \div VIEW_SIZE

\* Indexes of the caller's buffer on either side of the view boundary.
FirstPart  == {i \in 0 .. call.size - 1 : Offset + i < VIEW_SIZE}
SecondPart == {i \in 0 .. call.size - 1 : Offset + i >= VIEW_SIZE}

Crosses == call.size + Offset > VIEW_SIZE

\* The file seen by its users: without the byte that extends it.  What has
\* still to travel follows from where the call is.
fileBytes == [a \in 0 .. fileSize - 1 |-> disk[a]]

toCopy ==
  CASE pc \in {"bind", "copy"}   -> FirstPart \cup SecondPart
    [] pc \in {"shift", "copy2"} -> SecondPart
    [] OTHER                     -> {}

FF == INSTANCE FlatFile WITH Len <- fileSize, store <- fileBytes, todo <- toCopy

Calls  == FF!Calls
NoCall == FF!NoCall

Init ==
  /\ disk = [a \in 0 .. fileSize |-> Zero]
  /\ opened = FALSE
  /\ hFile = FALSE
  /\ mView = 0
  /\ pBuffer \in {Null, Wild}
  /\ pc = "idle"
  /\ call = NoCall
  /\ status = "none"
  /\ failed = FALSE

-----------------------------------------------------------------------------
(* The two system calls.  munmap refuses MAP_FAILED (it is not a page      *)
(* address), accepts a range that is no longer mapped, and can run out of  *)
(* memory; mmap refuses a bad descriptor and can run out of memory.        *)

MunmapOutcomes ==
  IF pBuffer = MapFailed THEN {FALSE}
  ELSE IF pBuffer = Wild \/ "munmap" \in Faults THEN BOOLEAN
  ELSE {TRUE}

MmapOutcomes(view) ==
  IF ~hFile THEN {MapFailed}
  ELSE IF "mmap" \in Faults THEN {view, MapFailed} ELSE {view}

Fail ==
  /\ pc' = "idle"
  /\ status' = "FAILURE"
  /\ failed' = TRUE

\* Unmap the window and map another view.  A failing munmap makes the call
\* return FAILURE.  A failing mmap does not: it is compared with NULL, which
\* mmap never returns.
Remap(view, nextpc) ==
  \/ /\ FALSE \in MunmapOutcomes
     /\ Fail
     /\ UNCHANGED pBuffer
  \/ /\ TRUE \in MunmapOutcomes
     /\ pBuffer' \in MmapOutcomes(view)
     /\ pc' = nextpc
     /\ UNCHANGED <<status, failed>>

-----------------------------------------------------------------------------
(* Opening, flushing and closing.                                          *)

\* open() failed: hFile is -1 and pBuffer keeps what it held.
OpenRefused ==
  /\ "open" \in Faults
  /\ hFile' = FALSE
  /\ failed' = TRUE
  /\ UNCHANGED <<disk, pBuffer>>

\* Mutant: the byte that extends the file overwrites its last byte.
OpenOverLastByte ==
  /\ hFile' = TRUE
  /\ disk' = [disk EXCEPT ![fileSize - 1] = Zero]
  /\ pBuffer' \in {0} \cup (IF "mmap" \in Faults THEN {MapFailed} ELSE {})
  /\ failed' = (pBuffer' = MapFailed)

\* The file is extended by writing one '\0' behind its last view; view 0 is
\* mapped.
OpenAndMap ==
  /\ hFile' = TRUE
  /\ disk' = [disk EXCEPT ![fileSize] = Zero]
  /\ pBuffer' \in {0} \cup (IF "mmap" \in Faults THEN {MapFailed} ELSE {})
  /\ failed' = (pBuffer' = MapFailed)

MFileOpen ==
  /\ pc = "idle"
  /\ ~opened
  /\ opened' = TRUE
  /\ mView' = 0
  /\ OpenRefused \/ OpenAndMap
  /\ call' = NoCall
  /\ status' = "none"
  /\ UNCHANGED pc

\* The pointer after munmap succeeded: nothing clears it, so it dangles, or stays
\* NULL.
Unmapped == IF pBuffer = Null THEN Null ELSE Dangling

MFileFlush ==
  /\ pc = "idle"
  /\ opened
  /\ \/ /\ pBuffer # MapFailed
        /\ TRUE \in MunmapOutcomes
        /\ pBuffer' = Unmapped
        /\ UNCHANGED failed
     \/ /\ pBuffer # MapFailed
        /\ FALSE \in MunmapOutcomes
        /\ failed' = TRUE
        /\ UNCHANGED pBuffer
  /\ UNCHANGED <<disk, opened, hFile, mView, pc, call, status>>

MFileClose ==
  /\ pc = "idle"
  /\ opened
  /\ opened' = FALSE
  /\ hFile' = FALSE
  /\ pBuffer' \in IF pBuffer = MapFailed THEN {MapFailed}
                  ELSE {IF ok THEN Unmapped ELSE pBuffer : ok \in MunmapOutcomes}
  /\ UNCHANGED <<disk, mView, pc, call, status, failed>>

-----------------------------------------------------------------------------
(* Reading and writing.                                                    *)

\* FileRead or FileWrite is called; the buffer of a read holds anything.
Begin(c) ==
  /\ pc = "idle"
  /\ opened
  /\ pc' = "bind"
  /\ call' = c
  /\ status' = "busy"
  /\ UNCHANGED <<disk, opened, hFile, mView, pBuffer, failed>>

\* Mutant: the handle does not remember the view that it maps.
BindForgetsView ==
  /\ pc = "bind"
  /\ \/ /\ mView = View
        /\ pc' = "copy"
        /\ UNCHANGED <<pBuffer, status, failed>>
     \/ /\ mView # View
        /\ Remap(View, "copy")
  /\ UNCHANGED <<disk, opened, hFile, mView, call>>

\* mView is set to the view asked for before the window is moved there.
BindView ==
  /\ pc = "bind"
  /\ \/ /\ mView = View
        /\ pc' = "copy"
        /\ UNCHANGED <<mView, pBuffer, status, failed>>
     \/ /\ mView # View
        /\ mView' = View
        /\ Remap(View, "copy")
  /\ UNCHANGED <<disk, opened, hFile, call>>

\* memcpy of the bytes with an index in S; the byte with index i is the byte
\* base + i of the file.
DiskAfter(S, base) ==
  [a \in 0 .. fileSize |->
     IF a - base \in S THEN call.buf[a - base] ELSE disk[a]]

BufAfter(S, base) ==
  [i \in DOMAIN call.buf |->
     IF i \in S THEN disk[base + i] ELSE call.buf[i]]

MemCopy(S, base) ==
  \/ /\ call.op = "read"
     /\ call' = [call EXCEPT !.buf = BufAfter(S, base)]
     /\ UNCHANGED disk
  \/ /\ call.op = "write"
     /\ disk' = DiskAfter(S, base)
     /\ UNCHANGED call

\* Where the first and the second memcpy find byte 0 of the caller's buffer.
FirstBase  == pBuffer * VIEW_SIZE + Offset

\* Mutant: the second part starts at the offset of the first.
SecondBaseAtOffset == pBuffer * VIEW_SIZE + Offset

SecondBase == pBuffer * VIEW_SIZE - (VIEW_SIZE - Offset)

\* The memcpy of a range inside one view, or of the part before the boundary.
CopyFirst ==
  /\ pc = "copy"
  /\ pBuffer \notin BadPointer
  /\ MemCopy(FirstPart, FirstBase)
  /\ pc' = IF Crosses THEN "shift" ELSE "ret"
  /\ UNCHANGED <<opened, hFile, mView, pBuffer, status, failed>>

\* if (pBuffer != NULL) is false: nothing is copied, SUCCESS is returned.
SkipCopy ==
  /\ pc = "copy"
  /\ pBuffer = Null
  /\ pc' = "ret"
  /\ UNCHANGED <<disk, opened, hFile, mView, pBuffer, call, status, failed>>

ShiftView ==
  /\ pc = "shift"
  /\ mView' = mView + 1
  /\ Remap(mView + 1, "copy2")
  /\ UNCHANGED <<disk, opened, hFile, call>>

CopySecond ==
  /\ pc = "copy2"
  /\ pBuffer \notin BadPointer
  /\ MemCopy(SecondPart, SecondBase)
  /\ pc' = "ret"
  /\ UNCHANGED <<opened, hFile, mView, pBuffer, status, failed>>

\* Mutant: SUCCESS is returned when the first part has moved.
ReturnEarly ==
  /\ pc \in {"shift", "ret"}
  /\ pc' = "idle"
  /\ status' = "SUCCESS"
  /\ UNCHANGED <<disk, opened, hFile, mView, pBuffer, call, failed>>

Return ==
  /\ pc = "ret"
  /\ pc' = "idle"
  /\ status' = "SUCCESS"
  /\ UNCHANGED <<disk, opened, hFile, mView, pBuffer, call, failed>>

-----------------------------------------------------------------------------
(* Death of the process.  Only the file is left; the next process creates  *)
(* a new handle.                                                           *)

NewProcess ==
  /\ opened' = FALSE
  /\ hFile' = FALSE
  /\ mView' = 0
  /\ pBuffer' \in {Null, Wild}
  /\ pc' = "idle"
  /\ call' = NoCall
  /\ status' = "none"
  /\ failed' = FALSE

\* memcpy through MAP_FAILED, or through a dangling or wild pointer.
SegmentationFault ==
  /\ pc \in {"copy", "copy2"}
  /\ pBuffer \in BadPointer \ {Null}
  /\ NewProcess
  /\ UNCHANGED disk

\* Killed between two steps, or in the middle of a memcpy to the file.
Killed ==
  /\ NewProcess
  /\ \/ UNCHANGED disk
     \/ /\ pc = "copy" /\ pBuffer \notin BadPointer /\ call.op = "write"
        /\ \E S \in SUBSET FirstPart : disk' = DiskAfter(S, FirstBase)
     \/ /\ pc = "copy2" /\ pBuffer \notin BadPointer /\ call.op = "write"
        /\ \E S \in SUBSET SecondPart : disk' = DiskAfter(S, SecondBase)

Next ==
  \/ MFileOpen \/ MFileFlush \/ MFileClose
  \/ \E c \in Calls : Begin(c)
  \/ BindView \/ CopyFirst \/ SkipCopy \/ ShiftView \/ CopySecond \/ Return
  \/ SegmentationFault \/ Killed

Spec == Init /\ [][Next]_vars

-----------------------------------------------------------------------------
(* Properties.                                                             *)

\* The types of the variables.
TypeOK ==
  /\ disk \in [0 .. fileSize -> Byte]
  /\ opened \in BOOLEAN
  /\ hFile \in BOOLEAN
  /\ mView \in Nat
  /\ pBuffer \in Nat \cup BadPointer
  /\ pc \in {"idle", "bind", "copy", "shift", "copy2", "ret"}
  /\ call \in Calls \cup {NoCall}
  /\ status \in {"none", "busy", "SUCCESS", "FAILURE"}
  /\ failed \in BOOLEAN

\* As long as no call has failed since the file was opened, a call that
\* returned SUCCESS has moved exactly the range it was asked for: the caller's
\* buffer equals those bytes of the file, whichever views the calls before it
\* left mapped and on whichever side of a view boundary the range lies
\* (MFileRead, MFileWrite).
SuccessIsExact ==
  status = "SUCCESS" /\ ~failed =>
    \A i \in 0 .. call.size - 1 : call.buf[i] = disk[call.addr + i]

\* Until a call fails, the file changes only inside the range of the write in
\* progress and only to the bytes of its buffer: neither the sliding of the
\* window, nor opening, flushing and closing, nor the death of the process in
\* the middle of a memcpy damages a byte elsewhere.
NoStrayWrite ==
  [][~failed =>
       \A a \in 0 .. fileSize - 1 :
         disk'[a] # disk[a] =>
           /\ call.op = "write"
           /\ a - call.addr \in 0 .. call.size - 1
           /\ disk'[a] = call.buf[a - call.addr]]_vars

\* The inductive invariant.  Where the call is decides which view the handle
\* names (CallInv); until a call fails the window is mapped where the handle
\* says, and always inside the file (WindowInv); the part before the boundary
\* has moved before the window does (ProgressInv).
CallInv ==
  /\ status = "busy" <=> pc # "idle"
  /\ pc # "idle" => opened /\ call \in Calls
  /\ pc \in {"copy", "shift"} => mView = View
  /\ pc = "copy2" => mView = View + 1
  /\ pc \in {"shift", "copy2"} => Crosses

WindowInv ==
  /\ pBuffer \in Nat => (pBuffer + 1) * VIEW_SIZE <= fileSize
  /\ opened /\ ~failed => pBuffer \in {mView, Dangling, MapFailed}

ProgressInv ==
  ~failed =>
    /\ pc \in {"shift", "copy2"} =>
         \A i \in FirstPart : call.buf[i] = disk[call.addr + i]
    /\ pc = "ret" =>
         \A i \in 0 .. call.size - 1 : call.buf[i] = disk[call.addr + i]

\* In every call, and between calls, the view recorded in the handle is the
\* view mapped, unless a call failed (pFileInfo->mView, pFileInfo->pBuffer).
IInv == TypeOK /\ CallInv /\ WindowInv /\ ProgressInv /\ SuccessIsExact

\* The sliding window behaves like a flat file whose calls return SUCCESS only
\* when every byte has moved (MyFile.c seen through FileAccess.c).
FlatFileSpec == FF!Spec

\* MFileRead and MFileWrite announce "MapViewOfFile Failure" and return FAILURE
\* when the next view cannot be mapped: they never go on to copy through the
\* pointer mmap returned.
MapFailureIsReturned ==
  pc \in {"copy", "copy2"} /\ ~failed => pBuffer # MapFailed
=============================================================================
