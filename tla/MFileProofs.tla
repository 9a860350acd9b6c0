---------------------------- MODULE MFileProofs -----------------------------
(***************************************************************************)
(* Theorems about MFile for every size of the window, every size of the    *)
(* file and every set of failing system calls.                             *)
(***************************************************************************)
EXTENDS MFile, TLAPS

-----------------------------------------------------------------------------
(* Arithmetic of views and offsets.                                        *)

LEMMA DivMod ==
  ASSUME NEW a \in Nat
  PROVE  /\ a \div VIEW_SIZE \in Nat
         /\ a % VIEW_SIZE \in 0 .. VIEW_SIZE - 1
         /\ a = (a \div VIEW_SIZE) * VIEW_SIZE + (a % VIEW_SIZE)
  BY MFileAssumption

LEMMA FileSizeMultiple ==
  /\ fileSize \in Nat \ {0}
  /\ \E k \in Nat : fileSize = k * VIEW_SIZE
<1>1. CASE mFileSize % VIEW_SIZE = 0
  BY <1>1, DivMod, MFileAssumption DEF fileSize
<1>2. CASE mFileSize % VIEW_SIZE # 0
  <2> DEFINE m == mFileSize \div VIEW_SIZE
  <2>1. m \in Nat
    BY DivMod, MFileAssumption
  <2>2. fileSize = (m + 1) * VIEW_SIZE
    BY <1>2 DEF fileSize
  <2> HIDE DEF m
  <2>3. (m + 1) * VIEW_SIZE = m * VIEW_SIZE + VIEW_SIZE /\ m * VIEW_SIZE \in Nat
    BY <2>1, MFileAssumption
  <2>4. (m + 1) * VIEW_SIZE \in Nat \ {0}
    BY <2>3, MFileAssumption
  <2>5. QED
    BY <2>1, <2>2, <2>4
<1>3. QED
  BY <1>1, <1>2

LEMMA ViewInFile ==
  ASSUME NEW v \in Nat, NEW o \in Nat, v * VIEW_SIZE + o < fileSize
  PROVE  (v + 1) * VIEW_SIZE <= fileSize
<1>1. PICK k \in Nat : fileSize = k * VIEW_SIZE
  BY FileSizeMultiple
<1>2. v * VIEW_SIZE < k * VIEW_SIZE
  BY <1>1, MFileAssumption
<1>3. v < k
  BY <1>2, MFileAssumption
<1>4. k = (v + 1) + (k - v - 1) /\ k - v - 1 \in Nat
  BY <1>3
<1>5. k * VIEW_SIZE = (v + 1) * VIEW_SIZE + (k - v - 1) * VIEW_SIZE
  BY <1>4, MFileAssumption
<1>6. QED
  BY <1>1, <1>4, <1>5, MFileAssumption

-----------------------------------------------------------------------------
(* Calls and the two parts of their range.                                 *)

LEMMA CallType ==
  ASSUME NEW c \in Calls
  PROVE  /\ c.op \in {"read", "write"}
         /\ c.addr \in Nat
         /\ c.size \in Nat \ {0}
         /\ c.size <= VIEW_SIZE
         /\ c.addr + c.size <= fileSize
         /\ c.buf \in [0 .. c.size - 1 -> Byte]
<1>1. c \in [op : {"read", "write"}, addr : 0 .. fileSize - 1, size : 1 .. MaxSize,
              buf : UNION {[0 .. n - 1 -> Byte] : n \in 1 .. MaxSize}]
  BY DEF Calls, FF!Calls
<1>2. c.addr + c.size <= fileSize /\ DOMAIN c.buf = 0 .. c.size - 1
  BY DEF Calls, FF!Calls
<1>3. PICK n \in 1 .. MaxSize : c.buf \in [0 .. n - 1 -> Byte]
  BY <1>1
<1>4. c.buf \in [0 .. c.size - 1 -> Byte]
  BY <1>2, <1>3
<1>5. QED
  BY <1>1, <1>2, <1>4, FileSizeMultiple, MFileAssumption

\* A call whose buffer was filled is still a call.
LEMMA CallWithBuffer ==
  ASSUME NEW c \in Calls, NEW b \in [0 .. c.size - 1 -> Byte]
  PROVE  [c EXCEPT !.buf = b] \in Calls
<1>1. c \in [op : {"read", "write"}, addr : 0 .. fileSize - 1, size : 1 .. MaxSize,
              buf : UNION {[0 .. n - 1 -> Byte] : n \in 1 .. MaxSize}]
  BY DEF Calls, FF!Calls
<1>2. c.addr + c.size <= fileSize
  BY DEF Calls, FF!Calls
<1>3. b \in UNION {[0 .. n - 1 -> Byte] : n \in 1 .. MaxSize}
  BY <1>1
<1> DEFINE d == [c EXCEPT !.buf = b]
<1>4. d.op = c.op /\ d.addr = c.addr /\ d.size = c.size /\ d.buf = b
  BY <1>1
<1>5. d \in [op : {"read", "write"}, addr : 0 .. fileSize - 1, size : 1 .. MaxSize,
              buf : UNION {[0 .. n - 1 -> Byte] : n \in 1 .. MaxSize}]
  BY <1>1, <1>3
<1>6. DOMAIN d.buf = 0 .. d.size - 1
  BY <1>4
<1>7. QED
  BY <1>2, <1>4, <1>5, <1>6 DEF Calls, FF!Calls

LEMMA RangeSplit ==
  ASSUME call \in Calls
  PROVE  /\ View \in Nat
         /\ Offset \in 0 .. VIEW_SIZE - 1
         /\ call.addr = View * VIEW_SIZE + Offset
         /\ View * VIEW_SIZE \in Nat
         /\ (View + 1) * VIEW_SIZE = View * VIEW_SIZE + VIEW_SIZE
         /\ (View + 1) * VIEW_SIZE <= fileSize
         /\ Crosses => (View + 2) * VIEW_SIZE <= fileSize
         /\ FirstPart \cup SecondPart = 0 .. call.size - 1
         /\ ~Crosses => FirstPart = 0 .. call.size - 1
<1>1. /\ View \in Nat
      /\ Offset \in 0 .. VIEW_SIZE - 1
      /\ call.addr = View * VIEW_SIZE + Offset
  BY CallType, DivMod DEF View, Offset
<1>2. View * VIEW_SIZE \in Nat /\ (View + 1) * VIEW_SIZE = View * VIEW_SIZE + VIEW_SIZE
  BY <1>1, MFileAssumption
<1>3. (View + 1) * VIEW_SIZE <= fileSize
  <2>1. View * VIEW_SIZE + Offset < fileSize
    BY <1>1, <1>2, CallType, FileSizeMultiple, MFileAssumption
  <2>2. QED
    BY <1>1, <2>1, ViewInFile, MFileAssumption
<1>4. Crosses => (View + 2) * VIEW_SIZE <= fileSize
  <2>1. HAVE Crosses
  <2> DEFINE w == View + 1
  <2>2. call.addr + call.size > View * VIEW_SIZE + VIEW_SIZE
    BY <1>1, <1>2, <2>1, CallType, MFileAssumption DEF Crosses
  <2>3. w \in Nat /\ w * VIEW_SIZE \in Nat /\ w * VIEW_SIZE < fileSize
    <3> DEFINE p == View * VIEW_SIZE
    <3>1. w \in Nat
      BY <1>1
    <3>2. p \in Nat /\ w * VIEW_SIZE = p + VIEW_SIZE
      BY <1>2
    <3>3. call.addr + call.size > p + VIEW_SIZE
      BY <2>2
    <3> HIDE DEF p, w
    <3>4. QED
      BY <3>1, <3>2, <3>3, CallType, FileSizeMultiple, MFileAssumption
  <2>4. w + 1 = View + 2
    BY <1>1
  <2> HIDE DEF w
  <2>5. (w + 1) * VIEW_SIZE <= fileSize
    BY <2>3, ViewInFile, MFileAssumption
  <2>6. QED
    BY <2>4, <2>5
<1>5. FirstPart \cup SecondPart = 0 .. call.size - 1
  BY <1>1, CallType, MFileAssumption DEF FirstPart, SecondPart
<1>6. ~Crosses => FirstPart = 0 .. call.size - 1
  BY <1>1, CallType, MFileAssumption DEF FirstPart, Crosses
<1>7. QED
  BY <1>1, <1>2, <1>3, <1>4, <1>5, <1>6

-----------------------------------------------------------------------------
(* What memcpy does.                                                       *)

\* A mapped view lies inside the file, so both memcpys stay inside it, even
\* when the window is not where the handle says.
LEMMA WindowInFile ==
  ASSUME call \in Calls, pBuffer \in Nat, (pBuffer + 1) * VIEW_SIZE <= fileSize
  PROVE  /\ FirstBase \in Int /\ SecondBase \in Int
         /\ \A i \in FirstPart : FirstBase + i \in 0 .. fileSize
         /\ \A i \in SecondPart : SecondBase + i \in 0 .. fileSize
<1> DEFINE p == pBuffer * VIEW_SIZE
<1>1. p \in Nat /\ p + VIEW_SIZE <= fileSize
  <2>1. p \in Nat /\ (pBuffer + 1) * VIEW_SIZE = p + VIEW_SIZE
    BY MFileAssumption
  <2>2. QED
    BY <2>1
<1>2. FirstBase = p + Offset /\ SecondBase = p - (VIEW_SIZE - Offset)
  BY DEF FirstBase, SecondBase
<1> HIDE DEF p
<1>3. Offset \in 0 .. VIEW_SIZE - 1
  BY RangeSplit
<1>4. FirstBase \in Int /\ SecondBase \in Int
  BY <1>1, <1>2, <1>3, MFileAssumption
<1>5. \A i \in FirstPart : FirstBase + i \in 0 .. fileSize
  BY <1>1, <1>2, <1>3, CallType, FileSizeMultiple, MFileAssumption DEF FirstPart
<1>6. \A i \in SecondPart : SecondBase + i \in 0 .. fileSize
  BY <1>1, <1>2, <1>3, CallType, FileSizeMultiple, MFileAssumption DEF SecondPart
<1>7. QED
  BY <1>4, <1>5, <1>6

LEMMA DiskAfterType ==
  ASSUME TypeOK, call \in Calls, NEW base \in Int,
         NEW S \in SUBSET (0 .. call.size - 1)
  PROVE  DiskAfter(S, base) \in [0 .. fileSize -> Byte]
<1>1. \A i \in S : call.buf[i] \in Byte
  BY CallType
<1>2. \A a \in 0 .. fileSize : disk[a] \in Byte
  BY DEF TypeOK
<1>3. QED
  BY <1>1, <1>2 DEF DiskAfter

LEMMA MemCopyType ==
  ASSUME TypeOK, call \in Calls, NEW base \in Int,
         NEW S \in SUBSET (0 .. call.size - 1),
         \A i \in S : base + i \in 0 .. fileSize,
         MemCopy(S, base)
  PROVE  /\ disk' \in [0 .. fileSize -> Byte]
         /\ call' \in Calls
         /\ call'.op = call.op /\ call'.addr = call.addr /\ call'.size = call.size
<1>1. CASE call.op = "read" /\ UNCHANGED disk
           /\ call' = [call EXCEPT !.buf = BufAfter(S, base)]
  <2>1. BufAfter(S, base) \in [0 .. call.size - 1 -> Byte]
    <3>1. DOMAIN call.buf = 0 .. call.size - 1
          /\ \A i \in 0 .. call.size - 1 : call.buf[i] \in Byte
      BY CallType
    <3>2. \A i \in S : disk[base + i] \in Byte
      BY DEF TypeOK
    <3>3. QED
      BY <3>1, <3>2 DEF BufAfter
  <2>2. call' \in Calls
    BY <1>1, <2>1, CallWithBuffer
  <2>3. call'.op = call.op /\ call'.addr = call.addr /\ call'.size = call.size
    BY <1>1 DEF Calls, FF!Calls
  <2>4. QED
    BY <1>1, <2>2, <2>3 DEF TypeOK
<1>2. CASE UNCHANGED call /\ disk' = DiskAfter(S, base)
  BY <1>2, DiskAfterType
<1>3. QED
  BY <1>1, <1>2 DEF MemCopy

\* With the right base the bytes of S agree afterwards and no other byte of
\* the buffer, or of the range, has moved.
LEMMA MemCopyExact ==
  ASSUME TypeOK, call \in Calls,
         NEW S \in SUBSET (0 .. call.size - 1),
         MemCopy(S, call.addr)
  PROVE  /\ \A i \in S : call'.buf[i] = disk'[call.addr + i]
         /\ \A i \in (0 .. call.size - 1) \ S :
              call'.buf[i] = call.buf[i] /\ disk'[call.addr + i] = disk[call.addr + i]
<1>1. CASE call.op = "read" /\ UNCHANGED disk
           /\ call' = [call EXCEPT !.buf = BufAfter(S, call.addr)]
  <2>1. call'.buf = BufAfter(S, call.addr)
    BY <1>1 DEF Calls, FF!Calls
  <2>2. DOMAIN call.buf = 0 .. call.size - 1
    BY CallType
  <2>3. QED
    BY <1>1, <2>1, <2>2 DEF BufAfter
<1>2. CASE UNCHANGED call /\ disk' = DiskAfter(S, call.addr)
  <2>1. \A i \in 0 .. call.size - 1 :
          call.addr + i \in 0 .. fileSize /\ (call.addr + i) - call.addr = i
    BY CallType, FileSizeMultiple
  <2>2. QED
    BY <1>2, <2>1 DEF DiskAfter
<1>3. QED
  BY <1>1, <1>2 DEF MemCopy

-----------------------------------------------------------------------------
(* The inductive invariant.                                                *)

LEMMA InitIInv == Init => IInv
<1> SUFFICES ASSUME Init PROVE IInv
  OBVIOUS
<1>1. TypeOK
  BY MFileAssumption DEF Init, TypeOK, BadPointer, MapFailed, Dangling, Null, Wild
<1>2. CallInv /\ WindowInv /\ ProgressInv /\ SuccessIsExact
  BY DEF Init, CallInv, WindowInv, ProgressInv, SuccessIsExact, Null, Wild
<1>3. QED
  BY <1>1, <1>2 DEF IInv

\* Unmapping the window and mapping a view of the file.
LEMMA RemapFacts ==
  ASSUME TypeOK, NEW v \in Nat, (v + 1) * VIEW_SIZE <= fileSize,
         NEW next, Remap(v, next),
         pBuffer \in Nat => (pBuffer + 1) * VIEW_SIZE <= fileSize
  PROVE  /\ pBuffer' \in Nat \cup BadPointer
         /\ pBuffer' \in Nat => (pBuffer' + 1) * VIEW_SIZE <= fileSize
         /\ \/ pc' = "idle" /\ status' = "FAILURE" /\ failed' = TRUE
            \/ /\ pc' = next
               /\ status' = status
               /\ failed' = failed
               /\ pBuffer' \in {v, MapFailed}
<1>1. CASE Fail /\ UNCHANGED pBuffer
  BY <1>1 DEF TypeOK, Fail
<1>2. CASE /\ pBuffer' \in MmapOutcomes(v) /\ pc' = next
           /\ UNCHANGED <<status, failed>>
  <2>1. pBuffer' \in {v, MapFailed}
    BY <1>2 DEF MmapOutcomes
  <2>2. QED
    BY <1>2, <2>1 DEF BadPointer, MapFailed
<1>3. QED
  BY <1>1, <1>2 DEF Remap

LEMMA NewProcessIInv ==
  ASSUME NewProcess, disk' \in [0 .. fileSize -> Byte]
  PROVE  IInv'
<1>1. TypeOK'
  BY DEF NewProcess, TypeOK, BadPointer, MapFailed, Dangling, Null, Wild
<1>2. CallInv' /\ WindowInv' /\ ProgressInv' /\ SuccessIsExact'
  BY DEF NewProcess, CallInv, WindowInv, ProgressInv, SuccessIsExact, Null, Wild
<1>3. QED
  BY <1>1, <1>2 DEF IInv

LEMMA NextIInv == IInv /\ [Next]_vars => IInv'
<1> SUFFICES ASSUME IInv, [Next]_vars PROVE IInv'
  OBVIOUS
<1> USE DEF IInv
<1>1. CASE MFileOpen
  <2>1. (0 + 1) * VIEW_SIZE <= fileSize
    BY ViewInFile, FileSizeMultiple, MFileAssumption
  <2>2. /\ pc = "idle" /\ pc' = "idle" /\ opened' = TRUE /\ mView' = 0
        /\ call' = NoCall /\ status' = "none" /\ hFile' \in BOOLEAN
    BY <1>1 DEF MFileOpen, OpenRefused, OpenAndMap
  <2>3. /\ disk' \in [0 .. fileSize -> Byte]
        /\ failed' \in BOOLEAN
        /\ \/ failed' = TRUE /\ pBuffer' = pBuffer
           \/ failed' = TRUE /\ pBuffer' = MapFailed
           \/ failed' = FALSE /\ pBuffer' = 0
    <3>1. CASE OpenRefused
      BY <3>1 DEF OpenRefused, TypeOK
    <3>2. CASE OpenAndMap
      <4>1. disk' \in [0 .. fileSize -> Byte]
        BY <3>2, MFileAssumption DEF OpenAndMap, TypeOK
      <4>2. pBuffer' = MapFailed \/ (pBuffer' = 0 /\ pBuffer' # MapFailed)
        BY <3>2 DEF OpenAndMap, MapFailed
      <4>3. failed' = (pBuffer' = MapFailed)
        BY <3>2 DEF OpenAndMap
      <4>4. QED
        BY <4>1, <4>2, <4>3
    <3>3. QED
      BY <1>1, <3>1, <3>2 DEF MFileOpen
  <2>4. TypeOK'
    BY <2>2, <2>3 DEF TypeOK, BadPointer, MapFailed
  <2>5. CallInv' /\ ProgressInv' /\ SuccessIsExact'
    BY <2>2, <2>3 DEF CallInv, ProgressInv, SuccessIsExact
  <2>6. WindowInv'
    BY <2>1, <2>2, <2>3 DEF WindowInv, MapFailed
  <2>7. QED
    BY <2>4, <2>5, <2>6
<1>2. CASE MFileFlush
  <2>1. /\ pc = "idle" /\ opened /\ pBuffer' \in {pBuffer, Dangling}
        /\ failed' = failed \/ failed' = TRUE
        /\ UNCHANGED <<disk, opened, hFile, mView, pc, call, status>>
    BY <1>2 DEF MFileFlush, Unmapped
  <2>2. TypeOK'
    BY <2>1 DEF TypeOK, BadPointer
  <2>3. CallInv' /\ ProgressInv' /\ SuccessIsExact'
    BY <2>1 DEF CallInv, ProgressInv, SuccessIsExact
  <2>4. WindowInv'
    BY <2>1 DEF WindowInv, Dangling
  <2>5. QED
    BY <2>2, <2>3, <2>4
<1>3. CASE MFileClose
  <2>1. /\ pc = "idle" /\ opened' = FALSE /\ hFile' = FALSE
        /\ UNCHANGED <<disk, mView, pc, call, status, failed>>
        /\ pBuffer' \in {pBuffer, Dangling}
    BY <1>3 DEF MFileClose, Unmapped
  <2>2. TypeOK'
    BY <2>1 DEF TypeOK, BadPointer
  <2>3. CallInv' /\ ProgressInv' /\ SuccessIsExact'
    BY <2>1 DEF CallInv, ProgressInv, SuccessIsExact
  <2>4. WindowInv'
    BY <2>1 DEF WindowInv, Dangling
  <2>5. QED
    BY <2>2, <2>3, <2>4
<1>4. ASSUME NEW c \in Calls, Begin(c) PROVE IInv'
  <2>1. TypeOK'
    BY <1>4 DEF Begin, TypeOK
  <2>2. CallInv' /\ WindowInv' /\ ProgressInv' /\ SuccessIsExact'
    BY <1>4 DEF Begin, CallInv, WindowInv, ProgressInv, SuccessIsExact, TypeOK
  <2>3. QED
    BY <2>1, <2>2
<1>5. CASE BindView
  <2>1. pc = "bind" /\ status = "busy" /\ opened /\ call \in Calls
    BY <1>5 DEF BindView, CallInv
  <2>2. View \in Nat /\ (View + 1) * VIEW_SIZE <= fileSize /\ View' = View
    BY <1>5, <2>1, RangeSplit DEF BindView, View
  <2>3. CASE mView = View /\ pc' = "copy" /\ UNCHANGED <<mView, pBuffer, status, failed>>
    <3>1. TypeOK'
      BY <1>5, <2>3 DEF BindView, TypeOK
    <3>2. CallInv' /\ WindowInv' /\ ProgressInv' /\ SuccessIsExact'
      BY <1>5, <2>1, <2>2, <2>3
         DEF BindView, CallInv, WindowInv, ProgressInv, SuccessIsExact
    <3>3. QED
      BY <3>1, <3>2
  <2>4. CASE mView' = View /\ Remap(View, "copy")
    <3>1. /\ pBuffer' \in Nat \cup BadPointer
          /\ pBuffer' \in Nat => (pBuffer' + 1) * VIEW_SIZE <= fileSize
          /\ \/ pc' = "idle" /\ status' = "FAILURE" /\ failed' = TRUE
             \/ /\ pc' = "copy"
                /\ status' = status
                /\ failed' = failed
                /\ pBuffer' \in {View, MapFailed}
      BY <2>2, <2>4, RemapFacts DEF WindowInv
    <3>2. TypeOK'
      BY <1>5, <2>2, <2>4, <3>1 DEF BindView, TypeOK
    <3>3. CallInv' /\ WindowInv' /\ ProgressInv' /\ SuccessIsExact'
      BY <1>5, <2>1, <2>2, <2>4, <3>1
         DEF BindView, CallInv, WindowInv, ProgressInv, SuccessIsExact
    <3>4. QED
      BY <3>2, <3>3
  <2>5. QED
    BY <1>5, <2>3, <2>4 DEF BindView
<1>6. CASE CopyFirst
  <2>1. /\ pc = "copy" /\ status = "busy" /\ opened /\ call \in Calls
        /\ mView = View /\ pBuffer \in Nat /\ MemCopy(FirstPart, FirstBase)
        /\ (pBuffer + 1) * VIEW_SIZE <= fileSize
    BY <1>6 DEF CopyFirst, CallInv, TypeOK, WindowInv
  <2>2. FirstPart \in SUBSET (0 .. call.size - 1)
    BY DEF FirstPart
  <2>3. /\ disk' \in [0 .. fileSize -> Byte]
        /\ call' \in Calls
        /\ call'.op = call.op /\ call'.addr = call.addr /\ call'.size = call.size
    BY <2>1, <2>2, MemCopyType, WindowInFile
  <2>4. View' = View /\ FirstPart' = FirstPart /\ Crosses' = Crosses
    BY <2>3 DEF View, FirstPart, Crosses, Offset
  <2>5. TypeOK'
    BY <1>6, <2>3 DEF CopyFirst, TypeOK
  <2>6. CallInv' /\ WindowInv'
    BY <1>6, <2>1, <2>3, <2>4 DEF CopyFirst, CallInv, WindowInv
  <2>7. ProgressInv'
    <3>1. SUFFICES ASSUME ~failed PROVE ProgressInv'
      BY <1>6 DEF CopyFirst, ProgressInv
    <3>2. pBuffer = View
      BY <2>1, <3>1 DEF WindowInv, Dangling, MapFailed
    <3>3. FirstBase = call.addr
      BY <2>1, <3>2, RangeSplit DEF FirstBase
    <3>4. \A i \in FirstPart : call'.buf[i] = disk'[call.addr + i]
      BY <2>1, <2>2, <3>3, MemCopyExact
    <3>5. ~Crosses => FirstPart = 0 .. call.size - 1
      BY <2>1, RangeSplit
    <3>6. QED
      BY <1>6, <2>3, <2>4, <3>4, <3>5 DEF CopyFirst, ProgressInv
  <2>8. SuccessIsExact'
    BY <1>6, <2>1 DEF CopyFirst, SuccessIsExact
  <2>9. QED
    BY <2>5, <2>6, <2>7, <2>8
<1>7. CASE SkipCopy
  <2>1. failed
    BY <1>7 DEF SkipCopy, CallInv, WindowInv, Null, Dangling, MapFailed, TypeOK
  <2>2. TypeOK'
    BY <1>7 DEF SkipCopy, TypeOK
  <2>3. CallInv' /\ WindowInv' /\ ProgressInv' /\ SuccessIsExact'
    BY <1>7, <2>1 DEF SkipCopy, CallInv, WindowInv, ProgressInv, SuccessIsExact
  <2>4. QED
    BY <2>2, <2>3
<1>8. CASE ShiftView
  <2>1. /\ pc = "shift" /\ status = "busy" /\ opened /\ call \in Calls
        /\ mView = View /\ Crosses
    BY <1>8 DEF ShiftView, CallInv
  <2>2. /\ View \in Nat /\ ((View + 1) + 1) * VIEW_SIZE <= fileSize
        /\ View' = View /\ Crosses' = Crosses /\ FirstPart' = FirstPart
    <3>1. View \in Nat /\ (View + 2) * VIEW_SIZE <= fileSize
      BY <2>1, RangeSplit
    <3>2. (View + 1) + 1 = View + 2
      BY <3>1
    <3>3. QED
      BY <1>8, <3>1, <3>2 DEF ShiftView, View, Crosses, Offset, FirstPart
  <2>3. /\ pBuffer' \in Nat \cup BadPointer
        /\ pBuffer' \in Nat => (pBuffer' + 1) * VIEW_SIZE <= fileSize
        /\ \/ pc' = "idle" /\ status' = "FAILURE" /\ failed' = TRUE
           \/ /\ pc' = "copy2"
              /\ status' = status
              /\ failed' = failed
              /\ pBuffer' \in {View + 1, MapFailed}
    <3>1. View + 1 \in Nat /\ Remap(View + 1, "copy2")
      BY <1>8, <2>1, <2>2 DEF ShiftView
    <3>2. pBuffer \in Nat => (pBuffer + 1) * VIEW_SIZE <= fileSize
      BY DEF WindowInv
    <3>3. QED
      BY <2>2, <3>1, <3>2, RemapFacts
  <2>4. TypeOK'
    <3>1. mView' \in Nat /\ UNCHANGED <<disk, opened, hFile, call>>
      BY <1>8, <2>1, <2>2 DEF ShiftView
    <3>2. pc' \in {"idle", "copy2"} /\ status' \in {"FAILURE", status}
          /\ failed' \in {failed, TRUE}
      BY <2>3
    <3>3. QED
      BY <2>3, <3>1, <3>2 DEF TypeOK
  <2>5. CallInv' /\ WindowInv' /\ ProgressInv' /\ SuccessIsExact'
    BY <1>8, <2>1, <2>2, <2>3
       DEF ShiftView, CallInv, WindowInv, ProgressInv, SuccessIsExact
  <2>6. QED
    BY <2>4, <2>5
<1>9. CASE CopySecond
  <2>1. /\ pc = "copy2" /\ status = "busy" /\ opened /\ call \in Calls
        /\ mView = View + 1 /\ pBuffer \in Nat /\ MemCopy(SecondPart, SecondBase)
        /\ (pBuffer + 1) * VIEW_SIZE <= fileSize
    BY <1>9 DEF CopySecond, CallInv, TypeOK, WindowInv
  <2>2. SecondPart \in SUBSET (0 .. call.size - 1)
    BY DEF SecondPart
  <2>3. /\ disk' \in [0 .. fileSize -> Byte]
        /\ call' \in Calls
        /\ call'.op = call.op /\ call'.addr = call.addr /\ call'.size = call.size
    BY <2>1, <2>2, MemCopyType, WindowInFile
  <2>4. TypeOK'
    BY <1>9, <2>3 DEF CopySecond, TypeOK
  <2>5. CallInv' /\ WindowInv'
    BY <1>9, <2>1, <2>3 DEF CopySecond, CallInv, WindowInv
  <2>6. ProgressInv'
    <3>1. SUFFICES ASSUME ~failed PROVE ProgressInv'
      BY <1>9 DEF CopySecond, ProgressInv
    <3>2. pBuffer = View + 1
      BY <2>1, <3>1 DEF WindowInv, Dangling, MapFailed
    <3>3. SecondBase = call.addr
      BY <2>1, <3>2, RangeSplit, MFileAssumption DEF SecondBase
    <3>4. /\ \A i \in SecondPart : call'.buf[i] = disk'[call.addr + i]
          /\ \A i \in (0 .. call.size - 1) \ SecondPart :
               call'.buf[i] = call.buf[i] /\ disk'[call.addr + i] = disk[call.addr + i]
      BY <2>1, <2>2, <3>3, MemCopyExact
    <3>5. \A i \in FirstPart : call.buf[i] = disk[call.addr + i]
      BY <2>1, <3>1 DEF ProgressInv
    <3>6. FirstPart \cup SecondPart = 0 .. call.size - 1
      BY <2>1, RangeSplit
    <3>7. \A i \in 0 .. call.size - 1 : call'.buf[i] = disk'[call.addr + i]
      BY <3>4, <3>5, <3>6
    <3>8. QED
      BY <1>9, <2>3, <3>7 DEF CopySecond, ProgressInv
  <2>7. SuccessIsExact'
    BY <1>9, <2>1 DEF CopySecond, SuccessIsExact
  <2>8. QED
    BY <2>4, <2>5, <2>6, <2>7
<1>10. CASE Return
  <2>1. TypeOK'
    BY <1>10 DEF Return, TypeOK
  <2>2. CallInv' /\ WindowInv' /\ ProgressInv' /\ SuccessIsExact'
    BY <1>10 DEF Return, CallInv, WindowInv, ProgressInv, SuccessIsExact
  <2>3. QED
    BY <2>1, <2>2
<1>11. CASE SegmentationFault
  BY <1>11, NewProcessIInv DEF SegmentationFault, TypeOK
<1>12. CASE Killed
  <2>1. disk' \in [0 .. fileSize -> Byte]
    <3>1. CASE UNCHANGED disk
      BY <3>1 DEF TypeOK
    <3>2. ASSUME pc = "copy", pBuffer \notin BadPointer,
                 NEW S \in SUBSET FirstPart, disk' = DiskAfter(S, FirstBase)
          PROVE  disk' \in [0 .. fileSize -> Byte]
      <4>1. call \in Calls /\ pBuffer \in Nat /\ (pBuffer + 1) * VIEW_SIZE <= fileSize
        BY <3>2 DEF CallInv, TypeOK, WindowInv
      <4>2. S \in SUBSET (0 .. call.size - 1)
        BY DEF FirstPart
      <4>3. QED
        BY <3>2, <4>1, <4>2, WindowInFile, DiskAfterType
    <3>3. ASSUME pc = "copy2", pBuffer \notin BadPointer,
                 NEW S \in SUBSET SecondPart, disk' = DiskAfter(S, SecondBase)
          PROVE  disk' \in [0 .. fileSize -> Byte]
      <4>1. call \in Calls /\ pBuffer \in Nat /\ (pBuffer + 1) * VIEW_SIZE <= fileSize
        BY <3>3 DEF CallInv, TypeOK, WindowInv
      <4>2. S \in SUBSET (0 .. call.size - 1)
        BY DEF SecondPart
      <4>3. QED
        BY <3>3, <4>1, <4>2, WindowInFile, DiskAfterType
    <3>4. QED
      BY <1>12, <3>1, <3>2, <3>3 DEF Killed
  <2>2. QED
    BY <1>12, <2>1, NewProcessIInv DEF Killed
<1>13. CASE UNCHANGED vars
  BY <1>13 DEF vars, TypeOK, CallInv, WindowInv, ProgressInv, SuccessIsExact,
               View, Offset, Crosses, FirstPart
<1>14. QED
  BY <1>1, <1>2, <1>3, <1>4, <1>5, <1>6, <1>7, <1>8, <1>9, <1>10, <1>11, <1>12, <1>13
     DEF Next

-----------------------------------------------------------------------------
(* Theorems.                                                               *)

\* In every reachable state, for every set of failing system calls, the
\* inductive invariant holds (MFileOpen, MFileRead, MFileWrite, MFileClose).
THEOREM Invariance == Spec => []IInv
<1>1. QED
  BY InitIInv, NextIInv, PTL DEF Spec

\* The variables keep their types.
THEOREM TypeCorrectness == Spec => []TypeOK
<1>1. IInv => TypeOK
  BY DEF IInv
<1>2. QED
  BY <1>1, Invariance, PTL

\* As long as no call has failed, SUCCESS means that exactly the range asked
\* for has moved, for every size of window and file.
THEOREM SuccessExact == Spec => []SuccessIsExact
<1>1. IInv => SuccessIsExact
  BY DEF IInv
<1>2. QED
  BY <1>1, Invariance, PTL

-----------------------------------------------------------------------------
(* Until a call fails, both memcpys move the bytes of the range itself.     *)

LEMMA TrustedBase ==
  ASSUME IInv, ~failed, pBuffer \notin BadPointer
  PROVE  /\ pc = "copy" => FirstBase = call.addr
         /\ pc = "copy2" => SecondBase = call.addr
<1>1. pc \in {"copy", "copy2"} => pBuffer = mView /\ call \in Calls
  BY DEF IInv, CallInv, WindowInv, BadPointer
<1>2. pc = "copy" => FirstBase = call.addr
  BY <1>1, RangeSplit DEF IInv, CallInv, FirstBase
<1>3. pc = "copy2" => SecondBase = call.addr
  BY <1>1, RangeSplit, MFileAssumption DEF IInv, CallInv, SecondBase
<1>4. QED
  BY <1>2, <1>3

\* One step of the process: the file is as it was, or some bytes of the part
\* being copied have landed at their place.
LEMMA StepOnFile ==
  ASSUME IInv, ~failed, [Next]_vars
  PROVE  \/ fileBytes' = fileBytes
         \/ /\ call.op = "write"
            /\ call \in Calls
            /\ \E S \in SUBSET (0 .. call.size - 1) : disk' = DiskAfter(S, call.addr)
<1>1. CASE UNCHANGED disk
  BY <1>1 DEF fileBytes
<1>2. CASE MFileOpen
  BY <1>2, FileSizeMultiple DEF MFileOpen, OpenRefused, OpenAndMap, fileBytes, IInv, TypeOK
<1>3. CASE CopyFirst
  <2>1. call \in Calls /\ MemCopy(FirstPart, call.addr)
    BY <1>3, TrustedBase DEF CopyFirst, IInv, CallInv
  <2>2. FirstPart \in SUBSET (0 .. call.size - 1)
    BY DEF FirstPart
  <2>3. QED
    BY <2>1, <2>2 DEF MemCopy, fileBytes
<1>4. CASE CopySecond
  <2>1. call \in Calls /\ MemCopy(SecondPart, call.addr)
    BY <1>4, TrustedBase DEF CopySecond, IInv, CallInv
  <2>2. SecondPart \in SUBSET (0 .. call.size - 1)
    BY DEF SecondPart
  <2>3. QED
    BY <2>1, <2>2 DEF MemCopy, fileBytes
<1>5. CASE Killed
  <2>1. ASSUME pc = "copy", pBuffer \notin BadPointer, call.op = "write",
               NEW S \in SUBSET FirstPart, disk' = DiskAfter(S, FirstBase)
        PROVE  /\ call \in Calls
               /\ S \in SUBSET (0 .. call.size - 1)
               /\ disk' = DiskAfter(S, call.addr)
    BY <2>1, TrustedBase DEF IInv, CallInv, FirstPart
  <2>2. ASSUME pc = "copy2", pBuffer \notin BadPointer, call.op = "write",
               NEW S \in SUBSET SecondPart, disk' = DiskAfter(S, SecondBase)
        PROVE  /\ call \in Calls
               /\ S \in SUBSET (0 .. call.size - 1)
               /\ disk' = DiskAfter(S, call.addr)
    BY <2>2, TrustedBase DEF IInv, CallInv, SecondPart
  <2>3. QED
    BY <1>1, <1>5, <2>1, <2>2 DEF Killed
<1>6. QED
  BY <1>1, <1>2, <1>3, <1>4, <1>5
     DEF Next, vars, MFileFlush, MFileClose, Begin, BindView, SkipCopy, ShiftView,
         Return, SegmentationFault

\* Until a call fails, no step - not even death in the middle of a memcpy -
\* changes a byte outside the range of the write in progress.
THEOREM NoByteAstray == Spec => NoStrayWrite
<1> DEFINE A == ~failed =>
                  \A a \in 0 .. fileSize - 1 :
                    disk'[a] # disk[a] =>
                      /\ call.op = "write"
                      /\ a - call.addr \in 0 .. call.size - 1
                      /\ disk'[a] = call.buf[a - call.addr]
<1>1. IInv /\ [Next]_vars => A
  <2>1. SUFFICES ASSUME IInv, [Next]_vars, ~failed,
                        NEW a \in 0 .. fileSize - 1, disk'[a] # disk[a]
                 PROVE  /\ call.op = "write"
                        /\ a - call.addr \in 0 .. call.size - 1
                        /\ disk'[a] = call.buf[a - call.addr]
    OBVIOUS
  <2>2. fileBytes' # fileBytes
    <3>1. fileBytes'[a] = disk'[a] /\ fileBytes[a] = disk[a]
      BY DEF fileBytes
    <3>2. QED
      BY <2>1, <3>1
  <2>3. PICK S \in SUBSET (0 .. call.size - 1) :
          call.op = "write" /\ call \in Calls /\ disk' = DiskAfter(S, call.addr)
    BY <2>1, <2>2, StepOnFile
  <2>4. a \in 0 .. fileSize
    BY FileSizeMultiple
  <2>5. QED
    BY <2>1, <2>3, <2>4 DEF DiskAfter
<1>2. QED
  BY <1>1, Invariance, PTL DEF Spec, NoStrayWrite

-----------------------------------------------------------------------------
(* Refinement of FlatFile, when the only system call that may fail is mmap. *)

\* After a failed call no window is mapped, so nothing is copied any more.
FailedInv == opened /\ failed => pBuffer = MapFailed

LEMMA NextFailedInv ==
  ASSUME Faults \subseteq {"mmap"}, IInv, FailedInv, [Next]_vars
  PROVE  FailedInv'
<1>1. ~("munmap" \in Faults) /\ ~("open" \in Faults)
  OBVIOUS
<1>2. opened => pBuffer # Wild /\ pBuffer # Null
  BY DEF IInv, WindowInv, FailedInv, TypeOK, Wild, Null, Dangling, MapFailed
<1>3. opened => (FALSE \in MunmapOutcomes => pBuffer = MapFailed)
                /\ (pBuffer = MapFailed => ~(TRUE \in MunmapOutcomes))
  BY <1>1, <1>2 DEF MunmapOutcomes
<1>4. CASE MFileOpen
  <2>1. OpenAndMap
    BY <1>1, <1>4 DEF MFileOpen, OpenRefused
  <2>2. QED
    BY <2>1 DEF OpenAndMap, FailedInv
<1>5. CASE MFileFlush
  BY <1>3, <1>5 DEF MFileFlush, FailedInv
<1>6. ASSUME NEW v, NEW next, opened, Remap(v, next), opened' = opened
      PROVE  FailedInv'
  <2>1. CASE Fail /\ FALSE \in MunmapOutcomes /\ UNCHANGED pBuffer
    BY <1>3, <1>6, <2>1 DEF FailedInv
  <2>2. CASE TRUE \in MunmapOutcomes /\ UNCHANGED failed
    BY <1>3, <1>6, <2>2 DEF FailedInv
  <2>3. QED
    BY <1>6, <2>1, <2>2 DEF Remap
<1>7. CASE BindView
  <2>1. opened /\ opened' = opened
    BY <1>7 DEF BindView, IInv, CallInv
  <2>2. CASE UNCHANGED <<pBuffer, failed>>
    BY <2>1, <2>2 DEF FailedInv
  <2>3. CASE Remap(View, "copy")
    BY <1>6, <2>1, <2>3
  <2>4. QED
    BY <1>7, <2>2, <2>3 DEF BindView
<1>8. CASE ShiftView
  <2>1. opened /\ opened' = opened /\ Remap(mView + 1, "copy2")
    BY <1>8 DEF ShiftView, IInv, CallInv
  <2>2. QED
    BY <1>6, <2>1
<1>9. CASE MFileClose \/ SegmentationFault \/ Killed
  BY <1>9 DEF MFileClose, SegmentationFault, Killed, NewProcess, FailedInv
<1>10. CASE (\E c \in Calls : Begin(c)) \/ CopyFirst \/ SkipCopy \/ CopySecond \/ Return
  BY <1>10 DEF Begin, CopyFirst, SkipCopy, CopySecond, Return, FailedInv
<1>11. CASE UNCHANGED vars
  BY <1>11 DEF vars, FailedInv
<1>12. QED
  BY <1>4, <1>5, <1>7, <1>8, <1>9, <1>10, <1>11 DEF Next

\* The range of a call that starts has still to travel as a whole.
LEMMA WholeRange ==
  ASSUME NEW c \in Calls
  PROVE  {i \in 0 .. c.size - 1 : (c.addr % VIEW_SIZE) + i < VIEW_SIZE}
           \cup {i \in 0 .. c.size - 1 : (c.addr % VIEW_SIZE) + i >= VIEW_SIZE}
         = 0 .. c.size - 1
<1>1. c.addr % VIEW_SIZE \in Int
  BY CallType, DivMod
<1>2. QED
  BY <1>1, MFileAssumption

\* The bytes that land in the file are those that land in the flat file.
LEMMA LandedInFlatFile ==
  ASSUME NEW S, disk' = DiskAfter(S, call.addr)
  PROVE  fileBytes' = FF!Landed(S)
<1>1. \A a \in 0 .. fileSize - 1 : a \in 0 .. fileSize
  BY FileSizeMultiple
<1>2. QED
  BY <1>1 DEF DiskAfter, fileBytes, FF!Landed

LEMMA NothingLanded == FF!Landed({}) = fileBytes
  BY DEF FF!Landed, fileBytes

LEMMA FetchedFromFlatFile ==
  ASSUME call \in Calls, NEW S \in SUBSET (0 .. call.size - 1)
  PROVE  BufAfter(S, call.addr) = FF!Fetched(S)
<1>1. \A i \in S : call.addr + i \in 0 .. fileSize - 1
  BY CallType, FileSizeMultiple
<1>2. QED
  BY <1>1 DEF BufAfter, FF!Fetched, fileBytes

LEMMA MemCopyTransfers ==
  ASSUME call \in Calls, NEW S \in SUBSET (0 .. call.size - 1),
         MemCopy(S, call.addr), status = "busy", UNCHANGED status,
         S \subseteq toCopy, toCopy' = toCopy \ S
  PROVE  FF!Transfer(S)
<1>1. CASE call.op = "read" /\ UNCHANGED disk
           /\ call' = [call EXCEPT !.buf = BufAfter(S, call.addr)]
  <2>1. fileBytes' = fileBytes
    BY <1>1 DEF fileBytes
  <2>2. QED
    BY <1>1, <2>1, FetchedFromFlatFile DEF FF!Transfer
<1>2. CASE call.op = "write" /\ disk' = DiskAfter(S, call.addr) /\ UNCHANGED call
  BY <1>2, LandedInFlatFile DEF FF!Transfer
<1>3. QED
  BY <1>1, <1>2 DEF MemCopy

LEMMA InitRefines == Init => FF!Init
<1> SUFFICES ASSUME Init PROVE FF!Init
  OBVIOUS
<1>1. fileBytes \in [0 .. fileSize - 1 -> Byte]
  BY FileSizeMultiple, MFileAssumption DEF Init, fileBytes
<1>2. QED
  BY <1>1 DEF Init, FF!Init, toCopy, NoCall

\* The end of the process, or of a session, is the abstract Forget.
LEMMA ForgetNothing ==
  ASSUME fileBytes' = fileBytes, call' = NoCall, pc' = "idle", status' = "none"
  PROVE  FF!Forget({})
<1>1. toCopy' = {}
  BY DEF toCopy
<1>2. QED
  BY <1>1, NothingLanded DEF FF!Forget, NoCall

LEMMA StepRefines ==
  ASSUME Faults \subseteq {"mmap"}, IInv, FailedInv, [Next]_vars
  PROVE  [FF!Next]_(FF!vars)
<1> USE DEF FF!vars
<1>1. CASE MFileOpen
  <2>1. fileBytes' = fileBytes
    BY <1>1, FileSizeMultiple
       DEF MFileOpen, OpenRefused, OpenAndMap, fileBytes, IInv, TypeOK
  <2>2. FF!Forget({})
    BY <1>1, <2>1, ForgetNothing DEF MFileOpen
  <2>3. QED
    BY <2>2 DEF FF!Next
<1>2. CASE MFileFlush \/ MFileClose
  BY <1>2 DEF MFileFlush, MFileClose, fileBytes, toCopy, FirstPart, SecondPart, Offset
<1>3. ASSUME NEW c \in Calls, Begin(c) PROVE [FF!Next]_(FF!vars)
  <2>1. toCopy' = 0 .. c.size - 1
    BY <1>3, WholeRange DEF Begin, toCopy, FirstPart, SecondPart, Offset
  <2>2. status # "busy"
    BY <1>3 DEF Begin, IInv, CallInv
  <2>3. FF!Begin(c)
    BY <1>3, <2>1, <2>2 DEF Begin, FF!Begin, fileBytes
  <2>4. QED
    BY <2>3 DEF FF!Next, Calls
<1>4. CASE BindView
  <2>1. /\ pc = "bind" /\ status = "busy" /\ UNCHANGED <<disk, call>>
        /\ \/ pc' = "copy" /\ status' = status
           \/ pc' = "idle" /\ status' = "FAILURE"
    BY <1>4 DEF BindView, Remap, Fail, IInv, CallInv
  <2>2. CASE pc' = "copy" /\ status' = status
    BY <2>1, <2>2 DEF fileBytes, toCopy, FirstPart, SecondPart, Offset
  <2>3. CASE pc' = "idle" /\ status' = "FAILURE"
    BY <2>1, <2>3 DEF fileBytes, toCopy, FF!Next, FF!Fail
  <2>4. QED
    BY <2>1, <2>2, <2>3
<1>5. CASE CopyFirst
  <2>1. /\ pc = "copy" /\ status = "busy" /\ call \in Calls /\ opened
        /\ pBuffer \notin BadPointer /\ UNCHANGED status
        /\ pc' = IF Crosses THEN "shift" ELSE "ret"
    BY <1>5 DEF CopyFirst, IInv, CallInv
  <2>2. ~failed
    BY <2>1 DEF FailedInv, BadPointer
  <2>3. MemCopy(FirstPart, call.addr)
    BY <1>5, <2>1, <2>2, TrustedBase DEF CopyFirst
  <2>4. FirstPart \in SUBSET (0 .. call.size - 1)
    BY DEF FirstPart
  <2>5. SecondPart' = SecondPart
    <3>1. call'.addr = call.addr /\ call'.size = call.size
      BY <2>1, <2>3 DEF MemCopy, Calls, FF!Calls
    <3>2. QED
      BY <3>1 DEF SecondPart, Offset
  <2>6. FirstPart \subseteq toCopy /\ toCopy' = toCopy \ FirstPart
    <3>1. Offset \in Int /\ toCopy = FirstPart \cup SecondPart
      BY <2>1, RangeSplit DEF toCopy
    <3>2. FirstPart \cap SecondPart = {}
      BY <3>1, MFileAssumption DEF FirstPart, SecondPart
    <3>3. CASE Crosses
      BY <2>1, <2>5, <3>1, <3>2, <3>3 DEF toCopy
    <3>4. CASE ~Crosses
      BY <2>1, <3>1, <3>2, <3>4, RangeSplit DEF toCopy
    <3>5. QED
      BY <3>3, <3>4
  <2>7. FF!Transfer(FirstPart)
    BY <2>1, <2>3, <2>4, <2>6, MemCopyTransfers
  <2>8. QED
    BY <2>6, <2>7 DEF FF!Next
<1>6. CASE SkipCopy
  BY <1>6 DEF SkipCopy, IInv, CallInv, WindowInv, FailedInv, TypeOK,
              Null, Dangling, MapFailed
<1>7. CASE ShiftView
  <2>1. /\ pc = "shift" /\ status = "busy" /\ UNCHANGED <<disk, call>>
        /\ \/ pc' = "copy2" /\ status' = status
           \/ pc' = "idle" /\ status' = "FAILURE"
    BY <1>7 DEF ShiftView, Remap, Fail, IInv, CallInv
  <2>2. CASE pc' = "copy2" /\ status' = status
    BY <2>1, <2>2 DEF fileBytes, toCopy, SecondPart, Offset
  <2>3. CASE pc' = "idle" /\ status' = "FAILURE"
    BY <2>1, <2>3 DEF fileBytes, toCopy, FF!Next, FF!Fail
  <2>4. QED
    BY <2>1, <2>2, <2>3
<1>8. CASE CopySecond
  <2>1. /\ pc = "copy2" /\ status = "busy" /\ call \in Calls /\ opened
        /\ pBuffer \notin BadPointer /\ UNCHANGED status /\ pc' = "ret"
    BY <1>8 DEF CopySecond, IInv, CallInv
  <2>2. ~failed
    BY <2>1 DEF FailedInv, BadPointer
  <2>3. MemCopy(SecondPart, call.addr)
    BY <1>8, <2>1, <2>2, TrustedBase DEF CopySecond
  <2>4. SecondPart \in SUBSET (0 .. call.size - 1)
    BY DEF SecondPart
  <2>5. SecondPart \subseteq toCopy /\ toCopy' = toCopy \ SecondPart
    BY <2>1 DEF toCopy
  <2>6. FF!Transfer(SecondPart)
    BY <2>1, <2>3, <2>4, <2>5, MemCopyTransfers
  <2>7. QED
    BY <2>5, <2>6 DEF FF!Next
<1>9. CASE Return
  <2>1. status = "busy" /\ toCopy = {} /\ toCopy' = {}
    BY <1>9 DEF Return, IInv, CallInv, toCopy
  <2>2. FF!Return
    BY <1>9, <2>1 DEF Return, FF!Return, fileBytes
  <2>3. QED
    BY <2>2 DEF FF!Next
<1>10. CASE NewProcess /\ UNCHANGED disk
  <2>1. FF!Forget({})
    BY <1>10, ForgetNothing DEF NewProcess, fileBytes
  <2>2. QED
    BY <2>1 DEF FF!Next
<1>11. ASSUME NewProcess, pc \in {"copy", "copy2"}, call.op = "write",
              NEW S \in SUBSET toCopy, disk' = DiskAfter(S, call.addr)
       PROVE  [FF!Next]_(FF!vars)
  <2>1. fileBytes' = FF!Landed(S)
    BY <1>11, LandedInFlatFile
  <2>2. toCopy' = {}
    BY <1>11 DEF NewProcess, toCopy
  <2>3. FF!Forget(S)
    BY <1>11, <2>1, <2>2 DEF NewProcess, FF!Forget, NoCall
  <2>4. QED
    BY <2>3 DEF FF!Next
<1>12. CASE Killed
  <2>1. opened /\ pBuffer \notin BadPointer => ~failed
    BY DEF FailedInv, BadPointer
  <2>2. pc \in {"copy", "copy2"} => opened
    BY DEF IInv, CallInv
  <2>3. CASE UNCHANGED disk
    BY <1>10, <1>12, <2>3 DEF Killed
  <2>4. ASSUME pc = "copy", pBuffer \notin BadPointer, call.op = "write",
               NEW S \in SUBSET FirstPart, disk' = DiskAfter(S, FirstBase)
        PROVE  [FF!Next]_(FF!vars)
    <3>1. S \in SUBSET toCopy /\ disk' = DiskAfter(S, call.addr)
      BY <2>1, <2>2, <2>4, TrustedBase DEF toCopy
    <3>2. QED
      BY <1>11, <1>12, <2>4, <3>1 DEF Killed
  <2>5. ASSUME pc = "copy2", pBuffer \notin BadPointer, call.op = "write",
               NEW S \in SUBSET SecondPart, disk' = DiskAfter(S, SecondBase)
        PROVE  [FF!Next]_(FF!vars)
    <3>1. S \in SUBSET toCopy /\ disk' = DiskAfter(S, call.addr)
      BY <2>1, <2>2, <2>5, TrustedBase DEF toCopy
    <3>2. QED
      BY <1>11, <1>12, <2>5, <3>1 DEF Killed
  <2>6. QED
    BY <1>12, <2>3, <2>4, <2>5 DEF Killed
<1>13. CASE UNCHANGED vars
  BY <1>13 DEF vars, fileBytes, toCopy, FirstPart, SecondPart, Offset
<1>14. QED
  BY <1>1, <1>2, <1>3, <1>4, <1>5, <1>6, <1>7, <1>8, <1>9, <1>10, <1>12, <1>13
     DEF Next, SegmentationFault

\* When only mmap can fail, the sliding window implements the flat file: each
\* step of MFileOpen, MFileRead, MFileWrite, or the death of the process is a
\* step of FlatFile or changes nothing its users see.
THEOREM Refinement ==
  ASSUME Faults \subseteq {"mmap"}
  PROVE  Spec => FlatFileSpec
<1>1. Init => FailedInv
  BY DEF Init, FailedInv
<1>2. IInv /\ FailedInv /\ [Next]_vars => FailedInv'
  BY NextFailedInv
<1>3. IInv /\ FailedInv /\ [Next]_vars => [FF!Next]_(FF!vars)
  BY StepRefines
<1>4. QED
  BY <1>1, <1>2, <1>3, InitRefines, Invariance, PTL DEF Spec, FlatFileSpec, FF!Spec
=============================================================================
