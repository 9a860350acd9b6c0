-------------------------------- MODULE ECC ---------------------------------
(***************************************************************************)
(* FTL_ECC.c: the error correcting code of a page, and what it does about  *)
(* bits that change between the programming and the reading of the page.   *)
(*                                                                         *)
(* A byte is the set of the positions of its 1 bits.  The 22 parity bits   *)
(* are kept as the sets of those that are 1, each pair of bits that the    *)
(* code stores side by side (p and p') under the same number; how they are *)
(* spread over the three bytes of the code is left out.                    *)
(***************************************************************************)
EXTENDS Integers, FiniteSetsExt

CONSTANTS
  LineBits, \* 2^LineBits bytes are covered: 8, 256 bytes
  ColBits,  \* a byte has 2^ColBits bits: 3, 8 bits
  Data,     \* contents that are programmed
  MaxFlips  \* bound: bits that change

ASSUME ECCAssumption ==
  /\ LineBits \in Nat \ {0}
  /\ ColBits \in Nat \ {0, 1}  \* of 2 pairs of parities, 2 bits of the code make up a bit
  /\ Data \subseteq [0 .. 2^LineBits - 1 -> SUBSET (0 .. 2^ColBits - 1)]
  /\ MaxFlips \in Nat

Bytes == 0 .. 2^LineBits - 1
Bits  == 0 .. 2^ColBits - 1
Lines == 0 .. LineBits - 1
Cols  == 0 .. ColBits - 1

\* The two bits of the third byte that are no parity: always 1.
Unused == {0, 1}

Code == [line : SUBSET Lines, line_prime : SUBSET Lines,
         col : SUBSET Cols, col_prime : SUBSET Cols, unused : SUBSET Unused]

\* The 1 bits of a number, and the number that has given 1 bits: nand_correct_data
\* adds up the weights of the bits below width, one after the other.
OneBits(n, width) == {k \in width : (n \div 2^k) % 2 = 1}
Number(ones, width) ==
  LET sum[k \in 0 .. width] ==
        IF k = 0
          THEN 0
          ELSE sum[k - 1] + (IF k - 1 \in ones THEN 2^(k - 1) ELSE 0)
  IN  sum[width]

Odd(S) == Cardinality(S) % 2 = 1

\* Mutant: the parities of the 1 bits that have not a bit of the position are
\* those of the bits that have it.
ColumnsNotPrimed(b) ==
  [col       |-> {k \in Cols : Odd({i \in b : k \in OneBits(i, Cols)})},
   col_prime |-> {k \in Cols : Odd({i \in b : k \in OneBits(i, Cols)})},
   odd       |-> Odd(b)]

\* The entry of a byte: for each bit of a bit's position, the parity of the 1
\* bits that have it and of those that have not; and the parity of the byte.
column_parity_table(b) ==
  [col       |-> {k \in Cols : Odd({i \in b : k \in OneBits(i, Cols)})},
   col_prime |-> {k \in Cols : Odd({i \in b : k \notin OneBits(i, Cols)})},
   odd       |-> Odd(b)]

NoParity == [line |-> {}, line_prime |-> {}, col |-> {}, col_prime |-> {}]

\* The loop of nand_calculate_ecc: its body for byte n, of value b, and the
\* parities of all bytes.
AddByte(p, n, b) ==
  LET t == column_parity_table(b)
      i == OneBits(n, Lines)
  IN  [line       |-> IF t.odd THEN SymDiff(p.line, i) ELSE p.line,
       line_prime |-> IF t.odd THEN SymDiff(p.line_prime, Lines \ i) ELSE p.line_prime,
       col        |-> SymDiff(p.col, t.col),
       col_prime  |-> SymDiff(p.col_prime, t.col_prime)]

ParitiesOf(data) ==
  LET parity[n \in 0 .. 2^LineBits] ==
        IF n = 0 THEN NoParity ELSE AddByte(parity[n - 1], n - 1, data[n - 1])
  IN  parity[2^LineBits]

\* Mutant: the parities are not complemented.
CodeNotComplemented(data) ==
  LET p == ParitiesOf(data)
  IN  [line |-> p.line, line_prime |-> p.line_prime,
       col |-> p.col, col_prime |-> p.col_prime, unused |-> Unused]

\* Mutant: the complement is taken over more bits than there are parities.
CodeNotMasked(data) ==
  LET p == ParitiesOf(data)
  IN  [line |-> Lines \ p.line, line_prime |-> Lines \ p.line_prime,
       col |-> Bits \ p.col, col_prime |-> Cols \ p.col_prime, unused |-> Unused]

\* The code is the complement of the parities.
nand_calculate_ecc(data) ==
  LET p == ParitiesOf(data)
  IN  [line |-> Lines \ p.line, line_prime |-> Lines \ p.line_prime,
       col |-> Cols \ p.col, col_prime |-> Cols \ p.col_prime, unused |-> Unused]

Delta(read, test) ==
  [field \in DOMAIN read |-> SymDiff(read[field], test[field])]

yaffs_CountBits(d) ==
  Cardinality(d.line) + Cardinality(d.line_prime) + Cardinality(d.col)
    + Cardinality(d.col_prime) + Cardinality(d.unused)

\* Mutant: only the line parities are looked at.
SingleBitByLine(d) == SymDiff(d.line, d.line_prime) = Lines

\* One bit of every pair differs.
SingleBit(d) ==
  /\ SymDiff(d.line, d.line_prime) = Lines
  /\ SymDiff(d.col, d.col_prime) = Cols

Toggled(data, byte, bit) == [data EXCEPT ![byte] = SymDiff(@, {bit})]

VARIABLES
  written,  \* the contents the page was programmed with
  data,     \* what is read of it
  read_ecc, \* what is read of its code
  flips,    \* bits that changed in between
  ret       \* what nand_correct_data returned, or Pending

Pending == 2

vars == <<written, data, read_ecc, flips, ret>>

Init ==
  /\ written \in Data
  /\ data = written
  /\ read_ecc = nand_calculate_ecc(written)
  /\ flips = 0
  /\ ret = Pending

\* A bit of the page, or of its code, changes.
FlipData(byte, bit) ==
  /\ ret = Pending
  /\ flips < MaxFlips
  /\ flips' = flips + 1
  /\ data' = Toggled(data, byte, bit)
  /\ UNCHANGED <<written, read_ecc, ret>>

FlipCode(field, k) ==
  /\ ret = Pending
  /\ flips < MaxFlips
  /\ flips' = flips + 1
  /\ read_ecc' = [read_ecc EXCEPT ![field] = SymDiff(@, {k})]
  /\ UNCHANGED <<written, data, ret>>

\* nand_correct_data, on the code computed from the data that were read.
nand_correct_data ==
  LET test_ecc == nand_calculate_ecc(data)
      d == Delta(read_ecc, test_ecc)
  IN  /\ ret = Pending
      /\ \/ /\ yaffs_CountBits(d) = 0
            /\ ret' = 0
            /\ UNCHANGED <<data, read_ecc>>
         \/ /\ SingleBit(d)
            /\ data' = Toggled(data, Number(d.line, LineBits), Number(d.col, ColBits))
            /\ ret' = 1
            /\ UNCHANGED read_ecc
         \/ /\ ~SingleBit(d)
            /\ yaffs_CountBits(d) = 1
            /\ read_ecc' = test_ecc
            /\ ret' = 1
            /\ UNCHANGED data
         \/ /\ ~SingleBit(d)
            /\ yaffs_CountBits(d) > 1
            /\ ret' = -1
            /\ UNCHANGED <<data, read_ecc>>
      /\ UNCHANGED <<written, flips>>

Next ==
  \/ \E byte \in Bytes, bit \in Bits : FlipData(byte, bit)
  \/ \E k \in Lines : FlipCode("line", k) \/ FlipCode("line_prime", k)
  \/ \E k \in Cols : FlipCode("col", k) \/ FlipCode("col_prime", k)
  \/ \E k \in Unused : FlipCode("unused", k)
  \/ nand_correct_data

Spec == Init /\ [][Next]_vars

-----------------------------------------------------------------------------

\* The types of the variables: a corrected byte is a byte of the page.
TypeOK ==
  /\ written \in [Bytes -> SUBSET Bits]
  /\ data \in [Bytes -> SUBSET Bits]
  /\ read_ecc \in Code
  /\ flips \in 0 .. MaxFlips
  /\ ret \in {Pending, 0, 1, -1}

\* One bit that changed, wherever it is in the page or in its code, is found
\* and put right: data and code are those that were programmed.
OneFlipIsCorrected ==
  ret # Pending /\ flips <= 1 =>
    /\ ret # -1
    /\ data = written
    /\ read_ecc = nand_calculate_ecc(written)

\* Two bits that changed are never taken for something that can be corrected
\* into other data: nand_correct_data returns -1, or the data are right.
TwoFlipsAreNotMiscorrected ==
  ret \in {0, 1} /\ flips <= 2 => data = written

\* What makes them inductive: which bits have changed so far, and how many of the
\* code.
DataFlip(from, to) == \E byte \in Bytes, bit \in Bits : to = Toggled(from, byte, bit)
ChangedCode == yaffs_CountBits(Delta(read_ecc, nand_calculate_ecc(written)))

FlipInv ==
  ret = Pending =>
    /\ flips = 0 => data = written /\ ChangedCode = 0
    /\ flips = 1 =>
         \/ data = written /\ ChangedCode <= 1
         \/ DataFlip(written, data) /\ ChangedCode = 0
    /\ flips = 2 =>
         \/ data = written /\ ChangedCode <= 2
         \/ DataFlip(written, data) /\ ChangedCode <= 1
         \/ /\ \E byte \in Bytes, bit \in Bits : DataFlip(Toggled(written, byte, bit), data)
            /\ ChangedCode = 0

\* A page that was erased, all bits 1, agrees with the code its erased spare
\* area holds, all bits 1: it is not reported as an error.
ErasedPageAgrees ==
  (\A byte \in Bytes : written[byte] = Bits) /\ flips = 0 =>
    read_ecc = [line |-> Lines, line_prime |-> Lines, col |-> Cols,
                col_prime |-> Cols, unused |-> Unused]
=============================================================================
