-------------------------- MODULE NandPagesProofs ---------------------------
(***************************************************************************)
(* Addresses of the chip, for every geometry.                              *)
(***************************************************************************)
EXTENDS NandPages, TLAPS

LEMMA QuotientRemainder ==
  ASSUME NEW a \in Nat, NEW n \in Nat \ {0}
  PROVE  /\ a \div n \in Nat
         /\ a % n \in 0 .. n - 1
         /\ a = (a \div n) * n + (a % n)
  OBVIOUS

LEMMA ProductMonotone ==
  ASSUME NEW a \in Nat, NEW b \in Nat, NEW n \in Nat, a <= b
  PROVE  a * n <= b * n
<1>1. b = a + (b - a) /\ b - a \in Nat
  OBVIOUS
<1>2. b * n = a * n + (b - a) * n
  BY <1>1
<1>3. (b - a) * n \in Nat /\ a * n \in Nat /\ b * n \in Nat
  BY <1>1
<1>4. QED
  BY <1>2, <1>3

LEMMA QuotientBound ==
  ASSUME NEW a \in Nat, NEW n \in Nat \ {0}
  PROVE  a \div n \in 0 .. a
<1> DEFINE q == a \div n
<1>1. q \in Nat /\ a % n \in Nat /\ a = q * n + (a % n)
  BY QuotientRemainder
<1> HIDE DEF q
<1>2. 1 * q <= n * q
  BY <1>1, ProductMonotone
<1>3. n * q \in Nat /\ n * q = q * n
  BY <1>1
<1>4. q <= a
  BY <1>1, <1>2, <1>3
<1>5. QED
  BY <1>1, <1>4 DEF q

LEMMA SmallRemainder ==
  ASSUME NEW a \in Nat, NEW n \in Nat \ {0}, a < n
  PROVE  a % n = a
<1> DEFINE q == a \div n
<1>1. q \in Nat /\ a % n \in Nat /\ a = q * n + (a % n)
  BY QuotientRemainder
<1> HIDE DEF q
<1>2. ASSUME q >= 1 PROVE FALSE
  <2>1. 1 * n <= q * n
    BY <1>1, <1>2, ProductMonotone
  <2>2. q * n \in Nat
    BY <1>1
  <2>3. QED
    BY <1>1, <2>1, <2>2
<1>3. q = 0
  BY <1>1, <1>2
<1>4. QED
  BY <1>1, <1>3

LEMMA Sizes ==
  /\ PagesPerChip \in Nat \ {0}
  /\ PagesPerBlock <= PagesPerChip
  /\ Pages \subseteq PhysicalPages
  /\ Pages \subseteq Nat
  /\ PhysicalPages \subseteq Nat
<1>1. 1 * PagesPerBlock <= BlocksPerChip * PagesPerBlock
  BY ProductMonotone, NandAssumption
<1>2. BlocksPerChip * PagesPerBlock \in Nat
  BY NandAssumption
<1>3. PagesPerChip \in Nat \ {0} /\ PagesPerBlock <= PagesPerChip
  BY <1>1, <1>2, NandAssumption DEF PagesPerChip
<1>4. QED
  BY <1>3, NandAssumption DEF Pages, PhysicalPages

\* Splitting the number of a page into plane, block and page and putting it
\* together again changes nothing, for pages behind the end of the chip too
\* (ConvertPageAddr).
THEOREM ConvertIsIdentity ==
  ASSUME NEW page \in Nat
  PROVE  ConvertPageAddr(page) = page
<1> DEFINE half == BlocksPerChip \div 2
           blk  == page \div PagesPerBlock
<1>1. half \in Nat \ {0}
  BY NandAssumption
<1>2. blk \in Nat /\ page = blk * PagesPerBlock + (page % PagesPerBlock)
                  /\ page % PagesPerBlock \in Nat
  BY QuotientRemainder, NandAssumption
<1>3. (blk \div half) * half + (blk % half) = blk
      /\ blk % half \in Nat /\ (blk \div half) * half \in Nat
  <2> HIDE DEF half, blk
  <2>1. blk \div half \in Nat /\ blk % half \in 0 .. half - 1
        /\ blk = (blk \div half) * half + (blk % half)
    BY <1>1, <1>2, QuotientRemainder
  <2>2. QED
    BY <1>1, <2>1
<1>4. ConvertPageAddr(page) =
        (page % PagesPerBlock) + ((blk % half) + (blk \div half) * half) * PagesPerBlock
  BY DEF ConvertPageAddr
<1>5. (blk % half) + (blk \div half) * half = blk
  <2> HIDE DEF half, blk
  <2>1. QED
    BY <1>3
<1>6. ConvertPageAddr(page) = (page % PagesPerBlock) + blk * PagesPerBlock
  BY <1>4, <1>5
<1>7. QED
  <2> HIDE DEF blk
  <2>1. blk * PagesPerBlock \in Nat
    BY <1>2, NandAssumption
  <2>2. QED
    BY <1>2, <1>6, <2>1

\* Every page number of the chip leads to a page of its file, although the
\* offset in the page is added to it (Nand_ReadSpare, Nand_WriteSpare, ...).
THEOREM SkewInFile ==
  ASSUME NEW p \in Pages
  PROVE  Skew(p) \in PhysicalPages
<1>1. p \in Nat /\ p < PagesPerChip
  BY Sizes DEF Pages
<1>2. p % FilePage \in 0 .. FilePage - 1
  BY <1>1, QuotientRemainder, NandAssumption
<1>3. Skew(p) = p + (p % FilePage)
  BY <1>1, <1>2, ConvertIsIdentity, NandAssumption DEF Skew, PageAddr
<1>4. QED
  BY <1>1, <1>2, <1>3, Sizes, NandAssumption DEF PhysicalPages

LEMMA BlockInChip ==
  ASSUME NEW blk \in Blocks
  PROVE  /\ blk * PagesPerBlock \in Nat
         /\ blk * PagesPerBlock + PagesPerBlock <= PagesPerChip
         /\ PagesOf(blk) \subseteq Pages
         /\ blk * PagesPerBlock \in Pages
<1>1. blk \in Nat /\ blk + 1 <= BlocksPerChip
  BY NandAssumption DEF Blocks
<1>2. (blk + 1) * PagesPerBlock <= BlocksPerChip * PagesPerBlock
  BY <1>1, ProductMonotone, NandAssumption
<1>3. (blk + 1) * PagesPerBlock = blk * PagesPerBlock + PagesPerBlock
      /\ blk * PagesPerBlock \in Nat
  BY <1>1, NandAssumption
<1>4. QED
  BY <1>2, <1>3, NandAssumption, Sizes DEF PagesOf, Pages, PagesPerChip

\* The bytes Nand_EraseBlock overwrites for the first page of a block are the
\* pages of that block (NandEraseFromBlock).
THEOREM ErasedIsBlock ==
  ASSUME NEW blk \in Blocks
  PROVE  ErasedBy(blk * PagesPerBlock) = PagesOf(blk)
<1>1. blk \in Nat /\ blk * PagesPerBlock \in Nat
  BY BlockInChip DEF Blocks
<1>2. (blk * PagesPerBlock) \div PagesPerBlock = blk
  BY <1>1, NandAssumption
<1>3. QED
  BY <1>1, <1>2, ConvertIsIdentity DEF ErasedBy, PagesOf
=============================================================================
