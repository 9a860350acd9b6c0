----------------------------- MODULE ECCProofs ------------------------------
(***************************************************************************)
(* The error correcting code for every page: however many bytes it covers  *)
(* and whatever they hold, one changed bit is put right and two are not    *)
(* taken for one.                                                          *)
(*                                                                         *)
(* The loops of the code are recursive functions.  What they compute is    *)
(* proved by induction in the form of Induction below, on a set of         *)
(* numbers instead of a predicate.                                         *)
(***************************************************************************)
EXTENDS ECC, FiniteSetTheorems, TLAPS

-----------------------------------------------------------------------------
(* Induction.                                                              *)

\* A set of natural numbers has a least element.
LEMMA LeastElement ==
  ASSUME NEW S, S \subseteq Nat, S # {}
  PROVE  \E m \in S : \A n \in S : m <= n
<1>1. IsWellFoundedOn(OpToRel(<, Nat), Nat)
  BY NatLessThanWellFounded
<1>2. \E m \in S : \A n \in S : ~(<<n, m>> \in OpToRel(<, Nat))
  BY <1>1, WFMin
<1>3. PICK m \in S : \A n \in S : ~(n < m)
  BY <1>2 DEF OpToRel
<1>4. \A n \in S : m <= n
  BY <1>3
<1>. QED
  BY <1>4

\* A set that has 0 and with every number the next has all of them.
LEMMA Induction ==
  ASSUME NEW S, 0 \in S, \A n \in Nat : n \in S => n + 1 \in S
  PROVE  \A n \in Nat : n \in S
<1>1. SUFFICES ASSUME Nat \ S # {}
               PROVE  FALSE
  OBVIOUS
<1>2. PICK m \in Nat \ S : \A n \in Nat \ S : m <= n
  BY <1>1, LeastElement
<1>3. m - 1 \in Nat /\ m - 1 \in S
  BY <1>2
<1>. QED
  BY <1>2, <1>3

\* Up to a bound: what holds at 0 and is passed on below w holds up to w.
LEMMA InductionTo ==
  ASSUME NEW S, NEW w \in Nat, 0 \in S, \A n \in 0 .. w - 1 : n \in S => n + 1 \in S
  PROVE  \A n \in 0 .. w : n \in S
<1> DEFINE T == {n \in Nat : n <= w => n \in S}
<1>1. 0 \in T
  OBVIOUS
<1>2. \A n \in Nat : n \in T => n + 1 \in T
  OBVIOUS
<1> HIDE DEF T
<1>3. \A n \in Nat : n \in T
  BY <1>1, <1>2, Induction
<1>. QED
  BY <1>3 DEF T

\* f has the values that a loop goes through in w rounds: it starts from c, and
\* round n does step.
IsTrace(f, c, step, w) ==
  f[0] = c /\ \A n \in 0 .. w - 1 : f[n + 1] = step[<<f[n], n>>]

LEMMA LoopHasTrace ==
  ASSUME NEW S, NEW c \in S, NEW w \in Nat, NEW step \in [S \X Nat -> S]
  PROVE  \E f \in [0 .. w -> S] : IsTrace(f, c, step, w)
<1> USE DEF IsTrace
<1> DEFINE Trace(f, m) == IsTrace(f, c, step, m)
           T == {m \in Nat : \E f \in [0 .. m -> S] : Trace(f, m)}
<1>1. 0 \in T
  <2>1. [n \in 0 .. 0 |-> c] \in [0 .. 0 -> S] /\ Trace([n \in 0 .. 0 |-> c], 0)
    OBVIOUS
  <2>. QED
    BY <2>1
<1>2. ASSUME NEW m \in Nat, m \in T
      PROVE  m + 1 \in T
  <2>1. PICK f \in [0 .. m -> S] : Trace(f, m)
    BY <1>2
  <2> DEFINE g == [n \in 0 .. m + 1 |-> IF n = m + 1 THEN step[<<f[m], m>>] ELSE f[n]]
  <2>2. g \in [0 .. m + 1 -> S]
    OBVIOUS
  <2>3. Trace(g, m + 1)
    <3>1. g[0] = c
      BY <2>1
    <3>2. ASSUME NEW n \in 0 .. m
          PROVE  g[n + 1] = step[<<g[n], n>>]
      <4>1. CASE n = m
        <5>1. g[m + 1] = step[<<f[m], m>>] /\ g[m] = f[m]
          OBVIOUS
        <5>. QED
          BY <4>1, <5>1
      <4>2. CASE n \in 0 .. m - 1
        <5>1. f[n + 1] = step[<<f[n], n>>]
          BY <2>1, <4>2
        <5>2. g[n + 1] = f[n + 1] /\ g[n] = f[n]
          BY <4>2
        <5>. QED
          BY <5>1, <5>2
      <4>. QED
        BY <4>1, <4>2
    <3>3. 0 .. (m + 1) - 1 = 0 .. m
      OBVIOUS
    <3> HIDE DEF g
    <3>. QED
      BY <3>1, <3>2, <3>3
  <2>4. \E h \in [0 .. m + 1 -> S] : Trace(h, m + 1)
    <3> HIDE DEF Trace, g
    <3>. QED
      BY <2>2, <2>3
  <2>. QED
    BY <2>4
<1> HIDE DEF T
<1>3. w \in T
  BY <1>1, <1>2, Induction
<1>. QED
  BY <1>3 DEF T

-----------------------------------------------------------------------------
(* Powers of two, and the bits of a number.                                *)

\* 2^k counts the subsets of 1 .. k.
LEMMA PowerIsNat ==
  ASSUME NEW k \in Nat
  PROVE  /\ IsFiniteSet(SUBSET (1 .. k))
         /\ Cardinality(SUBSET (1 .. k)) = 2^k
         /\ 2^k \in Nat
<1>1. IsFiniteSet(1 .. k) /\ Cardinality(1 .. k) = k
  BY FS_Interval
<1>2. Cardinality(SUBSET (1 .. k)) = 2^k /\ IsFiniteSet(SUBSET (1 .. k))
  BY <1>1, FS_SUBSET
<1>. QED
  BY <1>2, FS_CardinalityType

\* Half of the subsets of 1 .. k + 1 have k + 1, the others are those of 1 .. k.
LEMMA PowerDoubles ==
  ASSUME NEW k \in Nat
  PROVE  2^(k + 1) = 2 * 2^k
<1> DEFINE A == SUBSET (1 .. k)
           B == {T \in SUBSET (1 .. k + 1) : k + 1 \in T}
           f == [T \in A |-> T \cup {k + 1}]
<1>1. f \in Bijection(A, B)
  <2>1. f \in [A -> B]
    OBVIOUS
  <2>2. ASSUME NEW T \in A, NEW U \in A, f[T] = f[U]
        PROVE  T = U
    <3>1. T \cup {k + 1} = U \cup {k + 1} /\ k + 1 \notin T /\ k + 1 \notin U
      BY <2>2
    <3>. QED
      BY <3>1
  <2>3. ASSUME NEW T \in B
        PROVE  \E U \in A : f[U] = T
    <3>1. T \ {k + 1} \in A /\ (T \ {k + 1}) \cup {k + 1} = T
      OBVIOUS
    <3>. QED
      BY <3>1
  <2>. QED
    BY <2>1, <2>2, <2>3 DEF Bijection, Injection, Surjection, IsInjective
<1>2. /\ A \cup B = SUBSET (1 .. k + 1)
      /\ A \cap B = {}
  OBVIOUS
<1>3. /\ IsFiniteSet(A) /\ Cardinality(A) = 2^k /\ 2^k \in Nat
      /\ Cardinality(SUBSET (1 .. k + 1)) = 2^(k + 1)
  <2>1. k + 1 \in Nat
    OBVIOUS
  <2> HIDE DEF f, B
  <2>. QED
    BY <2>1, PowerIsNat
<1> HIDE DEF A, B, f
<1>4. IsFiniteSet(B) /\ Cardinality(B) = Cardinality(A)
  BY <1>1, <1>3, FS_Bijection DEF ExistsBijection
<1>5. Cardinality(A \cup B) = Cardinality(A) + Cardinality(B) - Cardinality(A \cap B)
  BY <1>3, <1>4, FS_Union
<1>6. Cardinality(A \cup B) = 2^k + 2^k - 0
  BY <1>2, <1>3, <1>4, <1>5, FS_EmptySet
<1>7. Cardinality(A \cup B) = 2^(k + 1)
  BY <1>2, <1>3
<1>. QED
  BY <1>3, <1>6, <1>7

LEMMA PowerOfTwo ==
  /\ 2^0 = 1
  /\ \A k \in Nat : 2^k \in Nat \ {0} /\ 2^(k + 1) = 2 * 2^k
<1>1. 2^0 = 1
  OBVIOUS
<1> DEFINE S == {k \in Nat : 2^k # 0}
<1>2. 0 \in S
  BY <1>1
<1>3. \A k \in Nat : k \in S => k + 1 \in S
  BY PowerIsNat, PowerDoubles
<1> HIDE DEF S
<1>4. \A k \in Nat : k \in S
  BY <1>2, <1>3, Induction
<1>. QED
  BY <1>1, <1>4, PowerIsNat, PowerDoubles DEF S

\* Dividing by two powers of two, one after the other.
LEMMA Quotients ==
  ASSUME NEW n \in Nat, NEW P \in Nat \ {0}
  PROVE  /\ n \div P \in Nat
         /\ n % P \in 0 .. P - 1
         /\ n = P * (n \div P) + (n % P)
         /\ n % (2 * P) = (n % P) + P * ((n \div P) % 2)
<1>1. /\ n \div P \in Nat
      /\ n % P \in 0 .. P - 1
      /\ n = P * (n \div P) + (n % P)
  OBVIOUS
<1>2. n \div (2 * P) = (n \div P) \div 2
  OBVIOUS
<1> DEFINE q == n \div P
           h == q \div 2
<1>3. q \in Nat /\ h \in Nat /\ q = 2 * h + (q % 2)
  BY <1>1
<1>4. n = (2 * P) * (n \div (2 * P)) + (n % (2 * P)) /\ n % (2 * P) \in Nat
  <2> DEFINE D == 2 * P
  <2>1. D \in Nat \ {0}
    OBVIOUS
  <2> HIDE DEF D
  <2>2. n = D * (n \div D) + (n % D) /\ n % D \in Nat
    BY <2>1
  <2>. QED
    BY <2>2 DEF D
<1>5. n = (2 * P) * h + (n % (2 * P))
  BY <1>2, <1>4
<1>6. P * q = P * (2 * h) + P * (q % 2)
  <2> HIDE DEF q, h
  <2>. QED
    BY <1>3
<1>7. P * (2 * h) = (2 * P) * h
  <2> HIDE DEF h
  <2>. QED
    BY <1>3
<1>8. n = (2 * P) * h + P * (q % 2) + (n % P)
  <2> HIDE DEF h
  <2>. QED
    BY <1>1, <1>3, <1>6, <1>7
<1>. QED
  <2>1. (2 * P) * h \in Nat /\ P * (q % 2) \in Nat
    BY <1>3
  <2> HIDE DEF h
  <2>. QED
    BY <1>1, <1>4, <1>5, <1>8, <2>1

\* f has the sums that Number goes through.
AddsWeights(f, ones, width) ==
  /\ f[0] = 0
  /\ \A k \in 0 .. width - 1 : f[k + 1] = f[k] + (IF k \in ones THEN 2^k ELSE 0)

LEMMA NumberTrace ==
  ASSUME NEW ones, NEW width \in Nat
  PROVE  \E f \in [0 .. width -> Nat] :
           AddsWeights(f, ones, width) /\ Number(ones, width) = f[width]
<1> DEFINE step == [p \in Nat \X Nat |-> p[1] + (IF p[2] \in ones THEN 2^p[2] ELSE 0)]
           Sums(f) == f = [k \in 0 .. width |->
                             IF k = 0
                               THEN 0
                               ELSE f[k - 1] + (IF k - 1 \in ones THEN 2^(k - 1) ELSE 0)]
           sum == CHOOSE f : Sums(f)
<1>1. step \in [Nat \X Nat -> Nat]
  BY PowerOfTwo
<1> HIDE DEF step
<1>2. PICK f \in [0 .. width -> Nat] : IsTrace(f, 0, step, width)
  BY <1>1, LoopHasTrace
<1>3. ASSUME NEW k \in 0 .. width - 1
      PROVE  f[k + 1] = f[k] + (IF k \in ones THEN 2^k ELSE 0)
  <2>1. f[k] \in Nat /\ k \in Nat /\ f[k + 1] = step[<<f[k], k>>]
    BY <1>2 DEF IsTrace
  <2>. QED
    BY <2>1 DEF step
<1> USE DEF IsTrace
<1>4. Sums(f)
  <2>1. ASSUME NEW k \in 0 .. width, k # 0
        PROVE  f[k] = f[k - 1] + (IF k - 1 \in ones THEN 2^(k - 1) ELSE 0)
    <3>1. k - 1 \in 0 .. width - 1 /\ (k - 1) + 1 = k
      BY <2>1
    <3>. QED
      BY <3>1, <1>3
  <2>. QED
    BY <1>2, <2>1
<1>5. Sums(sum)
  BY <1>4
<1>6. Number(ones, width) = sum[width]
  BY DEF Number
<1> HIDE DEF sum
<1>7. /\ sum[0] = 0
      /\ \A k \in 0 .. width - 1 : sum[k + 1] = sum[k] + (IF k \in ones THEN 2^k ELSE 0)
  BY <1>5
<1>8. sum = f
  <2> DEFINE S == {k \in 0 .. width : sum[k] = f[k]}
  <2>1. 0 \in S
    BY <1>2, <1>7
  <2>2. \A k \in 0 .. width - 1 : k \in S => k + 1 \in S
    BY <1>3, <1>7
  <2> HIDE DEF S
  <2>3. \A k \in 0 .. width : k \in S
    BY <2>1, <2>2, InductionTo
  <2>. QED
    BY <1>5, <2>3 DEF S
<1>9. AddsWeights(f, ones, width)
  BY <1>2, <1>3 DEF AddsWeights
<1>. QED
  BY <1>6, <1>8, <1>9

\* Some bits below width make a number below 2^width.
LEMMA NumberType ==
  ASSUME NEW ones, NEW width \in Nat
  PROVE  Number(ones, width) \in 0 .. 2^width - 1
<1>1. PICK f \in [0 .. width -> Nat] :
        AddsWeights(f, ones, width) /\ Number(ones, width) = f[width]
  BY NumberTrace
<1> USE DEF AddsWeights
<1> DEFINE S == {k \in 0 .. width : f[k] < 2^k}
<1>2. 0 \in S
  BY <1>1, PowerOfTwo
<1>3. \A k \in 0 .. width - 1 : k \in S => k + 1 \in S
  BY <1>1, PowerOfTwo
<1> HIDE DEF S
<1>4. \A k \in 0 .. width : k \in S
  BY <1>2, <1>3, InductionTo
<1>. QED
  BY <1>1, <1>4, PowerOfTwo DEF S

\* The bits of a number make the number again: the byte or bit that is looked for
\* is the one its parities name.
LEMMA NumberOfBits ==
  ASSUME NEW width \in Nat, NEW n \in 0 .. 2^width - 1
  PROVE  Number(OneBits(n, 0 .. width - 1), width) = n
<1> DEFINE ones == OneBits(n, 0 .. width - 1)
<1>1. PICK f \in [0 .. width -> Nat] :
        AddsWeights(f, ones, width) /\ Number(ones, width) = f[width]
  BY NumberTrace
<1> USE DEF AddsWeights
<1>2. n \in Nat /\ n < 2^width
  BY PowerOfTwo
<1> DEFINE S == {k \in 0 .. width : f[k] = n % 2^k}
<1>3. 0 \in S
  BY <1>1, <1>2, PowerOfTwo
<1>4. ASSUME NEW k \in 0 .. width - 1, k \in S
      PROVE  k + 1 \in S
  <2>1. 2^k \in Nat \ {0} /\ 2^(k + 1) = 2 * 2^k
    BY PowerOfTwo
  <2>2. n % 2^(k + 1) = (n % 2^k) + 2^k * ((n \div 2^k) % 2)
    BY <1>2, <2>1, Quotients
  <2>3. k \in ones <=> (n \div 2^k) % 2 = 1
    BY DEF OneBits
  <2>4. (n \div 2^k) % 2 \in {0, 1}
    BY <1>2, <2>1, Quotients
  <2>5. f[k + 1] = f[k] + (IF k \in ones THEN 2^k ELSE 0)
    BY <1>1
  <2> HIDE DEF ones
  <2>6. 2^k * ((n \div 2^k) % 2) = IF k \in ones THEN 2^k ELSE 0
    BY <2>1, <2>3, <2>4
  <2>. QED
    BY <1>4, <2>2, <2>5, <2>6
<1> HIDE DEF S
<1>5. \A k \in 0 .. width : k \in S
  BY <1>3, <1>4, InductionTo
<1>6. n % 2^width = n
  BY <1>2, PowerOfTwo
<1>. QED
  BY <1>1, <1>5, <1>6 DEF S

-----------------------------------------------------------------------------
(* Parities.                                                               *)

Page == [Bytes -> SUBSET Bits]
Parities == [line : SUBSET Lines, line_prime : SUBSET Lines,
             col : SUBSET Cols, col_prime : SUBSET Cols]

LEMMA PageSize ==
  /\ 2^LineBits \in Nat \ {0} /\ 2^ColBits \in Nat \ {0}
  /\ \A b \in SUBSET Bits : IsFiniteSet(b)
  /\ IsFiniteSet(Lines) /\ IsFiniteSet(Cols)
<1>1. LineBits \in Nat /\ ColBits \in Nat
  BY ECCAssumption
<1>2. 2^LineBits \in Nat \ {0} /\ 2^ColBits \in Nat \ {0}
  BY <1>1, PowerOfTwo
<1>3. IsFiniteSet(0 .. 2^ColBits - 1) /\ IsFiniteSet(0 .. LineBits - 1)
      /\ IsFiniteSet(0 .. ColBits - 1)
  BY <1>1, <1>2, FS_Interval
<1>. QED
  BY <1>2, <1>3, FS_Subset DEF Bits, Lines, Cols

\* One element more or less changes whether a set is odd.
LEMMA OddToggles ==
  ASSUME NEW S, NEW x, IsFiniteSet(S)
  PROVE  /\ IsFiniteSet(SymDiff(S, {x}))
         /\ Odd(SymDiff(S, {x})) <=> ~Odd(S)
<1>1. Cardinality(S) \in Nat
  BY FS_CardinalityType
<1> DEFINE Alternate(m, n) == n % 2 = 1 <=> ~(m % 2 = 1)
<1>0. ASSUME NEW m \in Nat
      PROVE  Alternate(m, m + 1) /\ Alternate(m + 1, m)
  OBVIOUS
<1> HIDE DEF Alternate
<1>2. CASE x \in S
  <2>1. SymDiff(S, {x}) = S \ {x}
    BY <1>2 DEF SymDiff
  <2>2. IsFiniteSet(S \ {x}) /\ Cardinality(S \ {x}) = Cardinality(S) - 1
    BY <1>2, FS_RemoveElement
  <2>3. Cardinality(S \ {x}) \in Nat /\ Cardinality(S) = Cardinality(S \ {x}) + 1
    BY <1>1, <2>2, FS_CardinalityType
  <2>4. Alternate(Cardinality(S), Cardinality(S \ {x}))
    BY <1>0, <2>3
  <2>. QED
    BY <2>1, <2>2, <2>4 DEF Odd, Alternate
<1>3. CASE x \notin S
  <2>1. SymDiff(S, {x}) = S \cup {x}
    BY <1>3 DEF SymDiff
  <2>2. IsFiniteSet(S \cup {x}) /\ Cardinality(S \cup {x}) = Cardinality(S) + 1
    BY <1>3, FS_AddElement
  <2>3. Alternate(Cardinality(S), Cardinality(S \cup {x}))
    BY <1>0, <1>1, <2>2
  <2>. QED
    BY <2>1, <2>2, <2>3 DEF Odd, Alternate
<1>. QED
  BY <1>2, <1>3

\* What a changed bit of a byte does to the entry of the byte in the table.
LEMMA TableOfFlip ==
  ASSUME NEW b \in SUBSET Bits, NEW bit \in Bits
  PROVE  LET t == column_parity_table(b)
             u == column_parity_table(SymDiff(b, {bit}))
             i == OneBits(bit, Cols)
         IN  /\ u.odd <=> ~t.odd
             /\ u.col = SymDiff(t.col, i)
             /\ u.col_prime = SymDiff(t.col_prime, Cols \ i)
<1> DEFINE c == SymDiff(b, {bit})
           i == OneBits(bit, Cols)
           has(S, k)  == {j \in S : k \in OneBits(j, Cols)}
           hasNot(S, k) == {j \in S : k \notin OneBits(j, Cols)}
<1>1. IsFiniteSet(b)
  BY PageSize
<1>2. Odd(c) <=> ~Odd(b)
  BY <1>1, OddToggles
<1>3. ASSUME NEW k \in Cols
      PROVE  /\ Odd(has(c, k)) <=> (Odd(has(b, k)) <=> k \notin i)
             /\ Odd(hasNot(c, k)) <=> (Odd(hasNot(b, k)) <=> k \in i)
  <2>1. IsFiniteSet(has(b, k)) /\ IsFiniteSet(hasNot(b, k))
    BY <1>1, FS_Subset
  <2>2. CASE k \in i
    <3>1. has(c, k) = SymDiff(has(b, k), {bit}) /\ hasNot(c, k) = hasNot(b, k)
      BY <2>2 DEF SymDiff
    <3> HIDE DEF has, hasNot, c
    <3>. QED
      BY <2>1, <2>2, <3>1, OddToggles
  <2>3. CASE k \notin i
    <3>1. hasNot(c, k) = SymDiff(hasNot(b, k), {bit}) /\ has(c, k) = has(b, k)
      BY <2>3 DEF SymDiff
    <3> HIDE DEF has, hasNot, c
    <3>. QED
      BY <2>1, <2>3, <3>1, OddToggles
  <2>. QED
    BY <2>2, <2>3
<1>4. i \subseteq Cols
  BY DEF OneBits
<1>5. /\ column_parity_table(b).col = {k \in Cols : Odd(has(b, k))}
      /\ column_parity_table(c).col = {k \in Cols : Odd(has(c, k))}
      /\ column_parity_table(b).col_prime = {k \in Cols : Odd(hasNot(b, k))}
      /\ column_parity_table(c).col_prime = {k \in Cols : Odd(hasNot(c, k))}
      /\ column_parity_table(b).odd = Odd(b)
      /\ column_parity_table(c).odd = Odd(c)
  BY DEF column_parity_table
<1> HIDE DEF c, i, has, hasNot
<1>6. column_parity_table(c).col = SymDiff(column_parity_table(b).col, i)
  BY <1>3, <1>4, <1>5 DEF SymDiff
<1>7. column_parity_table(c).col_prime = SymDiff(column_parity_table(b).col_prime, Cols \ i)
  BY <1>3, <1>4, <1>5 DEF SymDiff
<1>. QED
  BY <1>2, <1>5, <1>6, <1>7 DEF c, i

LEMMA AddByteType ==
  ASSUME NEW p \in Parities, NEW n \in Nat, NEW b
  PROVE  AddByte(p, n, b) \in Parities
<1>1. OneBits(n, Lines) \subseteq Lines
  BY DEF OneBits
<1>2. column_parity_table(b).col \subseteq Cols /\ column_parity_table(b).col_prime \subseteq Cols
  BY DEF column_parity_table
<1>. QED
  BY <1>1, <1>2 DEF AddByte, Parities, SymDiff

\* f has the parities that the loop of nand_calculate_ecc goes through.
AddsBytes(f, page) ==
  /\ f[0] = NoParity
  /\ \A n \in Bytes : f[n + 1] = AddByte(f[n], n, page[n])

LEMMA ParityTrace ==
  ASSUME NEW page \in Page
  PROVE  \E f \in [0 .. 2^LineBits -> Parities] :
           AddsBytes(f, page) /\ ParitiesOf(page) = f[2^LineBits]
<1> DEFINE w == 2^LineBits
           step == [p \in Parities \X Nat |-> AddByte(p[1], p[2], page[p[2]])]
           Loop(f) == f = [n \in 0 .. w |->
                             IF n = 0 THEN NoParity ELSE AddByte(f[n - 1], n - 1, page[n - 1])]
           parity == CHOOSE f : Loop(f)
<1>1. step \in [Parities \X Nat -> Parities]
  BY AddByteType
<1>2. NoParity \in Parities
  BY DEF NoParity, Parities
<1>3. w \in Nat /\ Bytes = 0 .. w - 1
  BY PageSize DEF Bytes
<1>4. ParitiesOf(page) = parity[w]
  BY DEF ParitiesOf
<1> HIDE DEF step, w
<1>5. PICK f \in [0 .. w -> Parities] : IsTrace(f, NoParity, step, w)
  BY <1>1, <1>2, <1>3, LoopHasTrace
<1>6. ASSUME NEW n \in 0 .. w - 1
      PROVE  f[n + 1] = AddByte(f[n], n, page[n])
  <2>1. f[n] \in Parities /\ n \in Nat /\ f[n + 1] = step[<<f[n], n>>]
    BY <1>3, <1>5 DEF IsTrace
  <2>. QED
    BY <2>1 DEF step
<1>7. f[0] = NoParity
  BY <1>5 DEF IsTrace
<1>8. Loop(f)
  <2>1. ASSUME NEW n \in 0 .. w, n # 0
        PROVE  f[n] = AddByte(f[n - 1], n - 1, page[n - 1])
    <3>1. n - 1 \in 0 .. w - 1 /\ (n - 1) + 1 = n
      BY <1>3, <2>1
    <3>. QED
      BY <3>1, <1>6
  <2>. QED
    BY <1>7, <2>1
<1>9. Loop(parity)
  BY <1>8
<1> HIDE DEF parity
<1>10. /\ parity[0] = NoParity
       /\ \A n \in 0 .. w - 1 : parity[n + 1] = AddByte(parity[n], n, page[n])
  BY <1>3, <1>9
<1>11. parity = f
  <2> DEFINE S == {n \in 0 .. w : parity[n] = f[n]}
  <2>1. 0 \in S
    BY <1>3, <1>7, <1>10
  <2>2. \A n \in 0 .. w - 1 : n \in S => n + 1 \in S
    BY <1>3, <1>6, <1>10
  <2> HIDE DEF S
  <2>3. \A n \in 0 .. w : n \in S
    BY <1>3, <2>1, <2>2, InductionTo
  <2>. QED
    BY <1>9, <2>3 DEF S
<1>12. AddsBytes(f, page)
  BY <1>3, <1>6, <1>7 DEF AddsBytes
<1>. QED
  BY <1>4, <1>5, <1>11, <1>12 DEF w

\* What a changed bit of the page does to the parities.
Flipped(p, byte, bit) ==
  [line       |-> SymDiff(p.line, OneBits(byte, Lines)),
   line_prime |-> SymDiff(p.line_prime, Lines \ OneBits(byte, Lines)),
   col        |-> SymDiff(p.col, OneBits(bit, Cols)),
   col_prime  |-> SymDiff(p.col_prime, Cols \ OneBits(bit, Cols))]

LEMMA AddFlippedByte ==
  ASSUME NEW p \in Parities, NEW byte \in Bytes, NEW bit \in Bits, NEW b \in SUBSET Bits
  PROVE  AddByte(p, byte, SymDiff(b, {bit})) = Flipped(AddByte(p, byte, b), byte, bit)
<1> DEFINE t == column_parity_table(b)
           u == column_parity_table(SymDiff(b, {bit}))
           i == OneBits(byte, Lines)
           j == OneBits(bit, Cols)
<1>1. /\ u.odd <=> ~t.odd
      /\ u.col = SymDiff(t.col, j)
      /\ u.col_prime = SymDiff(t.col_prime, Cols \ j)
  BY TableOfFlip
<1>2. /\ AddByte(p, byte, SymDiff(b, {bit})) =
           [line       |-> IF u.odd THEN SymDiff(p.line, i) ELSE p.line,
            line_prime |-> IF u.odd THEN SymDiff(p.line_prime, Lines \ i) ELSE p.line_prime,
            col        |-> SymDiff(p.col, u.col),
            col_prime  |-> SymDiff(p.col_prime, u.col_prime)]
      /\ AddByte(p, byte, b) =
           [line       |-> IF t.odd THEN SymDiff(p.line, i) ELSE p.line,
            line_prime |-> IF t.odd THEN SymDiff(p.line_prime, Lines \ i) ELSE p.line_prime,
            col        |-> SymDiff(p.col, t.col),
            col_prime  |-> SymDiff(p.col_prime, t.col_prime)]
  BY DEF AddByte
<1>3. /\ SymDiff(SymDiff(p.line, i), i) = p.line
      /\ SymDiff(SymDiff(p.line_prime, Lines \ i), Lines \ i) = p.line_prime
  BY DEF SymDiff
<1>4. /\ SymDiff(p.col, SymDiff(t.col, j)) = SymDiff(SymDiff(p.col, t.col), j)
      /\ SymDiff(p.col_prime, SymDiff(t.col_prime, Cols \ j)) =
           SymDiff(SymDiff(p.col_prime, t.col_prime), Cols \ j)
  BY DEF SymDiff
<1>5. Flipped(AddByte(p, byte, b), byte, bit) =
        [line       |-> SymDiff(IF t.odd THEN SymDiff(p.line, i) ELSE p.line, i),
         line_prime |-> SymDiff(IF t.odd THEN SymDiff(p.line_prime, Lines \ i) ELSE p.line_prime,
                                Lines \ i),
         col        |-> SymDiff(SymDiff(p.col, t.col), j),
         col_prime  |-> SymDiff(SymDiff(p.col_prime, t.col_prime), Cols \ j)]
  BY <1>2 DEF Flipped
<1> HIDE DEF t, u, i, j
<1>6. CASE t.odd
  <2>1. ~u.odd
    BY <1>1, <1>6
  <2>. QED
    BY <1>1, <1>2, <1>3, <1>4, <1>5, <1>6, <2>1
<1>7. CASE ~t.odd
  <2>1. u.odd
    BY <1>1, <1>7
  <2>. QED
    BY <1>1, <1>2, <1>4, <1>5, <1>7, <2>1
<1>. QED
  BY <1>6, <1>7

LEMMA AddByteToFlipped ==
  ASSUME NEW p \in Parities, NEW byte \in Bytes, NEW bit \in Bits, NEW n, NEW b
  PROVE  AddByte(Flipped(p, byte, bit), n, b) = Flipped(AddByte(p, n, b), byte, bit)
<1>1. \A A, B, C : SymDiff(SymDiff(A, B), C) = SymDiff(SymDiff(A, C), B)
  BY DEF SymDiff
<1> DEFINE t == column_parity_table(b)
<1>2. CASE t.odd
  BY <1>1, <1>2 DEF AddByte, Flipped
<1>3. CASE ~t.odd
  BY <1>1, <1>3 DEF AddByte, Flipped
<1>. QED
  BY <1>2, <1>3

LEMMA ParitiesOfFlip ==
  ASSUME NEW page \in Page, NEW byte \in Bytes, NEW bit \in Bits
  PROVE  /\ Toggled(page, byte, bit) \in Page
         /\ ParitiesOf(page) \in Parities
         /\ ParitiesOf(Toggled(page, byte, bit)) = Flipped(ParitiesOf(page), byte, bit)
<1> DEFINE other == Toggled(page, byte, bit)
           w == 2^LineBits
<1>1. w \in Nat /\ Bytes = 0 .. w - 1
  BY PageSize DEF Bytes
<1>2. /\ other \in Page
      /\ other[byte] = SymDiff(page[byte], {bit})
      /\ \A n \in Bytes : n # byte => other[n] = page[n]
      /\ \A n \in Bytes : page[n] \in SUBSET Bits
  BY DEF Toggled, Page, SymDiff
<1> HIDE DEF other
<1>3. PICK f \in [0 .. w -> Parities] : AddsBytes(f, page) /\ ParitiesOf(page) = f[w]
  BY ParityTrace
<1>4. PICK g \in [0 .. w -> Parities] : AddsBytes(g, other) /\ ParitiesOf(other) = g[w]
  BY <1>2, ParityTrace
<1> HIDE DEF w
<1> DEFINE S == {n \in 0 .. w : g[n] = IF n <= byte THEN f[n] ELSE Flipped(f[n], byte, bit)}
<1>5. 0 \in S
  BY <1>1, <1>3, <1>4 DEF AddsBytes
<1>6. ASSUME NEW n \in 0 .. w - 1, n \in S
      PROVE  n + 1 \in S
  <2>1. /\ f[n] \in Parities
        /\ f[n + 1] = AddByte(f[n], n, page[n])
        /\ g[n + 1] = AddByte(g[n], n, other[n])
        /\ n \in Bytes /\ n \in 0 .. w /\ n + 1 \in 0 .. w
    BY <1>1, <1>3, <1>4 DEF AddsBytes
  <2>2. CASE n < byte
    <3>1. n <= byte /\ n + 1 <= byte /\ n # byte
      BY <1>1, <2>2
    <3>2. g[n] = f[n] /\ other[n] = page[n]
      BY <1>2, <1>6, <2>1, <3>1
    <3>. QED
      BY <2>1, <3>1, <3>2
  <2>3. CASE n = byte
    <3>1. n <= byte /\ ~(n + 1 <= byte)
      BY <1>1, <2>3
    <3>2. g[n] = f[n]
      BY <1>6, <3>1
    <3>3. g[n + 1] = Flipped(f[n + 1], byte, bit)
      BY <1>2, <2>1, <2>3, <3>2, AddFlippedByte
    <3>. QED
      BY <2>1, <3>1, <3>3
  <2>4. CASE n > byte
    <3>1. ~(n <= byte) /\ ~(n + 1 <= byte) /\ n # byte
      BY <1>1, <2>4
    <3>2. g[n] = Flipped(f[n], byte, bit) /\ other[n] = page[n]
      BY <1>2, <1>6, <2>1, <3>1
    <3>3. g[n + 1] = Flipped(f[n + 1], byte, bit)
      <4>1. AddByte(Flipped(f[n], byte, bit), n, page[n])
              = Flipped(AddByte(f[n], n, page[n]), byte, bit)
        BY <2>1, AddByteToFlipped
      <4>. QED
        BY <2>1, <3>2, <4>1
    <3>. QED
      BY <2>1, <3>1, <3>3
  <2>. QED
    BY <1>1, <2>2, <2>3, <2>4
<1> HIDE DEF S
<1>7. \A n \in 0 .. w : n \in S
  BY <1>1, <1>5, <1>6, InductionTo
<1>8. w \in S /\ ~(w <= byte)
  BY <1>1, <1>7
<1>. QED
  BY <1>1, <1>2, <1>3, <1>4, <1>8 DEF S, other

-----------------------------------------------------------------------------
(* Codes.                                                                  *)

\* How the code of a page changes with a bit of the page.
Mark(byte, bit) ==
  [line       |-> OneBits(byte, Lines),
   line_prime |-> Lines \ OneBits(byte, Lines),
   col        |-> OneBits(bit, Cols),
   col_prime  |-> Cols \ OneBits(bit, Cols),
   unused     |-> {}]

NoBits == [line |-> {}, line_prime |-> {}, col |-> {}, col_prime |-> {}, unused |-> {}]

LEMMA DeltaFields ==
  ASSUME NEW a \in Code, NEW b \in Code
  PROVE  /\ Delta(a, b) \in Code
         /\ Delta(a, b) = [line       |-> SymDiff(a.line, b.line),
                           line_prime |-> SymDiff(a.line_prime, b.line_prime),
                           col        |-> SymDiff(a.col, b.col),
                           col_prime  |-> SymDiff(a.col_prime, b.col_prime),
                           unused     |-> SymDiff(a.unused, b.unused)]
<1>1. DOMAIN a = {"line", "line_prime", "col", "col_prime", "unused"}
  BY DEF Code
<1>2. Delta(a, b) = [line       |-> SymDiff(a.line, b.line),
                     line_prime |-> SymDiff(a.line_prime, b.line_prime),
                     col        |-> SymDiff(a.col, b.col),
                     col_prime  |-> SymDiff(a.col_prime, b.col_prime),
                     unused     |-> SymDiff(a.unused, b.unused)]
  BY <1>1 DEF Delta
<1>. QED
  BY <1>2 DEF Code, SymDiff

LEMMA CodeExtensional ==
  ASSUME NEW a \in Code, NEW b \in Code,
         a.line = b.line, a.line_prime = b.line_prime, a.col = b.col,
         a.col_prime = b.col_prime, a.unused = b.unused
  PROVE  a = b
  BY DEF Code

\* The fields of a difference, one by one.
HasDeltas(d, a, b) ==
  /\ d.line = SymDiff(a.line, b.line)
  /\ d.line_prime = SymDiff(a.line_prime, b.line_prime)
  /\ d.col = SymDiff(a.col, b.col)
  /\ d.col_prime = SymDiff(a.col_prime, b.col_prime)
  /\ d.unused = SymDiff(a.unused, b.unused)

LEMMA DeltaHasDeltas ==
  ASSUME NEW a \in Code, NEW b \in Code
  PROVE  Delta(a, b) \in Code /\ HasDeltas(Delta(a, b), a, b)
<1>1. Delta(a, b) \in Code
  BY DeltaFields
<1>2. Delta(a, b) = [line       |-> SymDiff(a.line, b.line),
                     line_prime |-> SymDiff(a.line_prime, b.line_prime),
                     col        |-> SymDiff(a.col, b.col),
                     col_prime  |-> SymDiff(a.col_prime, b.col_prime),
                     unused     |-> SymDiff(a.unused, b.unused)]
  BY DeltaFields
<1>. QED
  BY <1>1, <1>2 DEF HasDeltas

\* Differences cancel, and may be taken in any order.
LEMMA DeltaLaws ==
  ASSUME NEW a \in Code, NEW b \in Code, NEW c \in Code
  PROVE  /\ Delta(a, a) = NoBits
         /\ Delta(a, b) = NoBits => a = b
         /\ Delta(a, NoBits) = a
         /\ Delta(Delta(a, b), b) = a
         /\ Delta(a, Delta(b, c)) = Delta(Delta(a, b), c)
<1>1. /\ NoBits \in Code
      /\ NoBits.line = {} /\ NoBits.line_prime = {} /\ NoBits.col = {}
      /\ NoBits.col_prime = {} /\ NoBits.unused = {}
  BY DEF NoBits, Code
<1>2. \A S, T, U :
        /\ SymDiff(S, S) = {}
        /\ SymDiff(S, T) = {} => S = T
        /\ SymDiff(S, {}) = S
        /\ SymDiff(SymDiff(S, T), T) = S
        /\ SymDiff(S, SymDiff(T, U)) = SymDiff(SymDiff(S, T), U)
  BY DEF SymDiff
<1>3. Delta(a, a) = NoBits
  <2> DEFINE z == Delta(a, a)
  <2>1. z \in Code /\ HasDeltas(z, a, a)
    BY DeltaHasDeltas
  <2> HIDE DEF z
  <2>2. z.line = {} /\ z.line_prime = {} /\ z.col = {} /\ z.col_prime = {} /\ z.unused = {}
    BY <1>2, <2>1 DEF HasDeltas
  <2>3. z = NoBits
    BY <1>1, <2>1, <2>2, CodeExtensional
  <2>. QED
    BY <2>3 DEF z
<1>4. ASSUME Delta(a, b) = NoBits
      PROVE  a = b
  <2>1. HasDeltas(NoBits, a, b)
    BY <1>4, DeltaHasDeltas
  <2>2. /\ SymDiff(a.line, b.line) = {}
        /\ SymDiff(a.line_prime, b.line_prime) = {}
        /\ SymDiff(a.col, b.col) = {}
        /\ SymDiff(a.col_prime, b.col_prime) = {}
        /\ SymDiff(a.unused, b.unused) = {}
    BY <1>1, <2>1 DEF HasDeltas
  <2>. QED
    BY <1>2, <2>2, CodeExtensional
<1>5. Delta(a, NoBits) = a
  <2>1. Delta(a, NoBits) \in Code /\ HasDeltas(Delta(a, NoBits), a, NoBits)
    BY <1>1, DeltaHasDeltas
  <2>. QED
    BY <1>1, <1>2, <2>1, CodeExtensional DEF HasDeltas
<1> DEFINE d == Delta(a, b)
           e == Delta(b, c)
<1>6. d \in Code /\ HasDeltas(d, a, b) /\ e \in Code /\ HasDeltas(e, b, c)
  BY DeltaHasDeltas
<1> HIDE DEF d, e
<1>7. Delta(d, b) = a
  <2>1. Delta(d, b) \in Code /\ HasDeltas(Delta(d, b), d, b)
    BY <1>6, DeltaHasDeltas
  <2>. QED
    BY <1>2, <1>6, <2>1, CodeExtensional DEF HasDeltas
<1>8. Delta(a, e) = Delta(d, c)
  <2>1. Delta(a, e) \in Code /\ HasDeltas(Delta(a, e), a, e)
    BY <1>6, DeltaHasDeltas
  <2>2. Delta(d, c) \in Code /\ HasDeltas(Delta(d, c), d, c)
    BY <1>6, DeltaHasDeltas
  <2>. QED
    BY <1>2, <1>6, <2>1, <2>2, CodeExtensional DEF HasDeltas
<1>. QED
  BY <1>3, <1>4, <1>5, <1>7, <1>8 DEF d, e

LEMMA CodeOfPage ==
  ASSUME NEW page \in Page
  PROVE  nand_calculate_ecc(page) \in Code
  BY DEF nand_calculate_ecc, Code

LEMMA MarkType ==
  ASSUME NEW byte, NEW bit
  PROVE  Mark(byte, bit) \in Code
<1>1. OneBits(byte, Lines) \subseteq Lines /\ OneBits(bit, Cols) \subseteq Cols
  BY DEF OneBits
<1>. QED
  BY <1>1 DEF Mark, Code

LEMMA CodeOfFlip ==
  ASSUME NEW page \in Page, NEW byte \in Bytes, NEW bit \in Bits
  PROVE  /\ Toggled(page, byte, bit) \in Page
         /\ nand_calculate_ecc(Toggled(page, byte, bit))
              = Delta(nand_calculate_ecc(page), Mark(byte, bit))
<1> DEFINE p == ParitiesOf(page)
           q == ParitiesOf(Toggled(page, byte, bit))
           i == OneBits(byte, Lines)
           j == OneBits(bit, Cols)
<1>1. /\ Toggled(page, byte, bit) \in Page
      /\ p \in Parities
      /\ q = Flipped(p, byte, bit)
  BY ParitiesOfFlip
<1>2. i \subseteq Lines /\ j \subseteq Cols
  BY DEF OneBits
<1>3. /\ nand_calculate_ecc(page) = [line |-> Lines \ p.line, line_prime |-> Lines \ p.line_prime,
                                     col |-> Cols \ p.col, col_prime |-> Cols \ p.col_prime,
                                     unused |-> Unused]
      /\ nand_calculate_ecc(Toggled(page, byte, bit))
           = [line |-> Lines \ q.line, line_prime |-> Lines \ q.line_prime,
              col |-> Cols \ q.col, col_prime |-> Cols \ q.col_prime, unused |-> Unused]
  BY DEF nand_calculate_ecc
<1>4. /\ q.line = SymDiff(p.line, i) /\ q.line_prime = SymDiff(p.line_prime, Lines \ i)
      /\ q.col = SymDiff(p.col, j) /\ q.col_prime = SymDiff(p.col_prime, Cols \ j)
  BY <1>1 DEF Flipped
<1>5. nand_calculate_ecc(page) \in Code /\ Mark(byte, bit) \in Code
  BY CodeOfPage, MarkType
<1>6. Delta(nand_calculate_ecc(page), Mark(byte, bit))
        = [line |-> SymDiff(Lines \ p.line, i), line_prime |-> SymDiff(Lines \ p.line_prime, Lines \ i),
           col |-> SymDiff(Cols \ p.col, j), col_prime |-> SymDiff(Cols \ p.col_prime, Cols \ j),
           unused |-> SymDiff(Unused, {})]
  <2> DEFINE c == nand_calculate_ecc(page)
             m == Mark(byte, bit)
  <2>1. /\ c.line = Lines \ p.line /\ c.line_prime = Lines \ p.line_prime
        /\ c.col = Cols \ p.col /\ c.col_prime = Cols \ p.col_prime
        /\ c.unused = Unused
    BY <1>3
  <2>2. /\ m.line = i /\ m.line_prime = Lines \ i
        /\ m.col = j /\ m.col_prime = Cols \ j
        /\ m.unused = {}
    BY DEF Mark
  <2>3. Delta(c, m) = [line       |-> SymDiff(c.line, m.line),
                       line_prime |-> SymDiff(c.line_prime, m.line_prime),
                       col        |-> SymDiff(c.col, m.col),
                       col_prime  |-> SymDiff(c.col_prime, m.col_prime),
                       unused     |-> SymDiff(c.unused, m.unused)]
    BY <1>5, DeltaFields
  <2> HIDE DEF c, m, p, i, j
  <2>4. QED
    BY <2>1, <2>2, <2>3 DEF c, m
<1>7. \A U, S, T : T \subseteq U => SymDiff(U \ S, T) = U \ SymDiff(S, T)
  BY DEF SymDiff
<1>8. SymDiff(Unused, {}) = Unused
  BY DEF SymDiff
<1> HIDE DEF p, q, i, j
<1>9. /\ SymDiff(Lines \ p.line, i) = Lines \ SymDiff(p.line, i)
      /\ SymDiff(Lines \ p.line_prime, Lines \ i) = Lines \ SymDiff(p.line_prime, Lines \ i)
      /\ SymDiff(Cols \ p.col, j) = Cols \ SymDiff(p.col, j)
      /\ SymDiff(Cols \ p.col_prime, Cols \ j) = Cols \ SymDiff(p.col_prime, Cols \ j)
  <2>1. Lines \ i \subseteq Lines /\ Cols \ j \subseteq Cols
    OBVIOUS
  <2>2. SymDiff(Lines \ p.line, i) = Lines \ SymDiff(p.line, i)
    BY <1>2, <1>7
  <2>3. SymDiff(Lines \ p.line_prime, Lines \ i) = Lines \ SymDiff(p.line_prime, Lines \ i)
    BY <1>7, <2>1
  <2>4. SymDiff(Cols \ p.col, j) = Cols \ SymDiff(p.col, j)
    BY <1>2, <1>7
  <2>5. SymDiff(Cols \ p.col_prime, Cols \ j) = Cols \ SymDiff(p.col_prime, Cols \ j)
    BY <1>7, <2>1
  <2>. QED
    BY <2>2, <2>3, <2>4, <2>5
<1>. QED
  BY <1>1, <1>3, <1>4, <1>6, <1>8, <1>9

\* The elements of which only one of two sets has them.
LEMMA SymDiffSize ==
  ASSUME NEW S, NEW T, IsFiniteSet(S), IsFiniteSet(T)
  PROVE  /\ IsFiniteSet(SymDiff(S, T))
         /\ Cardinality(SymDiff(S, T)) <= Cardinality(S) + Cardinality(T)
         /\ S \cap T = {} => Cardinality(SymDiff(S, T)) = Cardinality(S) + Cardinality(T)
<1>1. SymDiff(S, T) = (S \cup T) \ (S \cap T)
  BY DEF SymDiff
<1>2. /\ IsFiniteSet(S \cup T)
      /\ Cardinality(S \cup T) = Cardinality(S) + Cardinality(T) - Cardinality(S \cap T)
  BY FS_Union
<1>3. IsFiniteSet(S \cap T)
  BY FS_Subset
<1>4. /\ Cardinality(S) \in Nat /\ Cardinality(T) \in Nat /\ Cardinality(S \cap T) \in Nat
      /\ Cardinality(S \cup T) \in Nat
  BY <1>2, <1>3, FS_CardinalityType
<1>5. /\ IsFiniteSet(SymDiff(S, T))
      /\ Cardinality(SymDiff(S, T)) <= Cardinality(S \cup T)
  BY <1>1, <1>2, FS_Subset
<1>6. Cardinality(SymDiff(S, T)) \in Nat
  BY <1>5, FS_CardinalityType
<1>7. ASSUME S \cap T = {}
      PROVE  Cardinality(SymDiff(S, T)) = Cardinality(S) + Cardinality(T)
  <2>1. SymDiff(S, T) = S \cup T
    BY <1>1, <1>7
  <2>2. Cardinality(S \cap T) = 0
    BY <1>7, FS_EmptySet
  <2>. QED
    BY <1>2, <1>4, <2>1, <2>2
<1>. QED
  BY <1>2, <1>4, <1>5, <1>6, <1>7

LEMMA CountType ==
  ASSUME NEW d \in Code
  PROVE  /\ IsFiniteSet(d.line) /\ IsFiniteSet(d.line_prime) /\ IsFiniteSet(d.col)
         /\ IsFiniteSet(d.col_prime) /\ IsFiniteSet(d.unused)
         /\ Cardinality(d.line) \in Nat /\ Cardinality(d.line_prime) \in Nat
         /\ Cardinality(d.col) \in Nat /\ Cardinality(d.col_prime) \in Nat
         /\ Cardinality(d.unused) \in Nat
         /\ yaffs_CountBits(d) \in Nat
<1>1. IsFiniteSet(Unused)
  <2>1. IsFiniteSet(0 .. 1)
    <3>1. 0 \in Int /\ 1 \in Int
      OBVIOUS
    <3>. QED
      BY <3>1, FS_Interval
  <2>2. Unused = 0 .. 1
    BY DEF Unused
  <2>. QED
    BY <2>1, <2>2
<1>2. /\ IsFiniteSet(d.line) /\ IsFiniteSet(d.line_prime) /\ IsFiniteSet(d.col)
      /\ IsFiniteSet(d.col_prime) /\ IsFiniteSet(d.unused)
  <2>1. /\ d.line \in SUBSET Lines /\ d.line_prime \in SUBSET Lines
        /\ d.col \in SUBSET Cols /\ d.col_prime \in SUBSET Cols
        /\ d.unused \in SUBSET Unused
    BY DEF Code
  <2>. QED
    BY <1>1, <2>1, PageSize, FS_Subset
<1>3. /\ Cardinality(d.line) \in Nat /\ Cardinality(d.line_prime) \in Nat
      /\ Cardinality(d.col) \in Nat /\ Cardinality(d.col_prime) \in Nat
      /\ Cardinality(d.unused) \in Nat
  BY <1>2, FS_CardinalityType
<1>. QED
  BY <1>2, <1>3 DEF yaffs_CountBits

\* No bit counted, no bit there.
LEMMA CountZero ==
  ASSUME NEW d \in Code
  PROVE  yaffs_CountBits(d) = 0 <=> d = NoBits
<1>1. NoBits \in Code
  BY DEF NoBits, Code
<1>2. yaffs_CountBits(d) = 0 <=>
        /\ Cardinality(d.line) = 0 /\ Cardinality(d.line_prime) = 0
        /\ Cardinality(d.col) = 0 /\ Cardinality(d.col_prime) = 0
        /\ Cardinality(d.unused) = 0
  <2>1. /\ Cardinality(d.line) \in Nat /\ Cardinality(d.line_prime) \in Nat
        /\ Cardinality(d.col) \in Nat /\ Cardinality(d.col_prime) \in Nat
        /\ Cardinality(d.unused) \in Nat
    BY CountType
  <2> DEFINE a == Cardinality(d.line)
             b == Cardinality(d.line_prime)
             c == Cardinality(d.col)
             e == Cardinality(d.col_prime)
             f == Cardinality(d.unused)
  <2>2. yaffs_CountBits(d) = a + b + c + e + f
    BY DEF yaffs_CountBits
  <2>3. a \in Nat /\ b \in Nat /\ c \in Nat /\ e \in Nat /\ f \in Nat
    BY <2>1
  <2> HIDE DEF a, b, c, e, f
  <2>4. yaffs_CountBits(d) = 0 <=> a = 0 /\ b = 0 /\ c = 0 /\ e = 0 /\ f = 0
    BY <2>2, <2>3
  <2>. QED
    BY <2>4 DEF a, b, c, e, f
<1>3. yaffs_CountBits(d) = 0 <=>
        /\ d.line = {} /\ d.line_prime = {} /\ d.col = {} /\ d.col_prime = {}
        /\ d.unused = {}
  BY <1>2, CountType, FS_EmptySet
<1>4. /\ NoBits.line = {} /\ NoBits.line_prime = {} /\ NoBits.col = {}
      /\ NoBits.col_prime = {} /\ NoBits.unused = {}
  BY DEF NoBits
<1>5. d.line = {} /\ d.line_prime = {} /\ d.col = {} /\ d.col_prime = {} /\ d.unused = {}
        => d = NoBits
  BY <1>1, <1>4, CodeExtensional
<1>. QED
  BY <1>3, <1>4, <1>5

\* A difference has no more bits than the two codes together.
LEMMA CountTriangle ==
  ASSUME NEW a \in Code, NEW b \in Code
  PROVE  yaffs_CountBits(Delta(a, b)) <= yaffs_CountBits(a) + yaffs_CountBits(b)
<1> DEFINE d == Delta(a, b)
<1>1. /\ Cardinality(d.line) <= Cardinality(a.line) + Cardinality(b.line)
      /\ Cardinality(d.line_prime) <= Cardinality(a.line_prime) + Cardinality(b.line_prime)
      /\ Cardinality(d.col) <= Cardinality(a.col) + Cardinality(b.col)
      /\ Cardinality(d.col_prime) <= Cardinality(a.col_prime) + Cardinality(b.col_prime)
      /\ Cardinality(d.unused) <= Cardinality(a.unused) + Cardinality(b.unused)
  <2>1. /\ d.line = SymDiff(a.line, b.line)
        /\ d.line_prime = SymDiff(a.line_prime, b.line_prime)
        /\ d.col = SymDiff(a.col, b.col)
        /\ d.col_prime = SymDiff(a.col_prime, b.col_prime)
        /\ d.unused = SymDiff(a.unused, b.unused)
    BY DeltaFields
  <2>2. /\ IsFiniteSet(a.line) /\ IsFiniteSet(a.line_prime) /\ IsFiniteSet(a.col)
        /\ IsFiniteSet(a.col_prime) /\ IsFiniteSet(a.unused)
    BY CountType
  <2>3. /\ IsFiniteSet(b.line) /\ IsFiniteSet(b.line_prime) /\ IsFiniteSet(b.col)
        /\ IsFiniteSet(b.col_prime) /\ IsFiniteSet(b.unused)
    BY CountType
  <2> HIDE DEF d
  <2>. QED
    BY <2>1, <2>2, <2>3, SymDiffSize
<1>2. d \in Code
  BY DeltaFields
<1> HIDE DEF d
<1>3. yaffs_CountBits(d) <= yaffs_CountBits(a) + yaffs_CountBits(b)
  <2> DEFINE IsCount(c) == /\ Cardinality(c.line) \in Nat /\ Cardinality(c.line_prime) \in Nat
                           /\ Cardinality(c.col) \in Nat /\ Cardinality(c.col_prime) \in Nat
                           /\ Cardinality(c.unused) \in Nat
  <2>1. IsCount(a) /\ IsCount(b) /\ IsCount(d)
    BY <1>2, CountType
  <2>. QED
    BY <1>1, <2>1 DEF yaffs_CountBits
<1>. QED
  BY <1>3 DEF d

\* A difference that nand_correct_data takes for one bit of the page has a bit of
\* every pair, and there are three pairs at least.
LEMMA SingleBitSize ==
  ASSUME NEW d \in Code, SingleBit(d)
  PROVE  yaffs_CountBits(d) >= 3
<1>1. LineBits \in Nat /\ ColBits \in Nat /\ LineBits >= 1 /\ ColBits >= 2
  BY ECCAssumption
<1>2. Cardinality(Lines) = LineBits /\ Cardinality(Cols) = ColBits
  <2>1. /\ Cardinality(0 .. LineBits - 1) = (LineBits - 1) - 0 + 1
        /\ Cardinality(0 .. ColBits - 1) = (ColBits - 1) - 0 + 1
    BY <1>1, FS_Interval
  <2>. QED
    BY <1>1, <2>1 DEF Lines, Cols
<1>3. /\ LineBits <= Cardinality(d.line) + Cardinality(d.line_prime)
      /\ ColBits <= Cardinality(d.col) + Cardinality(d.col_prime)
  BY <1>2, CountType, SymDiffSize DEF SingleBit
<1>. QED
  BY <1>1, <1>3, CountType DEF yaffs_CountBits

\* A changed bit of the page changes one bit of every pair, and names itself.
LEMMA MarkOfFlip ==
  ASSUME NEW byte \in Bytes, NEW bit \in Bits
  PROVE  /\ SingleBit(Mark(byte, bit))
         /\ Number(Mark(byte, bit).line, LineBits) = byte
         /\ Number(Mark(byte, bit).col, ColBits) = bit
<1>1. OneBits(byte, Lines) \subseteq Lines /\ OneBits(bit, Cols) \subseteq Cols
  BY DEF OneBits
<1>2. SingleBit(Mark(byte, bit))
  BY <1>1 DEF SingleBit, Mark, SymDiff
<1>3. LineBits \in Nat /\ ColBits \in Nat
  BY ECCAssumption
<1>4. /\ Number(OneBits(byte, 0 .. LineBits - 1), LineBits) = byte
      /\ Number(OneBits(bit, 0 .. ColBits - 1), ColBits) = bit
  BY <1>3, NumberOfBits DEF Bytes, Bits
<1>. QED
  BY <1>2, <1>4 DEF Mark, Lines, Cols

LEMMA ToggledTwice ==
  ASSUME NEW page \in Page, NEW byte \in Bytes, NEW bit \in Bits
  PROVE  Toggled(Toggled(page, byte, bit), byte, bit) = page
<1>1. SymDiff(SymDiff(page[byte], {bit}), {bit}) = page[byte]
  BY DEF SymDiff
<1>. QED
  BY <1>1 DEF Toggled, Page

-----------------------------------------------------------------------------
(* The invariant.                                                          *)

\* The difference that nand_correct_data looks at.
Found == Delta(read_ecc, nand_calculate_ecc(data))

\* How the code that was read differs from the code that was written.
Changed == Delta(read_ecc, nand_calculate_ecc(written))

LEMMA CodesType ==
  ASSUME TypeOK
  PROVE  /\ written \in Page /\ data \in Page /\ read_ecc \in Code
         /\ nand_calculate_ecc(written) \in Code /\ nand_calculate_ecc(data) \in Code
         /\ Found \in Code /\ Changed \in Code
         /\ yaffs_CountBits(Found) \in Nat
         /\ ChangedCode = yaffs_CountBits(Changed) /\ ChangedCode \in Nat
<1>1. /\ written \in Page /\ data \in Page /\ read_ecc \in Code
      /\ nand_calculate_ecc(written) \in Code /\ nand_calculate_ecc(data) \in Code
  BY CodeOfPage DEF TypeOK, Page
<1>2. Found \in Code /\ Changed \in Code
  BY <1>1, DeltaFields DEF Found, Changed
<1>3. ChangedCode = yaffs_CountBits(Changed)
  BY DEF ChangedCode, Changed
<1>. QED
  BY <1>1, <1>2, <1>3, CountType

\* No bit of the page has changed: what differs is in the code, and is not taken
\* for a bit of the page.
LEMMA DataIntact ==
  ASSUME TypeOK, data = written
  PROVE  /\ Found = Changed
         /\ ChangedCode <= 2 => ~SingleBit(Found)
         /\ ChangedCode = 0 => read_ecc = nand_calculate_ecc(written)
<1>1. Found = Changed
  BY DEF Found, Changed
<1>2. ASSUME ChangedCode <= 2
      PROVE  ~SingleBit(Found)
  <2>1. SUFFICES ASSUME SingleBit(Found)
                 PROVE  FALSE
    OBVIOUS
  <2>2. ChangedCode >= 3 /\ ChangedCode \in Nat
    BY <1>1, <2>1, CodesType, SingleBitSize
  <2>. QED
    BY <1>2, <2>2
<1>3. ASSUME ChangedCode = 0
      PROVE  read_ecc = nand_calculate_ecc(written)
  <2>1. Changed = NoBits
    BY <1>3, CodesType, CountZero
  <2>. QED
    BY <2>1, CodesType, DeltaLaws DEF Changed
<1>. QED
  BY <1>1, <1>2, <1>3

\* One bit of the page has changed: the difference is the bit's mark and what has
\* changed of the code.
LEMMA DataFlipped ==
  ASSUME TypeOK, NEW byte \in Bytes, NEW bit \in Bits, data = Toggled(written, byte, bit)
  PROVE  Found = Delta(Changed, Mark(byte, bit))
<1> DEFINE w == nand_calculate_ecc(written)
           m == Mark(byte, bit)
<1>1. nand_calculate_ecc(data) = Delta(w, m)
  BY CodesType, CodeOfFlip
<1>2. read_ecc \in Code /\ w \in Code /\ m \in Code
  BY CodesType, MarkType
<1> HIDE DEF w, m
<1>3. Delta(read_ecc, Delta(w, m)) = Delta(Delta(read_ecc, w), m)
  BY <1>2, DeltaLaws
<1>. QED
  BY <1>1, <1>3 DEF Found, Changed, w, m

\* One bit of the page has changed and at most one of the code: when the difference
\* is taken for a bit of the page it is this one, and otherwise it is too large to
\* be taken for a bit of the code.
LEMMA OneDataFlip ==
  ASSUME TypeOK, NEW byte \in Bytes, NEW bit \in Bits, data = Toggled(written, byte, bit),
         ChangedCode <= 1
  PROVE  /\ SingleBit(Found) =>
              Toggled(data, Number(Found.line, LineBits), Number(Found.col, ColBits)) = written
         /\ yaffs_CountBits(Found) > 1
         /\ ChangedCode = 0 => SingleBit(Found) /\ read_ecc = nand_calculate_ecc(written)
<1> DEFINE m == Mark(byte, bit)
           d == Found
           e == Changed
<1>1. d = Delta(e, m)
  BY DataFlipped
<1>2. /\ d \in Code /\ e \in Code /\ m \in Code /\ read_ecc \in Code
      /\ yaffs_CountBits(d) \in Nat /\ yaffs_CountBits(e) \in Nat
      /\ yaffs_CountBits(e) <= 1
      /\ written \in Page
  BY CodesType, MarkType
<1>3. /\ SingleBit(m)
      /\ Number(m.line, LineBits) = byte
      /\ Number(m.col, ColBits) = bit
  BY MarkOfFlip
<1>4. yaffs_CountBits(m) >= 3 /\ yaffs_CountBits(m) \in Nat
  BY <1>2, <1>3, SingleBitSize, CountType
<1>5. m = Delta(d, e)
  <2>1. \A S, T : SymDiff(SymDiff(S, T), S) = T
    BY DEF SymDiff
  <2> HIDE DEF d, e, m
  <2>2. HasDeltas(d, e, m)
    BY <1>1, <1>2, DeltaHasDeltas
  <2> DEFINE n == Delta(d, e)
  <2>3. n \in Code /\ HasDeltas(n, d, e)
    BY <1>2, DeltaHasDeltas
  <2> HIDE DEF n
  <2>4. n = m
    BY <1>2, <2>1, <2>2, <2>3, CodeExtensional DEF HasDeltas
  <2>. QED
    BY <2>4 DEF n
<1>6. yaffs_CountBits(d) > 1
  <2> HIDE DEF d, e, m
  <2>1. yaffs_CountBits(m) <= yaffs_CountBits(d) + yaffs_CountBits(e)
    BY <1>2, <1>5, CountTriangle
  <2>. QED
    BY <1>2, <1>4, <2>1
<1>7. ASSUME SingleBit(d)
      PROVE  Toggled(data, Number(d.line, LineBits), Number(d.col, ColBits)) = written
  <2> HIDE DEF d, e, m
  <2>1. HasDeltas(d, e, m)
    BY <1>1, <1>2, DeltaHasDeltas
  <2>2. \A A, B, C, D, U :
          SymDiff(A, B) = U /\ SymDiff(SymDiff(C, A), SymDiff(D, B)) = U => C = D
    BY DEF SymDiff
  <2>3. /\ SymDiff(m.line, m.line_prime) = Lines
        /\ SymDiff(SymDiff(e.line, m.line), SymDiff(e.line_prime, m.line_prime)) = Lines
    BY <1>3, <1>7, <2>1 DEF SingleBit, HasDeltas
  <2>4. /\ SymDiff(m.col, m.col_prime) = Cols
        /\ SymDiff(SymDiff(e.col, m.col), SymDiff(e.col_prime, m.col_prime)) = Cols
    BY <1>3, <1>7, <2>1 DEF SingleBit, HasDeltas
  <2>5. e.line = e.line_prime /\ e.col = e.col_prime
    BY <2>2, <2>3, <2>4
  <2>6. Cardinality(e.line) = 0 /\ Cardinality(e.col) = 0
    <3>1. /\ Cardinality(e.line) \in Nat /\ Cardinality(e.col) \in Nat
          /\ Cardinality(e.unused) \in Nat
      BY <1>2, CountType
    <3>2. Cardinality(e.line) + Cardinality(e.line) + Cardinality(e.col)
            + Cardinality(e.col) + Cardinality(e.unused) <= 1
      BY <1>2, <2>5 DEF yaffs_CountBits
    <3>. QED
      BY <3>1, <3>2
  <2>7. e.line = {} /\ e.col = {}
    BY <1>2, <2>6, CountType, FS_EmptySet
  <2>8. d.line = m.line /\ d.col = m.col
    <3>1. \A S : SymDiff({}, S) = S
      BY DEF SymDiff
    <3>. QED
      BY <2>1, <2>7, <3>1 DEF HasDeltas
  <2>9. Number(d.line, LineBits) = byte /\ Number(d.col, ColBits) = bit
    BY <1>3, <2>8
  <2>. QED
    BY <1>2, <2>9, ToggledTwice
<1>8. ASSUME ChangedCode = 0
      PROVE  SingleBit(d) /\ read_ecc = nand_calculate_ecc(written)
  <2>1. e = NoBits
    BY <1>8, CodesType, CountZero
  <2>2. read_ecc = nand_calculate_ecc(written)
    BY <2>1, CodesType, DeltaLaws DEF Changed
  <2>3. HasDeltas(d, NoBits, m)
    <3>1. NoBits \in Code
      BY DEF NoBits, Code
    <3> HIDE DEF d, e, m
    <3>. QED
      BY <1>1, <1>2, <2>1, <3>1, DeltaHasDeltas
  <2>4. SingleBit(d)
    <3>1. \A S : SymDiff({}, S) = S
      BY DEF SymDiff
    <3> HIDE DEF d, e, m
    <3>2. d.line = m.line /\ d.line_prime = m.line_prime /\ d.col = m.col /\ d.col_prime = m.col_prime
      BY <2>3, <3>1 DEF HasDeltas, NoBits
    <3>. QED
      BY <1>3, <3>2 DEF SingleBit
  <2>. QED
    BY <2>2, <2>4
<1>. QED
  BY <1>6, <1>7, <1>8

\* Two bits of the page have changed: the difference never has just one bit of a
\* pair, and it is none only when they are the same bit.
LEMMA TwoDataFlips ==
  ASSUME TypeOK, ChangedCode = 0,
         NEW byte1 \in Bytes, NEW bit1 \in Bits, NEW byte2 \in Bytes, NEW bit2 \in Bits,
         data = Toggled(Toggled(written, byte1, bit1), byte2, bit2)
  PROVE  /\ ~SingleBit(Found)
         /\ yaffs_CountBits(Found) # 1
         /\ yaffs_CountBits(Found) = 0 => data = written
<1> DEFINE m == Mark(byte1, bit1)
           n == Mark(byte2, bit2)
           w == nand_calculate_ecc(written)
           d == Found
<1>1. read_ecc = w
  <2>1. Changed = NoBits
    BY CodesType, CountZero
  <2>. QED
    BY <2>1, CodesType, DeltaLaws DEF Changed
<1>2. /\ w \in Code /\ m \in Code /\ n \in Code /\ d \in Code
      /\ written \in Page
  BY CodesType, MarkType
<1>3. nand_calculate_ecc(data) = Delta(Delta(w, m), n)
  <2>1. /\ Toggled(written, byte1, bit1) \in Page
        /\ nand_calculate_ecc(Toggled(written, byte1, bit1)) = Delta(w, m)
    BY <1>2, CodeOfFlip
  <2>. QED
    BY <2>1, CodeOfFlip
<1>4. HasDeltas(d, m, n)
  <2>1. d = Delta(w, Delta(Delta(w, m), n))
    BY <1>1, <1>3 DEF Found
  <2> HIDE DEF w, m, n, d
  <2> DEFINE u == Delta(w, m)
  <2>2. u \in Code /\ HasDeltas(u, w, m)
    BY <1>2, DeltaHasDeltas
  <2> HIDE DEF u
  <2> DEFINE v == Delta(u, n)
  <2>3. v \in Code /\ HasDeltas(v, u, n)
    BY <1>2, <2>2, DeltaHasDeltas
  <2> HIDE DEF v
  <2>4. HasDeltas(d, w, v)
    BY <1>2, <2>1, <2>3, DeltaHasDeltas DEF u, v
  <2>5. \A S, T, U : SymDiff(S, SymDiff(SymDiff(S, T), U)) = SymDiff(T, U)
    BY DEF SymDiff
  <2>. QED
    BY <2>2, <2>3, <2>4, <2>5 DEF HasDeltas
<1> DEFINE i1 == OneBits(byte1, Lines)
           i2 == OneBits(byte2, Lines)
           j1 == OneBits(bit1, Cols)
           j2 == OneBits(bit2, Cols)
<1>5. /\ m.line = i1 /\ m.line_prime = Lines \ i1 /\ m.col = j1 /\ m.col_prime = Cols \ j1
      /\ n.line = i2 /\ n.line_prime = Lines \ i2 /\ n.col = j2 /\ n.col_prime = Cols \ j2
      /\ m.unused = {} /\ n.unused = {}
  BY DEF Mark
<1>6. i1 \subseteq Lines /\ i2 \subseteq Lines /\ j1 \subseteq Cols /\ j2 \subseteq Cols
  BY DEF OneBits
<1> HIDE DEF i1, i2, j1, j2, d
<1>7. /\ d.line = SymDiff(i1, i2) /\ d.line_prime = SymDiff(i1, i2)
      /\ d.col = SymDiff(j1, j2) /\ d.col_prime = SymDiff(j1, j2)
      /\ d.unused = {}
  <2>1. \A S, T, U : S \subseteq U /\ T \subseteq U => SymDiff(U \ S, U \ T) = SymDiff(S, T)
    BY DEF SymDiff
  <2>2. SymDiff({}, {}) = {}
    BY DEF SymDiff
  <2>3. /\ SymDiff(Lines \ i1, Lines \ i2) = SymDiff(i1, i2)
        /\ SymDiff(Cols \ j1, Cols \ j2) = SymDiff(j1, j2)
    BY <1>6, <2>1
  <2>4. /\ d.line = SymDiff(m.line, n.line) /\ d.line_prime = SymDiff(m.line_prime, n.line_prime)
        /\ d.col = SymDiff(m.col, n.col) /\ d.col_prime = SymDiff(m.col_prime, n.col_prime)
        /\ d.unused = SymDiff(m.unused, n.unused)
    BY <1>4 DEF HasDeltas
  <2> HIDE DEF m, n
  <2>. QED
    BY <1>5, <2>2, <2>3, <2>4
<1>8. ~SingleBit(d)
  <2>1. 0 \in Lines
    BY ECCAssumption DEF Lines
  <2>2. SymDiff(d.line, d.line_prime) = {}
    BY <1>7 DEF SymDiff
  <2>. QED
    BY <2>1, <2>2 DEF SingleBit
<1>9. yaffs_CountBits(d) # 1
  <2>1. Cardinality(d.line) \in Nat /\ Cardinality(d.col) \in Nat /\ Cardinality(d.unused) = 0
    BY <1>2, <1>7, CountType, FS_EmptySet
  <2>2. yaffs_CountBits(d) = Cardinality(d.line) + Cardinality(d.line) + Cardinality(d.col)
                               + Cardinality(d.col) + Cardinality(d.unused)
    BY <1>7 DEF yaffs_CountBits
  <2> DEFINE a == Cardinality(d.line)
             b == Cardinality(d.col)
  <2>3. yaffs_CountBits(d) = 2 * (a + b) /\ a + b \in Nat
    BY <2>1, <2>2
  <2> HIDE DEF a, b
  <2>. QED
    BY <2>3
<1>10. ASSUME yaffs_CountBits(d) = 0
       PROVE  data = written
  <2>1. d = NoBits
    BY <1>2, <1>10, CountZero
  <2>2. SymDiff(i1, i2) = {} /\ SymDiff(j1, j2) = {}
    BY <1>7, <2>1 DEF NoBits
  <2>3. i1 = i2 /\ j1 = j2
    BY <2>2 DEF SymDiff
  <2>4. /\ Number(i1, LineBits) = byte1 /\ Number(i2, LineBits) = byte2
        /\ Number(j1, ColBits) = bit1 /\ Number(j2, ColBits) = bit2
    <3>1. /\ Number(m.line, LineBits) = byte1 /\ Number(n.line, LineBits) = byte2
          /\ Number(m.col, ColBits) = bit1 /\ Number(n.col, ColBits) = bit2
      BY MarkOfFlip
    <3>. QED
      BY <1>5, <3>1
  <2>5. byte1 = byte2 /\ bit1 = bit2
    BY <2>3, <2>4
  <2>. QED
    BY <1>2, <2>5, ToggledTwice
<1>. QED
  BY <1>8, <1>9, <1>10 DEF d

-----------------------------------------------------------------------------
(* The steps.                                                              *)

\* The bits of a code, each by its field and its position.
CodeBit(field, k) ==
  \/ field \in {"line", "line_prime"} /\ k \in Lines
  \/ field \in {"col", "col_prime"} /\ k \in Cols
  \/ field = "unused" /\ k \in Unused

LEMMA CodeBitFlipped ==
  ASSUME NEW c \in Code, NEW field, NEW k, CodeBit(field, k)
  PROVE  LET f == [c EXCEPT ![field] = SymDiff(@, {k})]
         IN  f \in Code /\ yaffs_CountBits(Delta(f, c)) = 1
<1> DEFINE f == [c EXCEPT ![field] = SymDiff(@, {k})]
<1>1. f \in Code
  BY DEF CodeBit, Code, SymDiff
<1>2. \A S : SymDiff(SymDiff(S, {k}), S) = {k} /\ SymDiff(S, S) = {}
  BY DEF SymDiff
<1>3. Cardinality({k}) = 1 /\ Cardinality({}) = 0
  BY FS_Singleton, FS_EmptySet
<1> DEFINE d == Delta(f, c)
<1>4. HasDeltas(d, f, c)
  BY <1>1, DeltaHasDeltas
<1> HIDE DEF d
<1>5. CASE field = "line"
  <2>1. /\ f.line = SymDiff(c.line, {k}) /\ f.line_prime = c.line_prime /\ f.col = c.col
        /\ f.col_prime = c.col_prime /\ f.unused = c.unused
    BY <1>5 DEF Code
  <2> HIDE DEF f
  <2>2. yaffs_CountBits(d) = 1
    BY <1>2, <1>3, <1>4, <2>1 DEF HasDeltas, yaffs_CountBits
  <2>. QED
    BY <1>1, <2>2 DEF f, d
<1>6. CASE field = "line_prime"
  <2>1. /\ f.line = c.line /\ f.line_prime = SymDiff(c.line_prime, {k}) /\ f.col = c.col
        /\ f.col_prime = c.col_prime /\ f.unused = c.unused
    BY <1>6 DEF Code
  <2> HIDE DEF f
  <2>2. yaffs_CountBits(d) = 1
    BY <1>2, <1>3, <1>4, <2>1 DEF HasDeltas, yaffs_CountBits
  <2>. QED
    BY <1>1, <2>2 DEF f, d
<1>7. CASE field = "col"
  <2>1. /\ f.line = c.line /\ f.line_prime = c.line_prime /\ f.col = SymDiff(c.col, {k})
        /\ f.col_prime = c.col_prime /\ f.unused = c.unused
    BY <1>7 DEF Code
  <2> HIDE DEF f
  <2>2. yaffs_CountBits(d) = 1
    BY <1>2, <1>3, <1>4, <2>1 DEF HasDeltas, yaffs_CountBits
  <2>. QED
    BY <1>1, <2>2 DEF f, d
<1>8. CASE field = "col_prime"
  <2>1. /\ f.line = c.line /\ f.line_prime = c.line_prime /\ f.col = c.col
        /\ f.col_prime = SymDiff(c.col_prime, {k}) /\ f.unused = c.unused
    BY <1>8 DEF Code
  <2> HIDE DEF f
  <2>2. yaffs_CountBits(d) = 1
    BY <1>2, <1>3, <1>4, <2>1 DEF HasDeltas, yaffs_CountBits
  <2>. QED
    BY <1>1, <2>2 DEF f, d
<1>9. CASE field = "unused"
  <2>1. /\ f.line = c.line /\ f.line_prime = c.line_prime /\ f.col = c.col
        /\ f.col_prime = c.col_prime /\ f.unused = SymDiff(c.unused, {k})
    BY <1>9 DEF Code
  <2> HIDE DEF f
  <2>2. yaffs_CountBits(d) = 1
    BY <1>2, <1>3, <1>4, <2>1 DEF HasDeltas, yaffs_CountBits
  <2>. QED
    BY <1>1, <2>2 DEF f, d
<1>. QED
  BY <1>5, <1>6, <1>7, <1>8, <1>9 DEF CodeBit

ECCInv ==
  /\ TypeOK
  /\ FlipInv
  /\ OneFlipIsCorrected
  /\ TwoFlipsAreNotMiscorrected

LEMMA InitECCInv ==
  Init => ECCInv
<1> SUFFICES ASSUME Init
             PROVE  ECCInv
  OBVIOUS
<1>1. written \in Page /\ data = written /\ read_ecc = nand_calculate_ecc(written)
      /\ flips = 0 /\ ret = Pending
  BY ECCAssumption DEF Init, Page, Bytes, Bits
<1>2. TypeOK
  <2>1. read_ecc \in Code
    BY <1>1, CodeOfPage
  <2>2. written \in [Bytes -> SUBSET Bits]
    BY <1>1 DEF Page
  <2>. QED
    BY <1>1, <2>1, <2>2, ECCAssumption DEF TypeOK
<1>3. ChangedCode = 0
  <2>1. Changed = NoBits
    BY <1>1, CodeOfPage, DeltaLaws DEF Changed
  <2>. QED
    BY <1>2, <2>1, CodesType, CountZero
<1>. QED
  BY <1>1, <1>2, <1>3 DEF ECCInv, FlipInv, OneFlipIsCorrected, TwoFlipsAreNotMiscorrected, Pending

LEMMA FlipDataStep ==
  ASSUME ECCInv, NEW byte \in Bytes, NEW bit \in Bits, FlipData(byte, bit)
  PROVE  ECCInv'
<1>1. /\ ret = Pending /\ flips < MaxFlips /\ flips' = flips + 1
      /\ data' = Toggled(data, byte, bit)
      /\ written' = written /\ read_ecc' = read_ecc /\ ret' = Pending
  BY DEF FlipData
<1>2. flips \in 0 .. MaxFlips /\ MaxFlips \in Nat
  BY ECCAssumption DEF ECCInv, TypeOK
<1>3. data \in Page /\ data' \in Page
  BY <1>1, CodesType, CodeOfFlip DEF ECCInv
<1>4. TypeOK'
  BY <1>1, <1>2, <1>3 DEF ECCInv, TypeOK, Page
<1>5. ChangedCode' = ChangedCode /\ ChangedCode \in Nat
  BY <1>1, CodesType DEF ECCInv, ChangedCode
<1>6. FlipInv
  BY DEF ECCInv
<1>7. FlipInv'
  <2>1. CASE flips = 0
    <3>1. data = written /\ ChangedCode = 0
      BY <1>1, <1>6, <2>1 DEF FlipInv
    <3>2. DataFlip(written, data)'
      BY <1>1, <3>1 DEF DataFlip
    <3>. QED
      BY <1>1, <1>5, <2>1, <3>1, <3>2 DEF FlipInv
  <2>2. CASE flips = 1
    <3>1. CASE data = written /\ ChangedCode <= 1
      <4>1. DataFlip(written, data)'
        BY <1>1, <3>1 DEF DataFlip
      <4>. QED
        BY <1>1, <1>5, <2>2, <3>1, <4>1 DEF FlipInv
    <3>2. CASE DataFlip(written, data) /\ ChangedCode = 0
      <4>1. PICK byte1 \in Bytes, bit1 \in Bits : data = Toggled(written, byte1, bit1)
        BY <3>2 DEF DataFlip
      <4>2. DataFlip(Toggled(written, byte1, bit1), data)'
        BY <1>1, <4>1 DEF DataFlip
      <4>3. \E first \in Bytes, firstBit \in Bits :
               DataFlip(Toggled(written, first, firstBit), data)'
        BY <4>2
      <4>. QED
        BY <1>1, <1>5, <2>2, <3>2, <4>3 DEF FlipInv, Bytes, Bits
    <3>. QED
      BY <1>1, <1>6, <2>2, <3>1, <3>2 DEF FlipInv
  <2>3. CASE flips > 1
    BY <1>1, <1>2, <2>3 DEF FlipInv
  <2>. QED
    BY <1>2, <2>1, <2>2, <2>3
<1>. QED
  BY <1>1, <1>4, <1>7 DEF ECCInv, OneFlipIsCorrected, TwoFlipsAreNotMiscorrected, Pending

LEMMA FlipCodeStep ==
  ASSUME ECCInv, NEW field, NEW k, CodeBit(field, k), FlipCode(field, k)
  PROVE  ECCInv'
<1>1. /\ ret = Pending /\ flips < MaxFlips /\ flips' = flips + 1
      /\ read_ecc' = [read_ecc EXCEPT ![field] = SymDiff(@, {k})]
      /\ written' = written /\ data' = data /\ ret' = Pending
  BY DEF FlipCode
<1>2. flips \in 0 .. MaxFlips /\ MaxFlips \in Nat
  BY ECCAssumption DEF ECCInv, TypeOK
<1>3. /\ read_ecc \in Code /\ nand_calculate_ecc(written) \in Code
      /\ ChangedCode \in Nat
  BY CodesType DEF ECCInv
<1>4. read_ecc' \in Code /\ yaffs_CountBits(Delta(read_ecc', read_ecc)) = 1
  BY <1>1, <1>3, CodeBitFlipped
<1>5. TypeOK'
  BY <1>1, <1>2, <1>4 DEF ECCInv, TypeOK
<1>6. ChangedCode' \in Nat /\ ChangedCode' <= ChangedCode + 1
  <2> DEFINE a == read_ecc'
             b == read_ecc
             c == nand_calculate_ecc(written)
  <2>1. ChangedCode' = yaffs_CountBits(Delta(a, c)) /\ ChangedCode = yaffs_CountBits(Delta(b, c))
    BY <1>1 DEF ChangedCode
  <2>2. a \in Code /\ b \in Code /\ c \in Code /\ yaffs_CountBits(Delta(a, b)) = 1
    BY <1>3, <1>4
  <2> HIDE DEF a, b, c
  <2>3. Delta(a, b) \in Code /\ Delta(b, c) \in Code /\ Delta(a, c) \in Code
    BY <2>2, DeltaFields
  <2>4. Delta(Delta(a, b), Delta(b, c)) = Delta(Delta(Delta(a, b), b), c)
    BY <2>2, <2>3, DeltaLaws
  <2>5. Delta(Delta(a, b), b) = a
    BY <2>2, DeltaLaws
  <2>6. yaffs_CountBits(Delta(a, c)) <= 1 + yaffs_CountBits(Delta(b, c))
    BY <2>2, <2>3, <2>4, <2>5, CountTriangle
  <2>7. yaffs_CountBits(Delta(a, c)) \in Nat
    BY <2>3, CountType
  <2>. QED
    BY <1>3, <2>1, <2>6, <2>7
<1>7. FlipInv
  BY DEF ECCInv
<1>8. DataFlip(written, data)' <=> DataFlip(written, data)
  BY <1>1 DEF DataFlip
<1>9. FlipInv'
  <2>1. CASE flips = 0
    BY <1>1, <1>3, <1>6, <1>7, <2>1 DEF FlipInv
  <2>2. CASE flips = 1
    BY <1>1, <1>3, <1>6, <1>7, <1>8, <2>2 DEF FlipInv
  <2>3. CASE flips > 1
    BY <1>1, <1>2, <2>3 DEF FlipInv
  <2>. QED
    BY <1>2, <2>1, <2>2, <2>3
<1>. QED
  BY <1>1, <1>5, <1>9 DEF ECCInv, OneFlipIsCorrected, TwoFlipsAreNotMiscorrected, Pending

LEMMA CorrectStep ==
  ASSUME ECCInv, nand_correct_data
  PROVE  ECCInv'
<1> DEFINE test_ecc == nand_calculate_ecc(data)
           fixed == Toggled(data, Number(Found.line, LineBits), Number(Found.col, ColBits))
<1>1. /\ ret = Pending /\ written' = written /\ flips' = flips
      /\ \/ /\ yaffs_CountBits(Found) = 0
            /\ ret' = 0 /\ data' = data /\ read_ecc' = read_ecc
         \/ /\ SingleBit(Found)
            /\ data' = fixed /\ ret' = 1 /\ read_ecc' = read_ecc
         \/ /\ ~SingleBit(Found)
            /\ yaffs_CountBits(Found) = 1
            /\ read_ecc' = test_ecc /\ ret' = 1 /\ data' = data
         \/ /\ ~SingleBit(Found)
            /\ yaffs_CountBits(Found) > 1
            /\ ret' = -1 /\ data' = data /\ read_ecc' = read_ecc
  BY DEF nand_correct_data, Found
<1>2. /\ written \in Page /\ data \in Page /\ read_ecc \in Code /\ test_ecc \in Code
      /\ yaffs_CountBits(Found) \in Nat /\ ChangedCode \in Nat
      /\ flips \in Nat
      /\ TypeOK /\ FlipInv
  BY CodesType, ECCAssumption DEF ECCInv, TypeOK
<1>3. fixed \in Page
  <2>1. LineBits \in Nat /\ ColBits \in Nat
    BY ECCAssumption
  <2>2. Number(Found.line, LineBits) \in Bytes /\ Number(Found.col, ColBits) \in Bits
    BY <2>1, NumberType DEF Bytes, Bits
  <2>. QED
    BY <1>2, <2>2, CodeOfFlip
<1> HIDE DEF test_ecc, fixed
<1>4. data' \in Page /\ read_ecc' \in Code /\ ret' \in {0, 1, -1}
  BY <1>1, <1>2, <1>3
<1>5. TypeOK'
  BY <1>1, <1>2, <1>4 DEF TypeOK, Page
<1>6. ret' # Pending
  BY <1>4 DEF Pending
<1>7. FlipInv'
  BY <1>6 DEF FlipInv
<1>8. OneFlipIsCorrected' /\ TwoFlipsAreNotMiscorrected'
  <2>1. CASE data = written /\ ChangedCode <= 2 /\ (flips <= 1 => ChangedCode <= 1)
    <3>1. ~SingleBit(Found)
      BY <1>2, <2>1, DataIntact
    <3>2. data' = written'
      BY <1>1, <2>1, <3>1
    <3>3. ASSUME flips <= 1
          PROVE  ret' # -1 /\ read_ecc' = nand_calculate_ecc(written')
      <4>1. ChangedCode = yaffs_CountBits(Found)
        BY <1>2, <2>1, DataIntact, CodesType
      <4>2. ChangedCode = 0 \/ ChangedCode = 1
        BY <1>2, <2>1, <3>3
      <4>3. CASE ChangedCode = 0
        <5>1. ret' = 0 /\ read_ecc' = read_ecc
          BY <1>1, <1>2, <3>1, <4>1, <4>3
        <5>. QED
          BY <1>1, <1>2, <2>1, <4>3, <5>1, DataIntact
      <4>4. CASE ChangedCode = 1
        <5>1. ret' = 1 /\ read_ecc' = test_ecc
          BY <1>1, <1>2, <3>1, <4>1, <4>4
        <5>. QED
          BY <1>1, <2>1, <5>1 DEF test_ecc
      <4>. QED
        BY <4>2, <4>3, <4>4
    <3>. QED
      BY <1>1, <3>2, <3>3 DEF OneFlipIsCorrected, TwoFlipsAreNotMiscorrected
  <2>2. CASE DataFlip(written, data) /\ ChangedCode <= 1 /\ (flips <= 1 => ChangedCode = 0)
    <3>1. PICK byte \in Bytes, bit \in Bits : data = Toggled(written, byte, bit)
      BY <2>2 DEF DataFlip
    <3>2. /\ SingleBit(Found) => fixed = written
          /\ yaffs_CountBits(Found) > 1
          /\ ChangedCode = 0 => SingleBit(Found) /\ read_ecc = nand_calculate_ecc(written)
      BY <1>2, <2>2, <3>1, OneDataFlip DEF fixed
    <3>3. ret' \in {0, 1} => data' = written'
      BY <1>1, <1>2, <3>2
    <3>4. ASSUME flips <= 1
          PROVE  ret' # -1 /\ data' = written' /\ read_ecc' = nand_calculate_ecc(written')
      <4>1. SingleBit(Found) /\ read_ecc = nand_calculate_ecc(written)
        BY <2>2, <3>2, <3>4
      <4>2. data' = fixed /\ ret' = 1 /\ read_ecc' = read_ecc
        BY <1>1, <1>2, <3>2, <4>1
      <4>. QED
        BY <1>1, <3>2, <4>1, <4>2
    <3>. QED
      BY <1>1, <3>3, <3>4 DEF OneFlipIsCorrected, TwoFlipsAreNotMiscorrected
  <2>3. CASE /\ flips = 2
             /\ \E byte \in Bytes, bit \in Bits : DataFlip(Toggled(written, byte, bit), data)
             /\ ChangedCode = 0
    <3>1. PICK byte1 \in Bytes, bit1 \in Bits, byte2 \in Bytes, bit2 \in Bits :
            data = Toggled(Toggled(written, byte1, bit1), byte2, bit2)
      BY <2>3 DEF DataFlip
    <3>2. /\ ~SingleBit(Found)
          /\ yaffs_CountBits(Found) # 1
          /\ yaffs_CountBits(Found) = 0 => data = written
      BY <1>2, <2>3, <3>1, TwoDataFlips
    <3>3. ret' \in {0, 1} => data' = written'
      BY <1>1, <1>2, <3>2
    <3>. QED
      BY <1>1, <2>3, <3>3 DEF OneFlipIsCorrected, TwoFlipsAreNotMiscorrected
  <2>4. CASE flips > 2
    BY <1>1, <1>2, <2>4 DEF OneFlipIsCorrected, TwoFlipsAreNotMiscorrected
  <2>. QED
    <3>1. CASE flips = 0
      BY <1>1, <1>2, <2>1, <3>1 DEF FlipInv
    <3>2. CASE flips = 1
      BY <1>1, <1>2, <2>1, <2>2, <3>2 DEF FlipInv
    <3>3. CASE flips = 2
      BY <1>1, <1>2, <2>1, <2>2, <2>3, <3>3 DEF FlipInv
    <3>. QED
      BY <1>2, <2>4, <3>1, <3>2, <3>3
<1>. QED
  BY <1>5, <1>7, <1>8 DEF ECCInv

LEMMA NextECCInv ==
  ECCInv /\ [Next]_vars => ECCInv'
<1> SUFFICES ASSUME ECCInv, [Next]_vars
             PROVE  ECCInv'
  OBVIOUS
<1>1. CASE \E byte \in Bytes, bit \in Bits : FlipData(byte, bit)
  BY <1>1, FlipDataStep
<1>2. CASE \E k \in Lines : FlipCode("line", k) \/ FlipCode("line_prime", k)
  BY <1>2, FlipCodeStep DEF CodeBit
<1>3. CASE \E k \in Cols : FlipCode("col", k) \/ FlipCode("col_prime", k)
  BY <1>3, FlipCodeStep DEF CodeBit
<1>4. CASE \E k \in Unused : FlipCode("unused", k)
  BY <1>4, FlipCodeStep DEF CodeBit
<1>5. CASE nand_correct_data
  BY <1>5, CorrectStep
<1>6. CASE UNCHANGED vars
  BY <1>6 DEF vars, ECCInv, TypeOK, FlipInv, DataFlip, ChangedCode, OneFlipIsCorrected,
              TwoFlipsAreNotMiscorrected
<1>. QED
  BY <1>1, <1>2, <1>3, <1>4, <1>5, <1>6 DEF Next

LEMMA Invariance ==
  Spec => []ECCInv
  BY InitECCInv, NextECCInv, PTL DEF Spec

-----------------------------------------------------------------------------
(* An erased page.                                                         *)

\* The bits of a byte have the sets of positions as numbers, each of them once.
LEMMA BitOfEverySet ==
  /\ \A i, j \in Bits : OneBits(i, Cols) = OneBits(j, Cols) => i = j
  /\ \A S \in SUBSET Cols : \E i \in Bits : OneBits(i, Cols) = S
<1> DEFINE f == [i \in Bits |-> OneBits(i, Cols)]
<1>1. ColBits \in Nat /\ 2^ColBits \in Nat \ {0}
  BY ECCAssumption, PageSize
<1>2. ASSUME NEW i \in Bits, NEW j \in Bits, OneBits(i, Cols) = OneBits(j, Cols)
      PROVE  i = j
  <2>1. Number(OneBits(i, Cols), ColBits) = i /\ Number(OneBits(j, Cols), ColBits) = j
    BY <1>1, NumberOfBits DEF Bits, Cols
  <2>. QED
    BY <1>2, <2>1
<1>3. f \in Injection(Bits, SUBSET Cols)
  <2>1. \A i \in Bits : OneBits(i, Cols) \in SUBSET Cols
    BY DEF OneBits
  <2>2. f \in [Bits -> SUBSET Cols]
    BY <2>1
  <2>. QED
    BY <1>2, <2>2 DEF Injection, IsInjective
<1>4. IsFiniteSet(Bits) /\ Cardinality(Bits) = 2^ColBits
  <2>1. IsFiniteSet(0 .. 2^ColBits - 1) /\ Cardinality(0 .. 2^ColBits - 1) = (2^ColBits - 1) - 0 + 1
    BY <1>1, FS_Interval
  <2>. QED
    BY <1>1, <2>1 DEF Bits
<1>5. IsFiniteSet(SUBSET Cols) /\ Cardinality(SUBSET Cols) = 2^ColBits
  <2>1. IsFiniteSet(0 .. ColBits - 1) /\ Cardinality(0 .. ColBits - 1) = (ColBits - 1) - 0 + 1
    BY <1>1, FS_Interval, ECCAssumption
  <2>2. IsFiniteSet(Cols) /\ Cardinality(Cols) = ColBits
    BY <1>1, <2>1 DEF Cols
  <2>. QED
    BY <2>2, FS_SUBSET
<1> HIDE DEF f
<1>6. f \in Surjection(Bits, SUBSET Cols)
  BY <1>3, <1>4, <1>5, FS_Injection
<1>7. \A S \in SUBSET Cols : \E i \in Bits : f[i] = S
  BY <1>6 DEF Surjection
<1>. QED
  BY <1>2, <1>7 DEF f

\* Bits that do not depend on a position come in pairs, with the position and
\* without it.
LEMMA PairsOfBits ==
  ASSUME NEW H \in SUBSET Bits, NEW k \in Cols,
         \A i, j \in Bits : OneBits(i, Cols) \ {k} = OneBits(j, Cols) \ {k} => (i \in H <=> j \in H)
  PROVE  ~Odd(H)
<1> DEFINE A == {i \in H : k \in OneBits(i, Cols)}
           B == {i \in H : k \notin OneBits(i, Cols)}
           f == [i \in A |-> CHOOSE j \in Bits : OneBits(j, Cols) = OneBits(i, Cols) \ {k}]
<1>1. ASSUME NEW i \in A
      PROVE  f[i] \in B /\ OneBits(f[i], Cols) = OneBits(i, Cols) \ {k}
  <2>1. OneBits(i, Cols) \ {k} \in SUBSET Cols
    BY DEF OneBits
  <2>2. f[i] \in Bits /\ OneBits(f[i], Cols) = OneBits(i, Cols) \ {k}
    BY <2>1, BitOfEverySet
  <2>. QED
    BY <2>2
<1>2. ASSUME NEW i \in A, NEW j \in A, f[i] = f[j]
      PROVE  i = j
  <2>1. OneBits(i, Cols) \ {k} = OneBits(j, Cols) \ {k}
    BY <1>1, <1>2
  <2>2. OneBits(i, Cols) = OneBits(j, Cols)
    BY <2>1
  <2>. QED
    BY <2>2, BitOfEverySet
<1>3. ASSUME NEW j \in B
      PROVE  \E i \in A : f[i] = j
  <2>1. OneBits(j, Cols) \cup {k} \in SUBSET Cols
    BY DEF OneBits
  <2>2. PICK i \in Bits : OneBits(i, Cols) = OneBits(j, Cols) \cup {k}
    BY <2>1, BitOfEverySet
  <2>3. i \in A
    BY <2>2
  <2>4. OneBits(f[i], Cols) = OneBits(j, Cols)
    <3>1. OneBits(f[i], Cols) = OneBits(i, Cols) \ {k}
      BY <1>1, <2>3
    <3>2. k \notin OneBits(j, Cols)
      OBVIOUS
    <3> HIDE DEF f, A, B
    <3>. QED
      BY <2>2, <3>1, <3>2
  <2>5. f[i] \in Bits
    BY <1>1, <2>3
  <2> HIDE DEF f, A
  <2>6. f[i] = j
    BY <2>4, <2>5, BitOfEverySet
  <2>. QED
    BY <2>3, <2>6
<1>4. f \in [A -> B]
  BY <1>1
<1> HIDE DEF f
<1>5. f \in Bijection(A, B)
  BY <1>2, <1>3, <1>4 DEF Bijection, Injection, Surjection, IsInjective
<1>6. IsFiniteSet(H)
  BY PageSize
<1>7. IsFiniteSet(A)
  BY <1>6, FS_Subset
<1>8. A \cup B = H /\ A \cap B = {}
  OBVIOUS
<1> HIDE DEF A, B
<1>9. IsFiniteSet(B) /\ Cardinality(B) = Cardinality(A)
  BY <1>5, <1>7, FS_Bijection DEF ExistsBijection
<1>10. Cardinality(A \cup B) = Cardinality(A) + Cardinality(B) - Cardinality(A \cap B)
  BY <1>7, <1>9, FS_Union
<1>11. Cardinality(A) \in Nat /\ Cardinality(A \cap B) = 0
  BY <1>7, <1>8, FS_CardinalityType, FS_EmptySet
<1>12. Cardinality(H) = 2 * Cardinality(A)
  <2> DEFINE a == Cardinality(A)
  <2>1. Cardinality(H) = a + a - 0 /\ a \in Nat
    BY <1>8, <1>9, <1>10, <1>11
  <2> HIDE DEF a
  <2>2. Cardinality(H) = 2 * a
    BY <2>1
  <2>. QED
    BY <2>2 DEF a
<1>. QED
  BY <1>11, <1>12 DEF Odd

\* The entry of a byte of ones: all parities are even.
LEMMA ErasedByte ==
  /\ column_parity_table(Bits).col = {}
  /\ column_parity_table(Bits).col_prime = {}
  /\ ~column_parity_table(Bits).odd
<1>1. 0 \in Cols /\ 1 \in Cols
  BY ECCAssumption DEF Cols
<1>2. ASSUME NEW k \in Cols
      PROVE  /\ ~Odd({i \in Bits : k \in OneBits(i, Cols)})
             /\ ~Odd({i \in Bits : k \notin OneBits(i, Cols)})
  <2>1. PICK j \in Cols : j # k
    BY <1>1
  <2>2. \A i1, i2 \in Bits : OneBits(i1, Cols) \ {j} = OneBits(i2, Cols) \ {j}
          => (k \in OneBits(i1, Cols) <=> k \in OneBits(i2, Cols))
    BY <2>1
  <2> DEFINE H == {i \in Bits : k \in OneBits(i, Cols)}
             G == {i \in Bits : k \notin OneBits(i, Cols)}
  <2>3. \A i1, i2 \in Bits : OneBits(i1, Cols) \ {j} = OneBits(i2, Cols) \ {j}
          => (i1 \in H <=> i2 \in H) /\ (i1 \in G <=> i2 \in G)
    BY <2>2
  <2>4. H \in SUBSET Bits /\ G \in SUBSET Bits
    OBVIOUS
  <2> HIDE DEF H, G
  <2>5. ~Odd(H) /\ ~Odd(G)
    BY <2>3, <2>4, PairsOfBits
  <2>. QED
    BY <2>5 DEF H, G
<1>3. ~Odd(Bits)
  BY <1>1, PairsOfBits
<1>. QED
  BY <1>2, <1>3 DEF column_parity_table

LEMMA ErasedCode ==
  ASSUME NEW page \in Page, \A byte \in Bytes : page[byte] = Bits
  PROVE  nand_calculate_ecc(page) =
           [line |-> Lines, line_prime |-> Lines, col |-> Cols,
            col_prime |-> Cols, unused |-> Unused]
<1> DEFINE w == 2^LineBits
<1>1. w \in Nat /\ Bytes = 0 .. w - 1
  BY PageSize DEF Bytes
<1>2. PICK f \in [0 .. w -> Parities] : AddsBytes(f, page) /\ ParitiesOf(page) = f[w]
  BY ParityTrace
<1> HIDE DEF w
<1>3. ASSUME NEW n
      PROVE  AddByte(NoParity, n, Bits) = NoParity
  <2>1. SymDiff({}, {}) = {}
    BY DEF SymDiff
  <2>. QED
    BY <2>1, ErasedByte DEF AddByte, NoParity
<1> DEFINE S == {n \in 0 .. w : f[n] = NoParity}
<1>4. 0 \in S
  BY <1>1, <1>2 DEF AddsBytes
<1>5. ASSUME NEW n \in 0 .. w - 1, n \in S
      PROVE  n + 1 \in S
  <2>1. f[n + 1] = AddByte(f[n], n, page[n]) /\ page[n] = Bits /\ f[n] = NoParity
    BY <1>1, <1>2, <1>5 DEF AddsBytes
  <2>2. f[n + 1] = NoParity
    BY <1>3, <2>1
  <2>. QED
    BY <1>1, <2>2
<1> HIDE DEF S
<1>6. \A n \in 0 .. w : n \in S
  BY <1>1, <1>4, <1>5, InductionTo
<1>7. w \in S
  BY <1>1, <1>6
<1>8. ParitiesOf(page) = NoParity
  BY <1>2, <1>7 DEF S
<1>. QED
  BY <1>8 DEF nand_calculate_ecc, NoParity

-----------------------------------------------------------------------------
(* The theorems.                                                           *)

\* Whatever the sizes and the contents of the page, the byte and the bit that
\* nand_correct_data takes from the differences are a byte and a bit of the page.
THEOREM TypeCorrectness ==
  Spec => []TypeOK
<1>1. ECCInv => TypeOK
  BY DEF ECCInv
<1>. QED
  BY <1>1, Invariance, PTL

\* One changed bit, of the page or of its code, is put right.
THEOREM OneFlip ==
  Spec => []OneFlipIsCorrected
<1>1. ECCInv => OneFlipIsCorrected
  BY DEF ECCInv
<1>. QED
  BY <1>1, Invariance, PTL

\* Two changed bits, of the page, of its code or one of each, never make
\* nand_correct_data return 0 or 1 with other data than those written.
THEOREM TwoFlips ==
  Spec => []TwoFlipsAreNotMiscorrected
<1>1. ECCInv => TwoFlipsAreNotMiscorrected
  BY DEF ECCInv
<1>. QED
  BY <1>1, Invariance, PTL

\* The code of an erased page is the one that its erased spare area holds.
THEOREM ErasedPage ==
  Spec => []ErasedPageAgrees
<1>1. ASSUME ECCInv
      PROVE  ErasedPageAgrees
  <2>1. SUFFICES ASSUME \A byte \in Bytes : written[byte] = Bits, flips = 0
                 PROVE  read_ecc = [line |-> Lines, line_prime |-> Lines, col |-> Cols,
                                    col_prime |-> Cols, unused |-> Unused]
    BY DEF ErasedPageAgrees
  <2>2. written \in Page
    BY <1>1, CodesType DEF ECCInv
  <2>3. read_ecc = nand_calculate_ecc(written)
    <3>1. CASE ret = Pending
      <4>1. data = written /\ ChangedCode = 0
        BY <1>1, <2>1, <3>1 DEF ECCInv, FlipInv
      <4>. QED
        BY <1>1, <4>1, DataIntact DEF ECCInv
    <3>2. CASE ret # Pending
      BY <1>1, <2>1, <3>2 DEF ECCInv, OneFlipIsCorrected
    <3>. QED
      BY <3>1, <3>2
  <2>. QED
    BY <2>1, <2>2, <2>3, ErasedCode
<1>. QED
  BY <1>1, Invariance, PTL
=============================================================================
