-------------------------- MODULE CrossMatrixProofs --------------------------
(***************************************************************************)
(* Both reductions of CrossMatrix are right for all elements, and for any  *)
(* number of rows the assumptions allow.                                   *)
(***************************************************************************)
EXTENDS CrossMatrix, TLAPS

-----------------------------------------------------------------------------
(* Products and reductions.                                                *)

\* A product of two exponents.
LEMMA FzProduct ==
  ASSUME NEW e \in FzElem, NEW w \in FzElem
  PROVE  w * e \in Nat /\ w * e <= 15876
<1>1. e \in 0..126 /\ w \in 0..126
  BY SMT, MatrixAssumption DEF Z
<1>2. w * e <= 126 * e
  BY SMT, <1>1
<1>3. w * e \in Nat
  BY SMT, <1>1
<1> QED
  BY SMT, <1>1, <1>2, <1>3

\* A product of two field elements.
LEMMA FpProduct ==
  ASSUME NEW s \in FpElem, NEW v \in FpElem
  PROVE  v * s \in Nat /\ v * s <= 258064
<1>1. s \in 0..508 /\ v \in 0..508
  BY SMT, MatrixAssumption DEF P
<1>2. v * s <= 508 * s
  BY SMT, <1>1
<1>3. v * s \in Nat
  BY SMT, <1>1
<1> QED
  BY SMT, <1>1, <1>2, <1>3

\* FZRED_SINGLE keeps the residue modulo Z.
LEMMA FzFold ==
  ASSUME NEW x \in Nat
  PROVE  FZRED_SINGLE(x) \in Nat /\ FZRED_SINGLE(x) % Z = x % Z
  BY SMT DEF FZRED_SINGLE, Z

\* Both halves of what FZRED_SINGLE takes apart.
LEMMA FzHalves ==
  ASSUME NEW x \in Nat
  PROVE  /\ x \div 128 \in Nat /\ x % 128 \in 0 .. 127
         /\ x = 128 * (x \div 128) + (x % 128)
  BY SMT

\* What four products leave after a partial reduction.
LEMMA FzPartial ==
  ASSUME NEW x \in Nat, x <= 64131
  PROVE  FZRED_SINGLE(x) \in 0 .. 627
<1> DEFINE h == x \div 128
           l == x % 128
<1>1. h \in Nat /\ l \in 0 .. 127 /\ x = 128 * h + l
  BY SMT, FzHalves
<1>2. h + l \in 0 .. 627
  <2> HIDE DEF h, l
  <2>1. h <= 501
    BY SMT, <1>1
  <2>2. CASE h <= 500
    BY SMT, <1>1, <2>2
  <2>3. CASE h = 501
    BY SMT, <1>1, <2>3
  <2> QED
    BY SMT, <1>1, <2>1, <2>2, <2>3
<1> QED
  BY SMT, <1>2 DEF FZRED_SINGLE

\* One product on top of that is still small enough for FZRED_DOUBLE.
LEMMA FzDouble ==
  ASSUME NEW x \in Nat, x <= 16503
  PROVE  FZRED_SINGLE(FZRED_SINGLE(x)) \in 0 .. 127
<1> DEFINE h == x \div 128
           l == x % 128
           y == FZRED_SINGLE(x)
<1>1. h \in Nat /\ l \in 0 .. 127 /\ x = 128 * h + l
  BY SMT, FzHalves
<1>2. h + l \in 0 .. 254
  <2> HIDE DEF h, l
  <2> QED  BY SMT, <1>1
<1>3. y \in 0 .. 254
  BY SMT, <1>2 DEF FZRED_SINGLE
<1> HIDE DEF y
<1>4. (y % 128) + y \div 128 \in 0 .. 127
  BY SMT, <1>3
<1> QED
  BY SMT, <1>4 DEF FZRED_SINGLE, y

\* The same for the reduction by multiples of 2^9.
LEMMA FpFold ==
  ASSUME NEW x \in Nat
  PROVE  MersenneFold(x) \in Nat /\ MersenneFold(x) % P = x % P
  BY SMT DEF MersenneFold, P

\* Both halves of what MersenneFold takes apart.
LEMMA FpHalves ==
  ASSUME NEW x \in Nat
  PROVE  /\ x \div 512 \in Nat /\ x % 512 \in 0 .. 511
         /\ x = 512 * (x \div 512) + (x % 512)
  BY SMT

\* Two folds bring all sums into the range of the last reduction.
LEMMA FpTwice ==
  ASSUME NEW x \in Nat, x < 33554432
  PROVE  MersenneFold(MersenneFold(x)) \in Nat /\ MersenneFold(MersenneFold(x)) <= 1663
<1> DEFINE h == x \div 512
           l == x % 512
           y == l + 3 * h
           g == y \div 512
           k == y % 512
<1>1. h \in Nat /\ l \in 0 .. 511 /\ x = 512 * h + l
  BY SMT, FpHalves
<1>2. y \in Nat /\ y < 197120
  <2> HIDE DEF h, l
  <2> QED  BY SMT, <1>1
<1> HIDE DEF y
<1>3. g \in Nat /\ k \in 0 .. 511 /\ y = 512 * g + k
  BY SMT, <1>2, FpHalves
<1>4. k + 3 * g \in Nat /\ k + 3 * g <= 1663
  <2> HIDE DEF g, k
  <2> QED  BY SMT, <1>2, <1>3
<1>5. MersenneFold(x) = y /\ MersenneFold(y) = k + 3 * g
  BY SMT DEF MersenneFold, y
<1> QED
  BY SMT, <1>4, <1>5

\* Below 1664 the estimated quotient is the quotient.
LEMMA BarrettRight ==
  ASSUME NEW x \in Nat, x <= 1663
  PROVE  Barrett(x) = x % P
<1>1. U32(x * 16481) = x * 16481
  BY SMT, MatrixAssumption DEF U32
<1> QED
  BY SMT, <1>1 DEF Barrett, P

-----------------------------------------------------------------------------
(* The invariant.                                                          *)

\* No accumulator has been added to yet.
LEMMA MatrixInit == Init => MatrixInvariant
<1> SUFFICES ASSUME Init PROVE MatrixInvariant
  OBVIOUS
<1> USE DEF Init
<1>1. FzAccumulator
  BY SMT, MatrixAssumption DEF FzAccumulator, Z
<1>2. FpAccumulator
  <2> SUFFICES ASSUME matrix = "fp" PROVE FpAccumulator
    BY SMT DEF FpAccumulator
  <2>1. acc \in FpElem /\ sum = acc /\ i = 0 /\ res = -1
    BY SMT
  <2>2. acc \in 0 .. 508
    BY SMT, <2>1, MatrixAssumption DEF P
  <2> QED
    BY SMT, <2>1, <2>2, MatrixAssumption DEF FpAccumulator, P
<1>3. ExponentRight /\ SyndromeRight
  BY SMT DEF ExponentRight, SyndromeRight
<1> QED
  BY SMT, <1>1, <1>2, <1>3 DEF MatrixInvariant

\* The sum of two numbers modulo 127, and modulo 509.
LEMMA FzResidue ==
  ASSUME NEW x \in Nat, NEW p \in Nat
  PROVE  ((x % Z) + p) % Z = (x + p) % Z /\ (x + p) % Z \in 0 .. Z-1
  BY SMT DEF Z

LEMMA FpResidue ==
  ASSUME NEW x \in Nat, NEW p \in Nat
  PROVE  ((x % P) + p) % P = (x + p) % P /\ (x + p) % P \in 0 .. P-1
  BY SMT DEF P

\* Four rows from one partial reduction to the next.
LEMMA FzRowKeeps ==
  ASSUME MatrixInvariant, FzRow
  PROVE  MatrixInvariant'
<1>1. PICK e, w \in FzElem :
        LET x == U16(acc + w * e)
        IN  /\ acc' = IF i % 4 = 3 THEN FZRED_SINGLE(x) ELSE x
            /\ sum' = (sum + w * e) % Z
  BY SMT DEF FzRow
<1>2. PICK p \in Nat : p = w * e /\ p <= 15876
  BY SMT, FzProduct
<1>3. /\ matrix = "fz" /\ i < M /\ i' = i + 1
      /\ UNCHANGED <<matrix, res>>
  BY SMT DEF FzRow
<1>4. /\ i \in 0 .. M /\ acc \in Nat /\ acc <= 627 + (i % 4) * 15876
      /\ acc % Z = sum /\ (res # -1 => i = M)
  BY SMT, <1>3 DEF MatrixInvariant, FzAccumulator
<1>5. i' \in 0 .. M /\ i % 4 \in 0 .. 3 /\ i' % 4 = (IF i % 4 = 3 THEN 0 ELSE (i % 4) + 1)
  BY SMT, <1>3, <1>4, MatrixAssumption
<1>6. U16(acc + p) = acc + p /\ acc + p <= 627 + ((i % 4) + 1) * 15876
  BY SMT, <1>2, <1>4, <1>5 DEF U16
<1>7. sum' = (acc + p) % Z /\ sum' \in 0 .. Z-1
  BY SMT, <1>1, <1>2, <1>4, FzResidue
<1>8. acc' = IF i % 4 = 3 THEN FZRED_SINGLE(acc + p) ELSE acc + p
  BY SMT, <1>1, <1>2, <1>6
<1>9. res = -1
  BY SMT, <1>3, <1>4, MatrixAssumption
<1>10. FzAccumulator'
  <2>1. CASE i % 4 = 3
    <3>1. acc + p \in Nat /\ acc + p <= 64131
      BY SMT, <1>2, <1>4, <1>6, <2>1
    <3>2. acc' \in 0 .. 627 /\ acc' % Z = (acc + p) % Z
      BY SMT, <1>8, <2>1, <3>1, FzPartial, FzFold
    <3> QED
      BY SMT, <1>3, <1>5, <1>7, <1>9, <2>1, <3>2 DEF FzAccumulator
  <2>2. CASE i % 4 # 3
    <3>1. acc' = acc + p
      BY SMT, <1>8, <2>2
    <3> QED
      BY SMT, <1>2, <1>3, <1>4, <1>5, <1>6, <1>7, <1>9, <2>2, <3>1 DEF FzAccumulator
  <2> QED
    BY <2>1, <2>2
<1> QED
  BY SMT, <1>3, <1>9, <1>10 DEF MatrixInvariant, FpAccumulator, ExponentRight, SyndromeRight

\* The last row may stand alone behind a partial reduction; FZRED_DOUBLE
\* brings both cases below 128.
LEMMA FzStoreKeeps ==
  ASSUME MatrixInvariant, FzStore
  PROVE  MatrixInvariant'
<1>1. /\ matrix = "fz" /\ i = M
      /\ res' = U8(FZRED_SINGLE(FZRED_SINGLE(acc)))
      /\ UNCHANGED <<matrix, i, acc, sum>>
  BY SMT DEF FzStore
<1>2. /\ acc \in Nat /\ acc <= 16503 /\ acc % Z = sum /\ sum \in 0 .. Z-1
  <2>1. acc <= 627 + (M % 4) * 15876 /\ M % 4 \in 0..1
    BY SMT, <1>1, MatrixAssumption DEF MatrixInvariant, FzAccumulator
  <2> QED
    BY SMT, <1>1, <2>1 DEF MatrixInvariant, FzAccumulator
<1> DEFINE y == FZRED_SINGLE(FZRED_SINGLE(acc))
<1>3. y \in 0 .. 127
  BY SMT, <1>2, FzDouble
<1>4. y % Z = sum
  <2>1. FZRED_SINGLE(acc) \in Nat /\ FZRED_SINGLE(acc) % Z = sum
    BY SMT, <1>2, FzFold
  <2> QED
    BY SMT, <2>1, FzFold
<1> HIDE DEF y
<1>5. res' = y
  <2>1. U8(y) = y
    BY SMT, <1>3 DEF U8
  <2> QED
    BY <1>1, <2>1 DEF y
<1>6. FZ_DOUBLE_ZERO_NORM(y) = sum /\ RestrExponent(y) % Z = sum
  BY SMT, <1>2, <1>3, <1>4 DEF FZ_DOUBLE_ZERO_NORM, RestrExponent, Z
<1>7. ExponentRight'
  BY <1>1, <1>5, <1>6 DEF ExponentRight
<1> QED
  BY SMT, <1>1, <1>7 DEF MatrixInvariant, FzAccumulator, FpAccumulator, SyndromeRight

\* The sums of the other products only grow.
LEMMA FpRowKeeps ==
  ASSUME MatrixInvariant, FpRow
  PROVE  MatrixInvariant'
<1>1. PICK s, v \in FpElem : acc' = U32(acc + v * s) /\ sum' = (sum + v * s) % P
  BY SMT DEF FpRow
<1>2. PICK p \in Nat : p = v * s /\ p <= 258064
  BY SMT, FpProduct
<1>3. /\ matrix = "fp" /\ i < K /\ i' = i + 1
      /\ UNCHANGED <<matrix, res>>
  BY SMT DEF FpRow
<1>4. /\ i \in 0 .. K /\ acc \in Nat /\ acc <= 508 + i * 258064
      /\ acc % P = sum /\ (res # -1 => i = K)
  BY SMT, <1>3 DEF MatrixInvariant, FpAccumulator
<1>5. i' \in 0 .. K /\ i <= 127 /\ res = -1 /\ K \in Int /\ i \in Int
  BY SMT, <1>3, <1>4, MatrixAssumption
<1>6. acc + p < 33554432 /\ acc + p \in Nat /\ acc + p <= 508 + i' * 258064
  BY SMT, <1>2, <1>3, <1>4, <1>5
<1>7. acc' = acc + p
  BY SMT, <1>1, <1>2, <1>6, MatrixAssumption DEF U32
<1>8. sum' = (acc + p) % P /\ sum' \in 0 .. P-1
  BY SMT, <1>1, <1>2, <1>4, FpResidue
<1>9. FpAccumulator'
  BY SMT, <1>3, <1>5, <1>6, <1>7, <1>8 DEF FpAccumulator
<1> QED
  BY SMT, <1>3, <1>5, <1>9 DEF MatrixInvariant, FzAccumulator, ExponentRight, SyndromeRight

\* One reduction is enough for all of them.
LEMMA FpStoreKeeps ==
  ASSUME MatrixInvariant, FpStore
  PROVE  MatrixInvariant'
<1>1. /\ matrix = "fp" /\ i = K
      /\ res' = U16(Barrett(MersenneFold(MersenneFold(acc))))
      /\ UNCHANGED <<matrix, i, acc, sum>>
  BY SMT DEF FpStore
<1>2. acc \in Nat /\ acc <= 508 + K * 258064 /\ acc % P = sum /\ sum \in 0 .. P-1
  BY SMT, <1>1 DEF MatrixInvariant, FpAccumulator
<1>3. acc < 33554432
  BY SMT, <1>2, MatrixAssumption
<1> DEFINE y == MersenneFold(MersenneFold(acc))
<1>4. y \in Nat /\ y <= 1663
  <2>1. acc \in Nat /\ acc < 33554432
    BY SMT, <1>2, <1>3
  <2> QED
    BY SMT, <2>1, FpTwice
<1>5. y % P = sum
  <2>1. MersenneFold(acc) \in Nat /\ MersenneFold(acc) % P = sum
    BY SMT, <1>2, FpFold
  <2> QED
    BY SMT, <2>1, FpFold
<1> HIDE DEF y
<1>6. res' = U16(Barrett(y))
  BY <1>1 DEF y
<1>7. Barrett(y) = sum
  BY SMT, <1>4, <1>5, BarrettRight
<1>8. res' = sum
  BY SMT, <1>2, <1>6, <1>7 DEF U16, P
<1>9. SyndromeRight'
  BY <1>1, <1>8 DEF SyndromeRight
<1> QED
  BY SMT, <1>1, <1>9 DEF MatrixInvariant, FzAccumulator, FpAccumulator, ExponentRight

\* Every step keeps the invariant.
LEMMA MatrixNext ==
  ASSUME MatrixInvariant, [Next]_vars
  PROVE  MatrixInvariant'
<1>1. CASE UNCHANGED vars
  BY SMT, <1>1 DEF vars, MatrixInvariant, FzAccumulator, FpAccumulator, ExponentRight,
     SyndromeRight
<1>2. CASE Stored
  BY SMT, <1>1, <1>2 DEF Stored, vars, MatrixInvariant, FzAccumulator, FpAccumulator,
     ExponentRight, SyndromeRight
<1> QED
  BY <1>1, <1>2, FzRowKeeps, FzStoreKeeps, FpRowKeeps, FpStoreKeeps DEF Next

-----------------------------------------------------------------------------
(* Theorems.                                                               *)

\* The accumulators of fz_inf_w_by_fz_matrix, restr_vec_by_fp_matrix and
\* fp_vec_by_fp_matrix never lose anything.
THEOREM MatrixInvariantHolds == Spec => []MatrixInvariant
<1>1. MatrixInvariant /\ [Next]_vars => MatrixInvariant'
  BY MatrixNext
<1> QED
  BY MatrixInit, <1>1, PTL DEF Spec

\* fz_inf_w_by_fz_matrix yields an exponent that both ways of reading it
\* take for the right one.
THEOREM ExponentRightHolds == Spec => []ExponentRight
<1>1. MatrixInvariant => ExponentRight
  BY DEF MatrixInvariant
<1> QED
  BY <1>1, MatrixInvariantHolds, PTL

\* restr_vec_by_fp_matrix and fp_vec_by_fp_matrix yield the reduced sum.
THEOREM SyndromeRightHolds == Spec => []SyndromeRight
<1>1. MatrixInvariant => SyndromeRight
  BY DEF MatrixInvariant
<1> QED
  BY <1>1, MatrixInvariantHolds, PTL
===============================================================================
