------------------------------ MODULE CrossMatrix ------------------------------
(***************************************************************************)
(* One column of the products of a vector and a matrix in CROSS with       *)
(* OQS_ENABLE_SVE2: fz_inf_w_by_fz_matrix (restr_arith.h), which adds up   *)
(* exponents modulo 127 in 16 bits, and restr_vec_by_fp_matrix and         *)
(* fp_vec_by_fp_matrix (fp_arith.h), which add up modulo 509 in 32 bits.   *)
(* They reduce as seldom as they dare: the scalar code they replace does   *)
(* it in every row.  All columns of a matrix are alike, and the lanes of a *)
(* vector do not influence each other.                                     *)
(***************************************************************************)
EXTENDS Integers

CONSTANTS
  M,      \* rows of W_mat
  K,      \* rows of V_tr
  FzElem, \* the exponents: 0 .. Z-1
  FpElem, \* the field: 0 .. P-1
  WORD    \* 2^32, where uint32_t wraps around

Z == 127
P == 509

\* The three parameter sets have M = 25, 40 and 48, and K = 36, 48 and 69.
ASSUME MatrixAssumption ==
  /\ M \in Nat \ {0} /\ M % 4 \in 0..1
  /\ K \in 1 .. 128
  /\ FzElem \subseteq 0 .. Z-1 /\ FpElem \subseteq 0 .. P-1
  /\ WORD \in Nat /\ WORD >= 33554432

VARIABLES
  matrix,  \* which product it is: "fz" or "fp"
  i,       \* rows that were added
  acc,     \* this column's lane of the accumulator
  res,     \* what is stored in the end
  sum      \* what scalar code has after the same rows, reduced in each

vars == <<matrix, i, acc, res, sum>>

-----------------------------------------------------------------------------
(* Reductions.                                                             *)

U8(x)  == x % 256
U16(x) == x % 65536
U32(x) == x % WORD

FZRED_SINGLE(x) == (x % 128) + x \div 128
FZ_DOUBLE_ZERO_NORM(x) == (x + (x + 1) \div 128) % 128

\* The exponent RESTR_TO_VAL sees: it looks at seven bits.
RestrExponent(x) == x % 128

MersenneFold(x) == (x % 512) + 3 * (x \div 512)
Barrett(x)      == x - P * (U32(x * 16481) \div 8388608)

-----------------------------------------------------------------------------
Init ==
  /\ matrix \in {"fz", "fp"} /\ i = 0 /\ res = -1
  /\ IF matrix = "fz" THEN acc = 0 ELSE acc \in FpElem
  /\ sum = acc

\* Mutant: a partial reduction in every eighth row.
FzRowEighth ==
  /\ matrix = "fz" /\ i < M
  /\ \E e, w \in FzElem :
       LET x == U16(acc + w * e)
       IN  /\ acc' = IF i % 8 = 7 THEN FZRED_SINGLE(x) ELSE x
           /\ sum' = (sum + w * e) % Z
  /\ i' = i + 1
  /\ UNCHANGED <<matrix, res>>

\* acc += w * e, and in every fourth row a partial reduction.
FzRow ==
  /\ matrix = "fz" /\ i < M
  /\ \E e, w \in FzElem :
       LET x == U16(acc + w * e)
       IN  /\ acc' = IF i % 4 = 3 THEN FZRED_SINGLE(x) ELSE x
           /\ sum' = (sum + w * e) % Z
  /\ i' = i + 1
  /\ UNCHANGED <<matrix, res>>

FzStore ==
  /\ matrix = "fz" /\ i = M /\ res = -1
  /\ res' = U8(FZRED_SINGLE(FZRED_SINGLE(acc)))
  /\ UNCHANGED <<matrix, i, acc, sum>>

FpRow ==
  /\ matrix = "fp" /\ i < K
  /\ \E s, v \in FpElem :
       /\ acc' = U32(acc + v * s)
       /\ sum' = (sum + v * s) % P
  /\ i' = i + 1
  /\ UNCHANGED <<matrix, res>>

\* Mutant: one fold before the last reduction instead of two.
FpStoreOneFold ==
  /\ matrix = "fp" /\ i = K /\ res = -1
  /\ res' = U16(Barrett(MersenneFold(acc)))
  /\ UNCHANGED <<matrix, i, acc, sum>>

\* sv_barrett_store.
FpStore ==
  /\ matrix = "fp" /\ i = K /\ res = -1
  /\ res' = U16(Barrett(MersenneFold(MersenneFold(acc))))
  /\ UNCHANGED <<matrix, i, acc, sum>>

\* The column is done.
Stored == res # -1 /\ UNCHANGED vars

Next == FzRow \/ FzStore \/ FpRow \/ FpStore \/ Stored

Spec == Init /\ [][Next]_vars

-----------------------------------------------------------------------------
(* Properties.                                                             *)

\* fz_inf_w_by_fz_matrix: a partial reduction leaves at most 627, the three
\* products before the next one stay below 2^16 - so does the fourth, which
\* the comments on lines 78 and 115 of restr_arith.h forget to add to what
\* was left - and every row keeps the residue.
FzAccumulator ==
  matrix = "fz" =>
    /\ i \in 0 .. M /\ acc \in Nat /\ sum \in 0 .. Z-1
    /\ acc <= 627 + (i % 4) * 15876
    /\ acc % Z = sum
    /\ res # -1 => i = M

\* The 32 bits of the other products are enough for all rows.
FpAccumulator ==
  matrix = "fp" =>
    /\ i \in 0 .. K /\ acc \in Nat /\ sum \in 0 .. P-1
    /\ acc <= 508 + i * 258064
    /\ acc % P = sum
    /\ res # -1 => i = K

\* The exponent is right both to FZ_DOUBLE_ZERO_NORM, which the signer
\* applies to it, and to the seven bits of RESTR_TO_VAL, which is all that
\* CROSS_verify applies to v_bar.
ExponentRight ==
  matrix = "fz" /\ res # -1 =>
    /\ FZ_DOUBLE_ZERO_NORM(res) = sum
    /\ RestrExponent(res) % Z = sum

\* restr_vec_by_fp_matrix and fp_vec_by_fp_matrix: one reduction after all
\* rows yields the reduced sum, which is compared and hashed as it is.
SyndromeRight == matrix = "fp" /\ res # -1 => res = sum

\* Together they are inductive: no step before the last one wraps around or
\* loses a residue, and the last one is right.
MatrixInvariant ==
  /\ matrix \in {"fz", "fp"}
  /\ FzAccumulator /\ FpAccumulator
  /\ ExponentRight /\ SyndromeRight
===============================================================================
