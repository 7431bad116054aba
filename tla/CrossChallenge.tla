---------------------------- MODULE CrossChallenge ----------------------------
(***************************************************************************)
(* expand_digest_to_fixed_weight (csprng_hash.c): a Fisher-Yates shuffle   *)
(* makes the second challenge of CROSS, a string of T bits of weight W,    *)
(* from a buffer of random bytes.  A draw that is too large is rejected;   *)
(* the buffer is of fixed size and may run out, after which every draw is  *)
(* 0.  The random bits are any bits.                                       *)
(***************************************************************************)
EXTENDS CrossTree

CONSTANT CwstrBytes  \* ROUND_UP(BITS_CWSTR_RNG, 8) / 8

ASSUME BufferAssumption == CwstrBytes \in Nat /\ CwstrBytes >= 8

VARIABLES
  fw_at,                \* not called, drawing, or about to return
  fixed_weight_string,
  curr,
  bits_in_sub_buf,
  pos_remaining

fwVars == <<fw_at, fixed_weight_string, curr, bits_in_sub_buf, pos_remaining>>

BITS_TO_REPRESENT(n) ==
  IF n = 0 THEN 1 ELSE CHOOSE b \in 1..16 : 2^(b-1) <= n /\ n < 2^b

\* How many bytes are moved from the buffer to sub_buffer.
Refill ==
  IF bits_in_sub_buf <= 32 THEN IF pos_remaining >= 4 THEN 4 ELSE pos_remaining
  ELSE 0

\* The numbers the lowest bits of sub_buffer can be: above the bits that are
\* left it holds zeros.
Candidates(bits) ==
  LET wanted == BITS_TO_REPRESENT(T - 1 - curr)
      left   == IF bits > 0 THEN bits ELSE 0
  IN  0 .. 2^(IF wanted <= left THEN wanted ELSE left) - 1

\* Mutant: without the variable tmp.
SwappedWithoutTmp(s, a, b) == [s EXCEPT ![a] = s[b]]

Swapped(s, a, b) == [s EXCEPT ![a] = s[b], ![b] = s[a]]

ChallengeInit ==
  /\ fw_at = "idle"
  /\ fixed_weight_string = [r \in Round |-> 0]
  /\ curr = 0 /\ bits_in_sub_buf = 0 /\ pos_remaining = 0

ExpandBegin ==
  /\ fw_at = "idle" /\ fw_at' = "drawing"
  /\ fixed_weight_string' = [r \in Round |-> IF r < W THEN 1 ELSE 0]
  /\ curr' = 0 /\ bits_in_sub_buf' = 64 /\ pos_remaining' = CwstrBytes - 8

\* Mutant: a buffer that is used up is read again.
DrawForever ==
  /\ fw_at = "drawing" /\ curr < T
  /\ \E candidate_pos \in Candidates(bits_in_sub_buf + 8 * Refill) :
       IF candidate_pos < T - curr
       THEN /\ fixed_weight_string' =
                 Swapped(fixed_weight_string, curr, curr + candidate_pos)
            /\ curr' = curr + 1
       ELSE UNCHANGED <<fixed_weight_string, curr>>
  /\ bits_in_sub_buf' =
       bits_in_sub_buf + 8 * Refill - BITS_TO_REPRESENT(T - 1 - curr)
  /\ UNCHANGED <<fw_at, pos_remaining>>

Draw ==
  /\ fw_at = "drawing" /\ curr < T
  /\ \E candidate_pos \in Candidates(bits_in_sub_buf + 8 * Refill) :
       IF candidate_pos < T - curr
       THEN /\ fixed_weight_string' =
                 Swapped(fixed_weight_string, curr, curr + candidate_pos)
            /\ curr' = curr + 1
       ELSE UNCHANGED <<fixed_weight_string, curr>>
  /\ bits_in_sub_buf' =
       bits_in_sub_buf + 8 * Refill - BITS_TO_REPRESENT(T - 1 - curr)
  /\ pos_remaining' = pos_remaining - Refill
  /\ UNCHANGED fw_at

\* The caller has the string; the other locals are gone.
ExpandReturn ==
  /\ fw_at = "drawing" /\ curr = T
  /\ fw_at' = "returned"
  /\ curr' = 0 /\ bits_in_sub_buf' = 0 /\ pos_remaining' = 0
  /\ UNCHANGED fixed_weight_string

Expand == ExpandBegin \/ Draw \/ ExpandReturn

-----------------------------------------------------------------------------
\* Whatever is drawn, rejected or drawn from an exhausted buffer, the string
\* keeps its weight and no swap leaves it: CROSS_sign has exactly T-W slots
\* for the responses.
WeightKept ==
  /\ DOMAIN fixed_weight_string = Round
  /\ fw_at # "idle" =>
       Cardinality({r \in Round : fixed_weight_string[r] = 1}) = W
===============================================================================
