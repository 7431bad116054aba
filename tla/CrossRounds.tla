----------------------------- MODULE CrossRounds -----------------------------
(***************************************************************************)
(* The loops over the T rounds in CROSS_sign and CROSS_verify (CROSS.c     *)
(* with OQS_ENABLE_SVE2).  Both put the inputs of the hashes in queues of  *)
(* two, hash two at a time with hash_par, and must not forget the last one *)
(* when their number is odd.  The signer's rounds all go through the same  *)
(* queue; the verifier's go to one queue when their seed was published and *)
(* to another when they were answered.                                     *)
(*                                                                         *)
(* What is computed inside a round is abstracted to the value it yields:   *)
(* y, v_G_bar and the syndrome.  That signer and verifier come to the same *)
(* syndrome by different ways is the algebra of CROSS, not modelled here.  *)
(***************************************************************************)
EXTENDS CrossTree

CONSTANTS
  Y(_),            \* the first response of the round with this seed
  V(_),            \* its v_G_bar
  Syndrome(_, _),  \* s_prime of y and v_G_bar
  Hash(_, _),      \* hash of an input under a domain separator
  Empty,           \* a cleared slot
  Garbage,         \* a variable nothing was written to
  AlteredValue,    \* what a response may hold when it was changed on the way
  Restricted(_)    \* is_fz_vec_in_restr_group_m of an unpacked v_G_bar

VARIABLES
  rd_at,           \* where CROSS_sign and CROSS_verify are
  round,           \* their loop variable i
  queue_0, queue_1,\* inputs of cmt_0 and of cmt_1 that are still to be hashed
  cmt_1, y,
  resp_0, resp_1,  \* the responses of the signature
  rsps,            \* published_rsps of the signer, used_rsps of the verifier
  is_signature_ok, is_packed_padd_ok

rdOk   == <<is_signature_ok, is_packed_padd_ok>>
rdVars == <<rd_at, round, queue_0, queue_1, cmt_1, y, resp_0, resp_1, rsps, rdOk>>

-----------------------------------------------------------------------------
(* Queues: how many entries, and of both slots the round, the input and    *)
(* the domain separator.  Slots keep what they held when they are emptied. *)

Slots2     == 0..1
Queue(n, idx, in, dsc) ==
  [to_hash |-> n, round_idx |-> idx, input |-> in, dsc |-> dsc]
EmptyQueue == Queue(0, [s \in Slots2 |-> 0], [s \in Slots2 |-> Garbage],
                    [s \in Slots2 |-> 0])

\* HASH_DOMAIN_SEP_CONST + i + (2*T-1), a uint16_t.
HashDsc(r) == (32768 + r + (2*T-1)) % 65536

Enqueued(q, r, input) ==
  Queue(q.to_hash + 1,
        [q.round_idx EXCEPT ![q.to_hash] = r],
        [q.input EXCEPT ![q.to_hash] = input],
        [q.dsc EXCEPT ![q.to_hash] = HashDsc(r)])

\* hash_par hashes as many of the two inputs as it is told to.
HashPar(q, cmt) ==
  LET Digest(s) == Hash(q.input[s], q.dsc[s])
      one == [cmt EXCEPT ![q.round_idx[0]] = Digest(0)]
  IN  IF q.to_hash = 0 THEN cmt
      ELSE IF q.to_hash = 1 THEN one
      ELSE [one EXCEPT ![q.round_idx[1]] = Digest(1)]

\* Mutant: what is left after the last round is not hashed.
FullPairs(q)  == q.to_hash = 2

\* The queues are emptied when they are full, and after the last round.
Full(q)       == q.to_hash = 2 \/ round = T-1
Flushed(q)    ==
  IF Full(q) THEN Queue(0, q.round_idx, q.input, q.dsc) ELSE q
HashedIf(q, cmt) == IF Full(q) THEN HashPar(q, cmt) ELSE cmt

-----------------------------------------------------------------------------
(* The inputs of the two hashes of a round.                                *)

Input0(yy, v, v_pad) == <<Syndrome(yy, v), v, v_pad>>
Input1(seed)         == <<seed>>

\* What a packed answer holds: the values and the bits that fill the last
\* byte of each.
Answer(yy, v) == [y |-> yy, y_pad |-> 0, v |-> v, v_pad |-> 0]

-----------------------------------------------------------------------------
(* CROSS_sign.                                                             *)

RoundsInit ==
  /\ rd_at = "seeds" /\ round = 0
  /\ queue_0 = EmptyQueue /\ queue_1 = EmptyQueue
  /\ cmt_0 = [p \in Party |-> [r \in Round |-> Empty]]
  /\ cmt_1 = [p \in Party |-> [r \in Round |-> Empty]]
  /\ y = [p \in Party |-> [r \in Round |-> Garbage]]
  /\ resp_0 = [k \in 0 .. T-W-1 |-> Answer(Y(Empty), V(Empty))]
  /\ resp_1 = [k \in 0 .. T-W-1 |-> Empty]
  /\ rsps = [p \in Party |-> 0]
  /\ is_signature_ok = TRUE /\ is_packed_padd_ok = TRUE

\* The seeds of the rounds are there.
RoundsBegin ==
  /\ rd_at = "seeds" /\ rd_at' = "commit"
  /\ UNCHANGED <<round, queue_0, queue_1, cmt_1, y, resp_0, resp_1, rsps, rdOk,
                 sharedVars>>

CommitRound ==
  /\ rd_at = "commit"
  /\ LET seed == round_seeds["signer"][round]
         q0   == Enqueued(queue_0, round, Input0(Y(seed), V(seed), 0))
         q1   == Enqueued(queue_1, round, Input1(seed))
     IN  /\ cmt_0' = [cmt_0 EXCEPT !["signer"] = HashedIf(q0, @)]
         /\ cmt_1' = [cmt_1 EXCEPT !["signer"] = HashedIf(q1, @)]
         /\ queue_0' = Flushed(q0) /\ queue_1' = Flushed(q1)
  /\ round' = round + 1
  /\ rd_at' = IF round = T-1 THEN "committed" ELSE rd_at
  /\ UNCHANGED <<y, resp_0, resp_1, rsps, rdOk, chall_2, round_seeds, intact>>

\* The first challenge is there: the first responses of all rounds.
Respond1 ==
  /\ rd_at = "committed" /\ rd_at' = "challenge"
  /\ y' = [y EXCEPT !["signer"] = [r \in Round |-> Y(round_seeds["signer"][r])]]
  /\ UNCHANGED <<round, queue_0, queue_1, cmt_1, resp_0, resp_1, rsps, rdOk,
                 sharedVars>>

\* Between the loops: CROSS_sign has the second challenge.
RoundsChallenge ==
  /\ rd_at = "challenge" /\ rd_at' = "respond" /\ round' = 0
  /\ UNCHANGED <<queue_0, queue_1, cmt_1, y, resp_0, resp_1, rsps, rdOk>>

\* Mutant: the rounds whose seed is published are answered.
RespondRoundPublished ==
  /\ rd_at = "respond"
  /\ IF chall_2[round] = 1
     THEN LET k == rsps["signer"]
          IN  /\ resp_0' = [resp_0 EXCEPT ![k] =
                   Answer(y["signer"][round], V(round_seeds["signer"][round]))]
              /\ resp_1' = [resp_1 EXCEPT ![k] = cmt_1["signer"][round]]
              /\ rsps' = [rsps EXCEPT !["signer"] = k + 1]
     ELSE UNCHANGED <<resp_0, resp_1, rsps>>
  /\ round' = round + 1
  /\ rd_at' = IF round = T-1 THEN "transit" ELSE rd_at
  /\ UNCHANGED <<queue_0, queue_1, cmt_1, y, rdOk, sharedVars>>

\* The rounds whose seed is not published are answered.
RespondRound ==
  /\ rd_at = "respond"
  /\ IF chall_2[round] = 0
     THEN LET k == rsps["signer"]
          IN  /\ resp_0' = [resp_0 EXCEPT ![k] =
                   Answer(y["signer"][round], V(round_seeds["signer"][round]))]
              /\ resp_1' = [resp_1 EXCEPT ![k] = cmt_1["signer"][round]]
              /\ rsps' = [rsps EXCEPT !["signer"] = k + 1]
     ELSE UNCHANGED <<resp_0, resp_1, rsps>>
  /\ round' = round + 1
  /\ rd_at' = IF round = T-1 THEN "transit" ELSE rd_at
  /\ UNCHANGED <<queue_0, queue_1, cmt_1, y, rdOk, sharedVars>>

-----------------------------------------------------------------------------
(* The signature on its way, and CROSS_verify.                             *)

\* One value of a response arrives with another value, or one padding is not 0.
ResponseDamaged ==
  /\ rd_at = "transit" /\ intact
  /\ \E k \in DOMAIN resp_0 :
       \/ \E v \in AlteredValue :
            \/ v # resp_0[k].y /\ resp_0' = [resp_0 EXCEPT ![k].y = v] /\ UNCHANGED resp_1
            \/ v # resp_0[k].v /\ resp_0' = [resp_0 EXCEPT ![k].v = v] /\ UNCHANGED resp_1
            \/ v # resp_1[k] /\ resp_1' = [resp_1 EXCEPT ![k] = v] /\ UNCHANGED resp_0
       \/ resp_0' = [resp_0 EXCEPT ![k].y_pad = 1] /\ UNCHANGED resp_1
       \/ resp_0' = [resp_0 EXCEPT ![k].v_pad = 1] /\ UNCHANGED resp_1
  /\ intact' = FALSE
  /\ UNCHANGED <<rd_at, round, queue_0, queue_1, cmt_1, y, rsps, rdOk, chall_2,
                 round_seeds, cmt_0>>

\* The verifier has rebuilt the seeds of the published rounds.
VerifyBegin ==
  /\ rd_at = "transit" /\ rd_at' = "verify"
  /\ round' = 0 /\ queue_0' = EmptyQueue /\ queue_1' = EmptyQueue
  /\ UNCHANGED <<cmt_1, y, resp_0, resp_1, rsps, rdOk, sharedVars>>

\* Mutant: after the last round only the queue of cmt_1 is hashed.
VerifierHashesOne(q0, q1, c1) ==
  /\ cmt_0' = [cmt_0 EXCEPT !["verifier"] =
                 IF q0.to_hash = 2 THEN HashPar(q0, @) ELSE @]
  /\ cmt_1' = [cmt_1 EXCEPT !["verifier"] = HashedIf(q1, c1)]
  /\ queue_0' = Flushed(q0) /\ queue_1' = Flushed(q1)
  /\ round' = round + 1
  /\ rd_at' = IF round = T-1 THEN "verified" ELSE rd_at
  /\ UNCHANGED <<resp_0, resp_1, chall_2, round_seeds, intact>>

\* Both queues are looked at after every round, whichever got an entry.
VerifierHashes(q0, q1, c1) ==
  /\ cmt_0' = [cmt_0 EXCEPT !["verifier"] = HashedIf(q0, @)]
  /\ cmt_1' = [cmt_1 EXCEPT !["verifier"] = HashedIf(q1, c1)]
  /\ queue_0' = Flushed(q0) /\ queue_1' = Flushed(q1)
  /\ round' = round + 1
  /\ rd_at' = IF round = T-1 THEN "verified" ELSE rd_at
  /\ UNCHANGED <<resp_0, resp_1, chall_2, round_seeds, intact>>

VerifyPublished ==
  /\ rd_at = "verify" /\ chall_2[round] = 1
  /\ LET seed == round_seeds["verifier"][round]
     IN  /\ y' = [y EXCEPT !["verifier"][round] = Y(seed)]
         /\ VerifierHashes(queue_0, Enqueued(queue_1, round, Input1(seed)),
                           cmt_1["verifier"])
  /\ UNCHANGED <<rsps, rdOk>>

\* The && of C stops at the first FALSE: once a padding was wrong nothing is
\* unpacked any more, and y and v_G_bar are what the stack held.
VerifyAnswered ==
  /\ rd_at = "verify" /\ chall_2[round] = 0
  /\ LET k   == rsps["verifier"]
         yOk == is_packed_padd_ok /\ resp_0[k].y_pad = 0
         vOk == yOk /\ resp_0[k].v_pad = 0
         yy  == IF is_packed_padd_ok THEN resp_0[k].y ELSE y["verifier"][round]
         v   == IF yOk THEN resp_0[k].v ELSE Garbage
     IN  /\ is_packed_padd_ok' = vOk
         /\ \E restricted \in IF yOk THEN {Restricted(v)} ELSE BOOLEAN :
              is_signature_ok' = (is_signature_ok /\ restricted)
         /\ y' = [y EXCEPT !["verifier"][round] = yy]
         /\ VerifierHashes(
              Enqueued(queue_0, round,
                       <<Syndrome(yy, v), resp_0[k].v, resp_0[k].v_pad>>),
              queue_1,
              [cmt_1["verifier"] EXCEPT ![round] = resp_1[k]])
         /\ rsps' = [rsps EXCEPT !["verifier"] = k + 1]

-----------------------------------------------------------------------------
SignerRounds == CommitRound \/ Respond1 \/ RespondRound
VerifyRounds == VerifyBegin \/ VerifyPublished \/ VerifyAnswered

\* What the rest of CROSS does meanwhile: it gives each party its seeds
\* before the party's loop begins, and other parts of the signature get
\* damaged.
OutsideRounds ==
  /\ \/ UNCHANGED round_seeds
     \/ rd_at = "seeds"
     \/ rd_at = "transit" /\ round_seeds'["signer"] = round_seeds["signer"]
  /\ intact' \in {intact, FALSE}
  /\ UNCHANGED <<rdVars, chall_2, cmt_0>>

RoundsNext ==
  \/ RoundsBegin
  \/ SignerRounds
  \/ RoundsChallenge /\ chall_2' \in Challenges /\ UNCHANGED <<cmt_0, round_seeds, intact>>
  \/ ResponseDamaged
  \/ VerifyRounds
  \/ OutsideRounds

\* The component by itself: the challenge is any string of weight W.
RoundsSpec ==
  /\ RoundsInit /\ chall_2 \in [Round -> 0..1] /\ intact = TRUE
  /\ [][RoundsNext]_<<rdVars, sharedVars>>

-----------------------------------------------------------------------------
(* Properties.                                                             *)

DomainSeparator == 0 .. 65535

QueueOK(q) ==
  /\ q.to_hash \in 0..1 /\ q.round_idx \in [Slots2 -> Round]
  /\ q.dsc \in [Slots2 -> DomainSeparator]

RoundsTypeOK ==
  /\ rd_at \in {"seeds", "commit", "committed", "challenge", "respond", "transit",
                "verify", "verified"}
  /\ round \in 0 .. T
  /\ QueueOK(queue_0) /\ QueueOK(queue_1)
  /\ rsps \in [Party -> 0 .. T-W]   \* as CROSS_sign asserts
  /\ is_signature_ok \in BOOLEAN /\ is_packed_padd_ok \in BOOLEAN

\* Each commitment of the signer is the hash of its own round's input under
\* its own separator, and none is left in a queue or overwritten by another
\* round: hashing two rounds at a time changes nothing.
OwnCommitments ==
  rd_at \notin {"seeds", "commit"} =>
    \A r \in Round :
      LET seed == round_seeds["signer"][r]
      IN  /\ cmt_0["signer"][r] = Hash(Input0(Y(seed), V(seed), 0), HashDsc(r))
          /\ cmt_1["signer"][r] = Hash(Input1(seed), HashDsc(r))

\* With the signer's seeds and responses the two queues of CROSS_verify
\* yield the commitments and first responses of the signer: all of cmt_1 and
\* y, and cmt_0 wherever the challenge is 0.
VerifierAgrees ==
  rd_at = "verified" /\ intact
  /\ (\A r \in Round : chall_2[r] = 1 =>
         round_seeds["verifier"][r] = round_seeds["signer"][r]) =>
    /\ \A r \in Round : chall_2[r] = 0 => cmt_0["verifier"][r] = cmt_0["signer"][r]
    /\ cmt_1["verifier"] = cmt_1["signer"]
    /\ y["verifier"] = y["signer"]
    /\ is_packed_padd_ok
===============================================================================
