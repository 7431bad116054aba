--------------------------- MODULE CrossRoundsProofs ---------------------------
(***************************************************************************)
(* Theorems about CrossRounds and their proofs.                            *)
(***************************************************************************)
EXTENDS CrossRounds, FiniteSetTheorems, TLAPS

-----------------------------------------------------------------------------
(* Queues: their fields, before and after the test for full queues.        *)

Shaped(q) ==
  /\ q = Queue(q.to_hash, q.round_idx, q.input, q.dsc)
  /\ q.to_hash \in 0..1
  /\ q.round_idx \in [Slots2 -> Round]
  /\ q.input = [s \in Slots2 |-> q.input[s]]
  /\ q.dsc = [s \in Slots2 |-> q.dsc[s]]

LEMMA QueueFields ==
  ASSUME NEW n, NEW idx, NEW in, NEW dsc
  PROVE  /\ Queue(n, idx, in, dsc).to_hash = n
         /\ Queue(n, idx, in, dsc).round_idx = idx
         /\ Queue(n, idx, in, dsc).input = in
         /\ Queue(n, idx, in, dsc).dsc = dsc
  BY DEF Queue

LEMMA EmptyShape == Shaped(EmptyQueue)
<1> DEFINE idx == [s \in Slots2 |-> 0]
           in  == [s \in Slots2 |-> Garbage]
<1>1. EmptyQueue = Queue(0, idx, in, idx)
  BY DEF EmptyQueue
<1>2. EmptyQueue.to_hash = 0 /\ EmptyQueue.round_idx = idx
      /\ EmptyQueue.input = in /\ EmptyQueue.dsc = idx
  BY <1>1, QueueFields
<1>3. 0 \in Round
  BY RoundAssumption DEF Round
<1> QED
  BY <1>1, <1>2, <1>3 DEF Shaped

LEMMA FlushedFields ==
  ASSUME NEW q
  PROVE  /\ Flushed(q).to_hash = IF Full(q) THEN 0 ELSE q.to_hash
         /\ Flushed(q).round_idx = q.round_idx
         /\ Flushed(q).input = q.input
         /\ Flushed(q).dsc = q.dsc
         /\ q = Queue(q.to_hash, q.round_idx, q.input, q.dsc) =>
              Flushed(q) = Queue(Flushed(q).to_hash, q.round_idx, q.input, q.dsc)
  BY QueueFields DEF Flushed

LEMMA EnqueueShape ==
  ASSUME NEW q, Shaped(q), NEW r \in Round, NEW input
  PROVE  LET f == Flushed(Enqueued(q, r, input))
         IN  Shaped(f) /\ (round = T-1 => f.to_hash = 0)
<1> DEFINE e == Enqueued(q, r, input)
           f == Flushed(e)
<1>1. /\ e.to_hash = q.to_hash + 1
      /\ e.round_idx = [q.round_idx EXCEPT ![q.to_hash] = r]
      /\ e.input = [q.input EXCEPT ![q.to_hash] = input]
      /\ e.dsc = [q.dsc EXCEPT ![q.to_hash] = HashDsc(r)]
  BY QueueFields DEF Enqueued
<1>e. e = Queue(e.to_hash, e.round_idx, e.input, e.dsc)
  BY <1>1 DEF Enqueued
<1>2. /\ f.to_hash = IF Full(e) THEN 0 ELSE e.to_hash
      /\ f.round_idx = e.round_idx /\ f.input = e.input /\ f.dsc = e.dsc
      /\ f = Queue(f.to_hash, f.round_idx, f.input, f.dsc)
  BY <1>e, FlushedFields
<1>3. q.to_hash \in 0..1 /\ q.to_hash \in Slots2
  BY DEF Shaped, Slots2
<1>4. f.to_hash \in 0..1 /\ (round = T-1 => f.to_hash = 0)
  BY <1>1, <1>2, <1>3 DEF Full
<1>5. e.round_idx \in [Slots2 -> Round]
  BY <1>1, <1>3 DEF Shaped
<1>6. e.input = [s \in Slots2 |-> e.input[s]] /\ e.dsc = [s \in Slots2 |-> e.dsc[s]]
  BY <1>1, <1>3 DEF Shaped
<1> HIDE DEF e, f
<1>7. Shaped(f)
  BY <1>2, <1>4, <1>5, <1>6 DEF Shaped
<1> QED
  BY <1>4, <1>7 DEF e, f

\* A round in which the queue gets no entry.
LEMMA IdleShape ==
  ASSUME NEW q, Shaped(q)
  PROVE  Shaped(Flushed(q)) /\ (round = T-1 => Flushed(q).to_hash = 0)
<1>1. /\ Flushed(q).to_hash = IF Full(q) THEN 0 ELSE q.to_hash
      /\ Flushed(q).round_idx = q.round_idx
      /\ Flushed(q).input = q.input /\ Flushed(q).dsc = q.dsc
      /\ Flushed(q) = Queue(Flushed(q).to_hash, q.round_idx, q.input, q.dsc)
  BY FlushedFields DEF Shaped
<1>2. Flushed(q).to_hash \in 0..1 /\ (round = T-1 => Flushed(q).to_hash = 0)
  BY <1>1 DEF Full, Shaped
<1> QED
  BY <1>1, <1>2 DEF Shaped

-----------------------------------------------------------------------------
(* What a queue and the digests together hold: of the rounds "done" each   *)
(* has its digest, or is the one that waits with the right input.          *)

Table(cmt) == cmt = [r \in Round |-> cmt[r]]

Holds(q, cmt, own, done) ==
  /\ Table(cmt)
  /\ q.to_hash = 1 => /\ q.round_idx[0] \in done
                      /\ Hash(q.input[0], q.dsc[0]) = own[q.round_idx[0]]
  /\ \A r \in done : cmt[r] = own[r] \/ (q.to_hash = 1 /\ q.round_idx[0] = r)

LEMMA EnqueueHolds ==
  ASSUME NEW q, Shaped(q), NEW r \in Round, NEW input, NEW cmt, NEW own,
         NEW done \in SUBSET Round, Holds(q, cmt, own, done),
         Hash(input, HashDsc(r)) = own[r]
  PROVE  LET e == Enqueued(q, r, input)
         IN  Holds(Flushed(e), HashedIf(e, cmt), own, done \cup {r})
<1> DEFINE e == Enqueued(q, r, input)
           f == Flushed(e)
<1>1. /\ e.to_hash = q.to_hash + 1
      /\ e.round_idx = [q.round_idx EXCEPT ![q.to_hash] = r]
      /\ e.input = [q.input EXCEPT ![q.to_hash] = input]
      /\ e.dsc = [q.dsc EXCEPT ![q.to_hash] = HashDsc(r)]
  BY QueueFields DEF Enqueued
<1>2. /\ f.to_hash = IF Full(e) THEN 0 ELSE e.to_hash
      /\ f.round_idx = e.round_idx /\ f.input = e.input /\ f.dsc = e.dsc
  BY FlushedFields
<1>3. 0 \in Slots2 /\ 1 \in Slots2
  BY DEF Slots2
<1>h. Table(cmt) /\ \A x \in done : cmt[x] = own[x] \/ (q.to_hash = 1 /\ q.round_idx[0] = x)
  BY DEF Holds
<1> HIDE DEF e, f
<1>4. CASE q.to_hash = 0
  <2>1. e.round_idx[0] = r /\ Hash(e.input[0], e.dsc[0]) = own[r] /\ e.to_hash = 1
    BY <1>1, <1>3, <1>4 DEF Shaped
  <2>2. CASE Full(e)
    <3>1. HashedIf(e, cmt) = [cmt EXCEPT ![r] = own[r]]
      BY <2>1, <2>2 DEF HashedIf, HashPar
    <3>2. f.to_hash = 0
      BY <1>2, <2>2
    <3> QED
      BY <1>4, <1>h, <3>1, <3>2 DEF Holds, Table, e, f
  <2>3. CASE ~ Full(e)
    <3>1. HashedIf(e, cmt) = cmt
      BY <2>3 DEF HashedIf
    <3>2. f.to_hash = 1 /\ f.round_idx[0] = r /\ Hash(f.input[0], f.dsc[0]) = own[r]
      BY <1>2, <2>1, <2>3
    <3> QED
      BY <1>4, <1>h, <3>1, <3>2 DEF Holds, e, f
  <2> QED
    BY <2>2, <2>3
<1>5. CASE q.to_hash = 1
  <2>1. /\ e.to_hash = 2
        /\ e.round_idx[0] = q.round_idx[0] /\ e.round_idx[1] = r
        /\ e.input[0] = q.input[0] /\ e.dsc[0] = q.dsc[0]
        /\ Hash(e.input[1], e.dsc[1]) = own[r]
    BY <1>1, <1>3, <1>5 DEF Shaped
  <2>2. q.round_idx[0] \in done /\ Hash(q.input[0], q.dsc[0]) = own[q.round_idx[0]]
    BY <1>5 DEF Holds
  <2>3. Full(e)
    BY <2>1 DEF Full
  <2>4. HashedIf(e, cmt) = [[cmt EXCEPT ![q.round_idx[0]] = own[q.round_idx[0]]]
                              EXCEPT ![r] = own[r]]
    BY <2>1, <2>2, <2>3 DEF HashedIf, HashPar
  <2>5. f.to_hash = 0
    BY <1>2, <2>3
  <2> QED
    BY <1>5, <1>h, <2>2, <2>4, <2>5 DEF Holds, Table, e, f
<1> QED
  BY <1>4, <1>5 DEF Shaped

LEMMA IdleHolds ==
  ASSUME NEW q, Shaped(q), NEW cmt, NEW own, NEW done \in SUBSET Round,
         Holds(q, cmt, own, done)
  PROVE  Holds(Flushed(q), HashedIf(q, cmt), own, done)
<1>2. /\ Flushed(q).to_hash = IF Full(q) THEN 0 ELSE q.to_hash
      /\ Flushed(q).round_idx = q.round_idx
      /\ Flushed(q).input = q.input /\ Flushed(q).dsc = q.dsc
  BY FlushedFields
<1>3. CASE q.to_hash = 0
  <2>1. HashedIf(q, cmt) = cmt /\ Flushed(q).to_hash = 0
    BY <1>2, <1>3 DEF HashedIf, HashPar
  <2> QED
    BY <1>3, <2>1 DEF Holds
<1>4. CASE q.to_hash = 1 /\ Full(q)
  <2>0. Hash(q.input[0], q.dsc[0]) = own[q.round_idx[0]] /\ q.round_idx[0] \in done
    BY <1>4 DEF Holds
  <2>1. HashedIf(q, cmt) = [cmt EXCEPT ![q.round_idx[0]] = own[q.round_idx[0]]]
    BY <1>4, <2>0 DEF HashedIf, HashPar
  <2>2. Flushed(q).to_hash = 0
    BY <1>2, <1>4
  <2> QED
    BY <1>4, <2>0, <2>1, <2>2 DEF Holds, Table
<1>5. CASE ~ Full(q)
  BY <1>5 DEF HashedIf, Flushed
<1> QED
  BY <1>3, <1>4, <1>5 DEF Shaped

\* A digest that is put in its place without the queue.
LEMMA PutHolds ==
  ASSUME NEW q, NEW cmt, NEW own, NEW done \in SUBSET Round,
         Holds(q, cmt, own, done), NEW r \in Round
  PROVE  Holds(q, [cmt EXCEPT ![r] = own[r]], own, done \cup {r})
  BY DEF Holds, Table

-----------------------------------------------------------------------------
(* How many of the first rounds are answered, and in which slot each is.   *)

AnsweredBefore(c, n) == {r \in 0 .. n-1 : c[r] = 0}
Count(c, n)          == Cardinality(AnsweredBefore(c, n))

LEMMA FiniteBefore ==
  ASSUME NEW c, NEW n \in 0 .. T
  PROVE  IsFiniteSet(AnsweredBefore(c, n)) /\ Count(c, n) \in Nat
<1>1. n \in Int /\ IsFiniteSet(0 .. n-1)
  BY FS_Interval, RoundAssumption
<1>2. AnsweredBefore(c, n) \in SUBSET (0 .. n-1)
  BY DEF AnsweredBefore
<1>3. IsFiniteSet(AnsweredBefore(c, n))
  BY <1>1, <1>2, FS_Subset
<1> QED
  BY <1>3, FS_CardinalityType DEF Count

LEMMA CountNone ==
  ASSUME NEW c
  PROVE  Count(c, 0) = 0 /\ AnsweredBefore(c, 0) = {}
<1>1. AnsweredBefore(c, 0) = {}
  BY DEF AnsweredBefore
<1> QED
  BY <1>1, FS_EmptySet DEF Count

LEMMA BeforeNext ==
  ASSUME NEW c, NEW n \in Round
  PROVE  AnsweredBefore(c, n+1) = IF c[n] = 0 THEN AnsweredBefore(c, n) \cup {n}
                                  ELSE AnsweredBefore(c, n)
<1>1. 0 .. (n+1)-1 = (0 .. n-1) \cup {n}
  BY RoundAssumption DEF Round
<1> QED
  BY <1>1 DEF AnsweredBefore

LEMMA CountNext ==
  ASSUME NEW c, NEW n \in Round
  PROVE  Count(c, n+1) = IF c[n] = 0 THEN Count(c, n) + 1 ELSE Count(c, n)
<1>1. n \in 0 .. T /\ n \notin AnsweredBefore(c, n)
  BY RoundAssumption DEF Round, AnsweredBefore
<1>2. IsFiniteSet(AnsweredBefore(c, n))
  BY <1>1, FiniteBefore
<1>3. Cardinality(AnsweredBefore(c, n) \cup {n}) = Count(c, n) + 1
  BY <1>1, <1>2, FS_AddElement DEF Count
<1> QED
  BY <1>3, BeforeNext DEF Count

\* Earlier rounds have earlier slots.
LEMMA CountGrows ==
  ASSUME NEW c, NEW n \in 0 .. T, NEW r \in 0 .. n-1, c[r] = 0
  PROVE  Count(c, r) \in Nat /\ Count(c, r) < Count(c, n)
<1>1. r \in Round /\ r \in 0 .. T /\ r+1 \in 0 .. T
  BY RoundAssumption DEF Round
<1>2. Count(c, r+1) = Count(c, r) + 1
  BY <1>1, CountNext
<1>3. AnsweredBefore(c, r+1) \in SUBSET AnsweredBefore(c, n)
  BY <1>1, RoundAssumption DEF AnsweredBefore
<1>4. Count(c, r+1) <= Count(c, n)
  BY <1>3, FiniteBefore, FS_Subset DEF Count
<1> QED
  BY <1>1, <1>2, <1>4, FiniteBefore

\* There are as many answers as slots, ...
LEMMA CountAll ==
  ASSUME NEW c \in Challenges
  PROVE  Count(c, T) = T - W
<1> DEFINE ones == {x \in Round : c[x] = 1}
<1>1. IsFiniteSet(Round) /\ Cardinality(Round) = T
  BY FS_Interval, RoundAssumption DEF Round
<1>2. Round \ ones = AnsweredBefore(c, T)
  <2>1. \A x \in Round : c[x] = 0 \/ c[x] = 1
    BY DEF Challenges
  <2> QED
    BY <2>1 DEF AnsweredBefore, Round
<1>3. Round \cap ones = ones /\ Cardinality(ones) = W
  BY DEF Challenges
<1>4. Cardinality(Round \ ones) = Cardinality(Round) - Cardinality(Round \cap ones)
  BY <1>1, FS_Difference
<1> QED
  BY <1>1, <1>2, <1>3, <1>4 DEF Count

\* ... and every answer finds one.
LEMMA CountFits ==
  ASSUME NEW c \in Challenges, NEW r \in Round, c[r] = 0
  PROVE  Count(c, r) \in 0 .. T-W-1
<1>1. T \in 0 .. T /\ r \in 0 .. T-1
  BY RoundAssumption DEF Round
<1>2. Count(c, r) \in Nat /\ Count(c, r) < Count(c, T)
  BY <1>1, CountGrows
<1> QED
  BY <1>2, CountAll, RoundAssumption

-----------------------------------------------------------------------------
(* The inductive invariant.                                                *)

Seed(r) == round_seeds["signer"][r]

\* What the rounds of the signer are to yield.
OwnCmt0 == [r \in Round |-> Hash(Input0(Y(Seed(r)), V(Seed(r)), 0), HashDsc(r))]
OwnCmt1 == [r \in Round |-> Hash(Input1(Seed(r)), HashDsc(r))]
OwnY    == [r \in Round |-> Y(Seed(r))]

Tables(f) == f = [p \in Party |-> f[p]] /\ \A p \in Party : Table(f[p])

Shape ==
  /\ Shaped(queue_0) /\ Shaped(queue_1)
  /\ Tables(cmt_0) /\ Tables(cmt_1) /\ Tables(y)
  /\ rsps = [p \in Party |-> rsps[p]]
  /\ rd_at \in {"seeds", "commit", "committed", "challenge", "respond", "transit",
                "verify", "verified"}
  /\ rd_at \in {"commit", "respond", "verify"} => round \in Round

\* The rounds before this one are committed to, but for one in each queue.
Committing ==
  /\ rd_at = "seeds" => round = 0 /\ queue_0.to_hash = 0 /\ queue_1.to_hash = 0
  /\ rd_at = "commit" =>
       /\ Holds(queue_0, cmt_0["signer"], OwnCmt0, 0 .. round-1)
       /\ Holds(queue_1, cmt_1["signer"], OwnCmt1, 0 .. round-1)

Committed ==
  /\ rd_at \notin {"seeds", "commit"} =>
       cmt_0["signer"] = OwnCmt0 /\ cmt_1["signer"] = OwnCmt1
  /\ rd_at \notin {"seeds", "commit", "committed"} => y["signer"] = OwnY

\* The first n rounds have their answers, each in the next free slot.
AnswersTo(n) ==
  \A r \in 0 .. n-1 : chall_2[r] = 0 =>
    /\ resp_0[Count(chall_2, r)] = Answer(OwnY[r], V(Seed(r)))
    /\ resp_1[Count(chall_2, r)] = OwnCmt1[r]

Answering ==
  /\ rd_at \in {"seeds", "commit", "committed", "challenge", "respond"}
     \/ (rd_at = "transit" /\ intact) =>
       /\ resp_0 = [k \in 0 .. T-W-1 |-> resp_0[k]]
       /\ resp_1 = [k \in 0 .. T-W-1 |-> resp_1[k]]
  /\ rd_at \in {"seeds", "commit", "committed", "challenge"} => rsps["signer"] = 0
  /\ rd_at \in {"respond", "transit", "verify", "verified"} => chall_2 \in Challenges
  /\ rd_at = "respond" => rsps["signer"] = Count(chall_2, round) /\ AnswersTo(round)
  /\ rd_at \in {"transit", "verify", "verified"} /\ intact => AnswersTo(T)

SeedsAgree ==
  \A r \in Round : chall_2[r] = 1 => round_seeds["verifier"][r] = round_seeds["signer"][r]

\* What the rounds of the verifier are to yield, from the responses as they
\* arrived and from the seeds that were rebuilt; cmt_0 only where the challenge
\* is 0.
Got(r)   == resp_0[Count(chall_2, r)]
SeenY    == [r \in Round |-> IF chall_2[r] = 1 THEN Y(round_seeds["verifier"][r]) ELSE Got(r).y]
SeenCmt0 == [r \in Round |->
  Hash(<<Syndrome(Got(r).y, Got(r).v), Got(r).v, Got(r).v_pad>>, HashDsc(r))]
SeenCmt1 == [r \in Round |->
  IF chall_2[r] = 1 THEN Hash(Input1(round_seeds["verifier"][r]), HashDsc(r))
                    ELSE resp_1[Count(chall_2, r)]]

PadsOk(n) ==
  \A r \in AnsweredBefore(chall_2, n) : Got(r).y_pad = 0 /\ Got(r).v_pad = 0

\* What the verifier has of the first n rounds.  After a wrong padding, y and
\* cmt_0 are of no more use.
VerifiedTo(n) ==
  /\ PadsOk(n) => is_packed_padd_ok
  /\ is_packed_padd_ok =>
       /\ PadsOk(n)
       /\ \A r \in 0 .. n-1 : y["verifier"][r] = SeenY[r]
       /\ Holds(queue_0, cmt_0["verifier"], SeenCmt0, AnsweredBefore(chall_2, n))
  /\ Holds(queue_1, cmt_1["verifier"], SeenCmt1, 0 .. n-1)

Verifying ==
  /\ rd_at \notin {"verify", "verified"} => rsps["verifier"] = 0 /\ is_packed_padd_ok
  /\ rd_at = "verify" => rsps["verifier"] = Count(chall_2, round) /\ VerifiedTo(round)
  /\ rd_at = "verified" => VerifiedTo(T) /\ queue_0.to_hash = 0 /\ queue_1.to_hash = 0

RoundsInvariant == Shape /\ Committing /\ Committed /\ Answering /\ Verifying

-----------------------------------------------------------------------------
(* The initial states.                                                     *)

LEMMA RoundsInitially ==
  ASSUME RoundsInit
  PROVE  RoundsInvariant
<1> USE DEF RoundsInit
<1>1. Shaped(queue_0) /\ Shaped(queue_1) /\ EmptyQueue.to_hash = 0
  BY EmptyShape, QueueFields DEF EmptyQueue
<1>2. Tables(cmt_0) /\ Tables(cmt_1) /\ Tables(y)
  BY DEF Tables, Table
<1>3. "signer" \in Party /\ "verifier" \in Party
  BY DEF Party
<1>4. rsps = [p \in Party |-> rsps[p]] /\ rsps["signer"] = 0 /\ rsps["verifier"] = 0
  BY <1>3
<1>5. Shape
  BY <1>1, <1>2, <1>4 DEF Shape
<1>6. Committing /\ Committed
  BY <1>1 DEF Committing, Committed
<1>7. Answering
  BY <1>4 DEF Answering
<1>8. Verifying
  BY <1>4 DEF Verifying
<1> QED
  BY <1>5, <1>6, <1>7, <1>8 DEF RoundsInvariant

-----------------------------------------------------------------------------
(* CROSS_sign.                                                             *)

LEMMA BeginPreserves ==
  ASSUME RoundsInvariant, RoundsBegin
  PROVE  RoundsInvariant'
<1> USE DEF RoundsInvariant, RoundsBegin, sharedVars, rdOk
<1>1. Shape'
  <2>1. round' \in Round
    BY RoundAssumption DEF Committing, Round
  <2> QED
    BY <2>1 DEF Shape
<1>2. Committing'
  <2>1. 0 .. round'-1 = {}
    BY DEF Committing
  <2>2. Holds(queue_0, cmt_0["signer"], OwnCmt0', {}) /\ Holds(queue_1, cmt_1["signer"], OwnCmt1', {})
    BY DEF Committing, Shape, Tables, Party, Holds
  <2> QED
    BY <2>1, <2>2 DEF Committing
<1>3. Committed' /\ Answering' /\ Verifying'
  BY DEF Committed, Answering, Verifying
<1> QED
  BY <1>1, <1>2, <1>3

LEMMA CommitPreserves ==
  ASSUME RoundsInvariant, CommitRound
  PROVE  RoundsInvariant'
<1> USE DEF RoundsInvariant
<1> DEFINE seed == Seed(round)
           in0  == Input0(Y(seed), V(seed), 0)
           in1  == Input1(seed)
           e0   == Enqueued(queue_0, round, in0)
           e1   == Enqueued(queue_1, round, in1)
           c0   == HashedIf(e0, cmt_0["signer"])
           c1   == HashedIf(e1, cmt_1["signer"])
           done == 0 .. round-1
<1>1. /\ rd_at = "commit"
      /\ cmt_0' = [cmt_0 EXCEPT !["signer"] = c0] /\ cmt_1' = [cmt_1 EXCEPT !["signer"] = c1]
      /\ queue_0' = Flushed(e0) /\ queue_1' = Flushed(e1)
      /\ round' = round + 1
      /\ rd_at' = IF round = T-1 THEN "committed" ELSE rd_at
      /\ UNCHANGED <<y, resp_0, resp_1, rsps, is_signature_ok, is_packed_padd_ok,
                     chall_2, round_seeds, intact>>
  BY DEF CommitRound, Seed, rdOk
<1>2. round \in Round /\ done \in SUBSET Round /\ Shaped(queue_0) /\ Shaped(queue_1)
  BY <1>1, RoundAssumption DEF Shape, Round
<1>3. OwnCmt0[round] = Hash(in0, HashDsc(round)) /\ OwnCmt1[round] = Hash(in1, HashDsc(round))
  BY <1>2 DEF OwnCmt0, OwnCmt1
<1>4. Holds(queue_0, cmt_0["signer"], OwnCmt0, done) /\ Holds(queue_1, cmt_1["signer"], OwnCmt1, done)
  BY <1>1 DEF Committing
<1>5. /\ Shaped(queue_0') /\ (round = T-1 => queue_0'.to_hash = 0)
      /\ Shaped(queue_1') /\ (round = T-1 => queue_1'.to_hash = 0)
  BY <1>1, <1>2, EnqueueShape
<1>6. /\ Holds(queue_0', c0, OwnCmt0, done \cup {round})
      /\ Holds(queue_1', c1, OwnCmt1, done \cup {round})
  BY <1>1, <1>2, <1>3, <1>4, EnqueueHolds
<1>7. cmt_0'["signer"] = c0 /\ cmt_1'["signer"] = c1 /\ Tables(cmt_0') /\ Tables(cmt_1')
  <2>1. Table(c0) /\ Table(c1)
    BY <1>6 DEF Holds
  <2> HIDE DEF c0, c1
  <2> QED
    BY <1>1, <2>1 DEF Shape, Tables, Party
<1>8. OwnCmt0' = OwnCmt0 /\ OwnCmt1' = OwnCmt1
  BY <1>1 DEF OwnCmt0, OwnCmt1, Seed
<1>9. done \cup {round} = 0 .. round'-1 /\ (round # T-1 => round' \in Round)
      /\ (round = T-1 => done \cup {round} = Round)
  BY <1>1, <1>2, RoundAssumption DEF Round
<1> HIDE DEF seed, in0, in1, e0, e1, c0, c1, done
<1>10. Shape'
  BY <1>1, <1>5, <1>7, <1>9 DEF Shape
<1>11. Committing'
  BY <1>1, <1>6, <1>7, <1>8, <1>9 DEF Committing
<1>12. Committed'
  <2>1. CASE round = T-1
    <3>1. Table(c0) /\ Table(c1) /\ \A r \in Round : c0[r] = OwnCmt0[r] /\ c1[r] = OwnCmt1[r]
      BY <1>5, <1>6, <1>9, <2>1 DEF Holds
    <3>2. c0 = OwnCmt0 /\ c1 = OwnCmt1
      BY <3>1 DEF Table, OwnCmt0, OwnCmt1
    <3> QED
      BY <1>1, <1>7, <1>8, <2>1, <3>2 DEF Committed
  <2>2. CASE round # T-1
    BY <1>1, <2>2 DEF Committed
  <2> QED
    BY <2>1, <2>2
<1>13. Answering' /\ Verifying'
  BY <1>1 DEF Answering, Verifying
<1> QED
  BY <1>10, <1>11, <1>12, <1>13

LEMMA Respond1Preserves ==
  ASSUME RoundsInvariant, Respond1
  PROVE  RoundsInvariant'
<1> USE DEF RoundsInvariant, Respond1, sharedVars, rdOk
<1>1. y'["signer"] = OwnY' /\ Tables(y')
  <2>1. y'["signer"] = OwnY'
    BY DEF Shape, Tables, Party, OwnY, Seed
  <2>2. Table(y'["signer"])
    BY <2>1 DEF Table, OwnY
  <2> QED
    BY <2>1, <2>2 DEF Shape, Tables, Party
<1>2. OwnCmt0' = OwnCmt0 /\ OwnCmt1' = OwnCmt1
  BY DEF OwnCmt0, OwnCmt1, Seed
<1>3. Shape'
  BY <1>1 DEF Shape
<1>4. Committing' /\ Committed'
  BY <1>1, <1>2 DEF Committing, Committed
<1>5. Answering' /\ Verifying'
  BY DEF Answering, Verifying
<1> QED
  BY <1>3, <1>4, <1>5

LEMMA ChallengePreserves ==
  ASSUME RoundsInvariant, RoundsChallenge, chall_2' \in Challenges,
         UNCHANGED <<cmt_0, round_seeds, intact>>
  PROVE  RoundsInvariant'
<1> USE DEF RoundsInvariant, RoundsChallenge, rdOk
<1>1. OwnCmt0' = OwnCmt0 /\ OwnCmt1' = OwnCmt1 /\ OwnY' = OwnY
  BY DEF OwnCmt0, OwnCmt1, OwnY, Seed
<1>2. Shape'
  <2>1. round' \in Round
    BY RoundAssumption DEF Round
  <2> QED
    BY <2>1 DEF Shape
<1>3. Committing' /\ Committed'
  BY <1>1 DEF Committing, Committed
<1>4. Answering'
  <2>1. 0 .. round'-1 = {} /\ Count(chall_2', round') = 0
    BY CountNone
  <2>2. AnswersTo(round)'
    BY <2>1 DEF AnswersTo
  <2> QED
    BY <2>1, <2>2 DEF Answering
<1>5. Verifying'
  BY DEF Verifying
<1> QED
  BY <1>2, <1>3, <1>4, <1>5

LEMMA RespondPreserves ==
  ASSUME RoundsInvariant, RespondRound
  PROVE  RoundsInvariant'
<1> USE DEF RoundsInvariant
<1> DEFINE k == rsps["signer"]
           answer == Answer(y["signer"][round], V(round_seeds["signer"][round]))
<1>1. /\ rd_at = "respond" /\ round' = round + 1
      /\ rd_at' = IF round = T-1 THEN "transit" ELSE rd_at
      /\ UNCHANGED <<queue_0, queue_1, cmt_1, y, is_signature_ok, is_packed_padd_ok,
                     chall_2, round_seeds, cmt_0, intact>>
  BY DEF RespondRound, rdOk, sharedVars
<1>2. IF chall_2[round] = 0
      THEN /\ resp_0' = [resp_0 EXCEPT ![k] = answer]
           /\ resp_1' = [resp_1 EXCEPT ![k] = cmt_1["signer"][round]]
           /\ rsps' = [rsps EXCEPT !["signer"] = k + 1]
      ELSE UNCHANGED <<resp_0, resp_1, rsps>>
  BY DEF RespondRound
<1>3. /\ round \in Round /\ round' \in 0 .. T /\ round \in 0 .. T
      /\ (round # T-1 => round' \in Round) /\ (round = T-1 => round' = T)
  BY <1>1, RoundAssumption DEF Shape, Round
<1>4. OwnCmt0' = OwnCmt0 /\ OwnCmt1' = OwnCmt1 /\ OwnY' = OwnY
      /\ \A r : Seed(r)' = Seed(r)
  BY <1>1 DEF OwnCmt0, OwnCmt1, OwnY, Seed
<1>5. answer = Answer(OwnY[round], V(Seed(round))) /\ cmt_1["signer"][round] = OwnCmt1[round]
  BY <1>1 DEF Committed, Seed
<1>6. chall_2 \in Challenges /\ k = Count(chall_2, round) /\ AnswersTo(round)
      /\ resp_0 = [i \in 0 .. T-W-1 |-> resp_0[i]] /\ resp_1 = [i \in 0 .. T-W-1 |-> resp_1[i]]
  BY <1>1 DEF Answering
<1>7. "signer" \in DOMAIN rsps
  BY DEF Shape, Party
<1> HIDE DEF k, answer
<1>8. rsps'["signer"] = Count(chall_2, round')
  BY <1>1, <1>2, <1>3, <1>6, <1>7, CountNext DEF k
<1>9. ASSUME NEW r \in 0 .. round'-1, chall_2[r] = 0
      PROVE  /\ resp_0'[Count(chall_2, r)] = Answer(OwnY[r], V(Seed(r)))
             /\ resp_1'[Count(chall_2, r)] = OwnCmt1[r]
  <2>1. r \in 0 .. round-1 \/ r = round
    BY <1>1, <1>3
  <2>2. CASE r = round
    <3>1. Count(chall_2, r) \in 0 .. T-W-1
      BY <1>3, <1>6, <1>9, <2>2, CountFits
    <3>2. resp_0'[k] = answer /\ resp_1'[k] = cmt_1["signer"][round]
      BY <1>2, <1>6, <1>9, <2>2, <3>1
    <3> QED
      BY <1>5, <1>6, <2>2, <3>2
  <2>3. CASE r \in 0 .. round-1
    <3>1. Count(chall_2, r) # Count(chall_2, round)
      BY <1>3, <1>9, <2>3, CountGrows
    <3>2. /\ resp_0[Count(chall_2, r)] = Answer(OwnY[r], V(Seed(r)))
          /\ resp_1[Count(chall_2, r)] = OwnCmt1[r]
      BY <1>6, <1>9, <2>3 DEF AnswersTo
    <3>3. r \in Round /\ Count(chall_2, r) \in 0 .. T-W-1
      BY <1>3, <1>6, <1>9, <2>3, RoundAssumption, CountFits DEF Round
    <3>4. /\ resp_0'[Count(chall_2, r)] = resp_0[Count(chall_2, r)]
          /\ resp_1'[Count(chall_2, r)] = resp_1[Count(chall_2, r)]
      BY <1>2, <1>6, <3>1, <3>3
    <3> QED
      BY <3>2, <3>4
  <2> QED
    BY <2>1, <2>2, <2>3
<1>10. rsps' = [p \in Party |-> rsps'[p]] /\ rsps'["verifier"] = rsps["verifier"]
  <2>1. rsps = [p \in Party |-> rsps[p]]
    BY DEF Shape
  <2>2. CASE chall_2[round] = 0
    <3>1. rsps' = [rsps EXCEPT !["signer"] = k + 1]
      BY <1>2, <2>2
    <3> QED
      BY <2>1, <3>1 DEF Party
  <2>3. CASE chall_2[round] # 0
    BY <1>2, <2>1, <2>3
  <2> QED
    BY <2>2, <2>3
<1>11. Shape'
  BY <1>1, <1>3, <1>10 DEF Shape
<1>12. Committing' /\ Committed'
  BY <1>1, <1>4 DEF Committing, Committed
<1>13. Answering'
  <2>1. /\ resp_0' = [i \in 0 .. T-W-1 |-> resp_0'[i]]
        /\ resp_1' = [i \in 0 .. T-W-1 |-> resp_1'[i]]
    BY <1>2, <1>6
  <2>2. AnswersTo(round)'
    BY <1>1, <1>4, <1>9 DEF AnswersTo, Seed
  <2>3. round = T-1 => AnswersTo(T)'
    BY <1>1, <1>3, <1>4, <1>9 DEF AnswersTo, Seed
  <2> QED
    BY <1>1, <1>6, <1>8, <2>1, <2>2, <2>3 DEF Answering
<1>14. Verifying'
  BY <1>1, <1>10 DEF Verifying
<1> QED
  BY <1>11, <1>12, <1>13, <1>14

-----------------------------------------------------------------------------
(* The signature on its way, and CROSS_verify.                             *)

LEMMA DamagePreserves ==
  ASSUME RoundsInvariant, ResponseDamaged
  PROVE  RoundsInvariant'
<1> USE DEF RoundsInvariant
<1>1. /\ rd_at = "transit" /\ intact' = FALSE
      /\ UNCHANGED <<rd_at, round, queue_0, queue_1, cmt_1, y, rsps, is_signature_ok,
                     is_packed_padd_ok, chall_2, round_seeds, cmt_0>>
  BY DEF ResponseDamaged, rdOk
<1>2. OwnCmt0' = OwnCmt0 /\ OwnCmt1' = OwnCmt1 /\ OwnY' = OwnY
  BY <1>1 DEF OwnCmt0, OwnCmt1, OwnY, Seed
<1>3. Shape' /\ Committing' /\ Committed'
  BY <1>1, <1>2 DEF Shape, Committing, Committed
<1>4. Answering' /\ Verifying'
  BY <1>1 DEF Answering, Verifying
<1> QED
  BY <1>3, <1>4

LEMMA VerifyBeginPreserves ==
  ASSUME RoundsInvariant, VerifyBegin
  PROVE  RoundsInvariant'
<1> USE DEF RoundsInvariant
<1>1. /\ rd_at = "transit" /\ rd_at' = "verify" /\ round' = 0
      /\ queue_0' = EmptyQueue /\ queue_1' = EmptyQueue
      /\ UNCHANGED <<cmt_1, y, resp_0, resp_1, rsps, is_signature_ok, is_packed_padd_ok,
                     chall_2, round_seeds, cmt_0, intact>>
  BY DEF VerifyBegin, sharedVars, rdOk
<1>2. OwnCmt0' = OwnCmt0 /\ OwnCmt1' = OwnCmt1 /\ OwnY' = OwnY
      /\ \A r : Seed(r)' = Seed(r)
  BY <1>1 DEF OwnCmt0, OwnCmt1, OwnY, Seed
<1>3. EmptyQueue.to_hash = 0 /\ Shaped(EmptyQueue)
  BY EmptyShape, QueueFields DEF EmptyQueue
<1>4. round' \in Round
  BY <1>1, RoundAssumption DEF Round
<1>5. Shape' /\ Committing' /\ Committed'
  BY <1>1, <1>2, <1>3, <1>4 DEF Shape, Committing, Committed
<1>6. AnswersTo(T)' <=> AnswersTo(T)
  BY <1>1, <1>2 DEF AnswersTo
<1>7. Answering'
  BY <1>1, <1>6 DEF Answering
<1>8. Verifying'
  <2>1. 0 .. round'-1 = {} /\ Count(chall_2', round') = 0 /\ AnsweredBefore(chall_2', round') = {}
    BY <1>1, CountNone
  <2>2. Table(cmt_0'["verifier"]) /\ Table(cmt_1'["verifier"])
    BY <1>1 DEF Shape, Tables, Party
  <2>3. /\ Holds(queue_0', cmt_0'["verifier"], SeenCmt0', {})
        /\ Holds(queue_1', cmt_1'["verifier"], SeenCmt1', {})
    BY <1>1, <1>3, <2>2 DEF Holds
  <2>4. is_packed_padd_ok' /\ rsps'["verifier"] = 0
    BY <1>1 DEF Verifying
  <2>5. PadsOk(round)'
    BY <2>1 DEF PadsOk
  <2>6. VerifiedTo(round)'
    BY <2>1, <2>3, <2>4, <2>5 DEF VerifiedTo
  <2> QED
    BY <1>1, <2>1, <2>4, <2>6 DEF Verifying
<1> QED
  BY <1>5, <1>7, <1>8

LEMMA HashedTable ==
  ASSUME NEW q, NEW cmt, Table(cmt)
  PROVE  Table(HashedIf(q, cmt))
BY DEF Table, HashedIf, HashPar

\* What both kinds of rounds do with the queues and with y.
VerifierHashed(q0, q1, c1, yy) ==
  /\ Shape' /\ Committing' /\ Committed' /\ Answering'
  /\ round' = round + 1
  /\ rd_at' = IF round = T-1 THEN "verified" ELSE rd_at
  /\ rd_at' = "verified" => round' = T
  /\ queue_0' = Flushed(q0) /\ queue_1' = Flushed(q1)
  /\ round = T-1 => queue_0'.to_hash = 0 /\ queue_1'.to_hash = 0
  /\ cmt_0'["verifier"] = HashedIf(q0, cmt_0["verifier"])
  /\ cmt_1'["verifier"] = HashedIf(q1, c1)
  /\ y'["verifier"] = [y["verifier"] EXCEPT ![round] = yy]
  /\ SeenCmt0' = SeenCmt0 /\ SeenCmt1' = SeenCmt1 /\ SeenY' = SeenY
  /\ UNCHANGED <<resp_0, resp_1, chall_2>>

Emptied(q) == Shaped(Flushed(q)) /\ (round = T-1 => Flushed(q).to_hash = 0)

LEMMA VerifierHashesShape ==
  ASSUME RoundsInvariant, rd_at = "verify", NEW q0, NEW q1, NEW c1, NEW yy,
         Table(c1), VerifierHashes(q0, q1, c1),
         y' = [y EXCEPT !["verifier"][round] = yy],
         Emptied(q0), Emptied(q1),
         rsps' = [p \in Party |-> rsps'[p]], rsps'["signer"] = rsps["signer"]
  PROVE  VerifierHashed(q0, q1, c1, yy)
<1> USE DEF RoundsInvariant, Emptied
<1> DEFINE h0 == HashedIf(q0, cmt_0["verifier"])
           h1 == HashedIf(q1, c1)
           yv == [y["verifier"] EXCEPT ![round] = yy]
<1>1. /\ cmt_0' = [cmt_0 EXCEPT !["verifier"] = h0]
      /\ cmt_1' = [cmt_1 EXCEPT !["verifier"] = h1]
      /\ queue_0' = Flushed(q0) /\ queue_1' = Flushed(q1)
      /\ round' = round + 1
      /\ rd_at' = IF round = T-1 THEN "verified" ELSE rd_at
      /\ UNCHANGED <<resp_0, resp_1, chall_2, round_seeds, intact>>
  BY DEF VerifierHashes
<1>2. /\ round \in Round /\ (round # T-1 => round' \in Round)
      /\ (round = T-1 => round' = T)
  BY <1>1, RoundAssumption DEF Shape, Round
<1>3. y' = [y EXCEPT !["verifier"] = yv]
  OBVIOUS
<1>4. Table(h0) /\ Table(h1) /\ Table(yv)
  <2>1. Table(cmt_0["verifier"]) /\ Table(y["verifier"])
    BY DEF Shape, Tables, Party
  <2>2. Table(yv)
    BY <2>1 DEF Table
  <2> QED
    BY <2>1, <2>2, HashedTable
<1> HIDE DEF h0, h1, yv
<1>5. /\ Tables(cmt_0') /\ cmt_0'["verifier"] = h0 /\ cmt_0'["signer"] = cmt_0["signer"]
      /\ Tables(cmt_1') /\ cmt_1'["verifier"] = h1 /\ cmt_1'["signer"] = cmt_1["signer"]
      /\ Tables(y') /\ y'["verifier"] = yv /\ y'["signer"] = y["signer"]
  BY <1>1, <1>3, <1>4 DEF Shape, Tables, Party
<1>6. OwnCmt0' = OwnCmt0 /\ OwnCmt1' = OwnCmt1 /\ OwnY' = OwnY
  BY <1>1 DEF OwnCmt0, OwnCmt1, OwnY, Seed
<1>7. Shape'
  BY <1>1, <1>2, <1>5 DEF Shape
<1>8. Committing' /\ Committed'
  BY <1>1, <1>5, <1>6 DEF Committing, Committed
<1>9. AnswersTo(T)' <=> AnswersTo(T)
  BY <1>1, <1>6 DEF AnswersTo, Seed
<1>10. Answering'
  BY <1>1, <1>9 DEF Answering
<1>11. SeenCmt0' = SeenCmt0 /\ SeenCmt1' = SeenCmt1 /\ SeenY' = SeenY
  BY <1>1 DEF SeenCmt0, SeenCmt1, SeenY, Got
<1> QED
  BY <1>1, <1>2, <1>5, <1>7, <1>8, <1>10, <1>11 DEF h0, h1, yv, VerifierHashed

LEMMA VerifyPublishedPreserves ==
  ASSUME RoundsInvariant, VerifyPublished
  PROVE  RoundsInvariant'
<1> DEFINE seed == round_seeds["verifier"][round]
           in   == Input1(seed)
           e1   == Enqueued(queue_1, round, in)
           c1   == cmt_1["verifier"]
<1>1. /\ rd_at = "verify" /\ chall_2[round] = 1
      /\ y' = [y EXCEPT !["verifier"][round] = Y(seed)]
      /\ VerifierHashes(queue_0, e1, c1)
      /\ UNCHANGED <<rsps, is_packed_padd_ok>>
  BY DEF VerifyPublished, rdOk
<1>2. round \in Round /\ Shaped(queue_0) /\ Shaped(queue_1) /\ Table(c1)
  BY <1>1 DEF RoundsInvariant, Shape, Tables, Party
<1>3. Emptied(queue_0) /\ Emptied(e1)
  BY <1>2, IdleShape, EnqueueShape DEF Emptied
<1>4. rsps' = [p \in Party |-> rsps'[p]] /\ rsps'["signer"] = rsps["signer"]
  BY <1>1 DEF RoundsInvariant, Shape
<1> HIDE DEF seed, in, e1, c1
<1>5. /\ Shape' /\ Committing' /\ Committed' /\ Answering'
      /\ round' = round + 1
      /\ rd_at' = IF round = T-1 THEN "verified" ELSE rd_at
      /\ rd_at' = "verified" => round' = T
      /\ queue_0' = Flushed(queue_0) /\ queue_1' = Flushed(e1)
      /\ round = T-1 => queue_0'.to_hash = 0 /\ queue_1'.to_hash = 0
      /\ cmt_0'["verifier"] = HashedIf(queue_0, cmt_0["verifier"])
      /\ cmt_1'["verifier"] = HashedIf(e1, c1)
      /\ y'["verifier"] = [y["verifier"] EXCEPT ![round] = Y(seed)]
      /\ SeenCmt0' = SeenCmt0 /\ SeenCmt1' = SeenCmt1 /\ SeenY' = SeenY
      /\ UNCHANGED <<resp_0, resp_1, chall_2>>
  <2>1. VerifierHashed(queue_0, e1, c1, Y(seed))
    BY <1>1, <1>2, <1>3, <1>4, VerifierHashesShape
  <2> QED
    BY <2>1 DEF VerifierHashed
<1> USE DEF RoundsInvariant
<1>6. /\ Count(chall_2, round') = Count(chall_2, round)
      /\ AnsweredBefore(chall_2, round') = AnsweredBefore(chall_2, round)
  <2>1. round' = round + 1 /\ chall_2[round] # 0
    BY <1>1, <1>5
  <2>2. Count(chall_2, round+1) = Count(chall_2, round)
    BY <1>2, <2>1, CountNext
  <2>3. AnsweredBefore(chall_2, round+1) = AnsweredBefore(chall_2, round)
    BY <1>2, <2>1, BeforeNext
  <2> QED
    BY <2>1, <2>2, <2>3
<1>7. VerifiedTo(round)
  BY <1>1 DEF Verifying
<1>9. SeenY[round] = Y(seed) /\ SeenCmt1[round] = Hash(in, HashDsc(round))
  BY <1>1, <1>2 DEF SeenY, SeenCmt1, seed, in
<1>10. (0 .. round-1) \cup {round} = 0 .. round'-1 /\ (0 .. round-1) \in SUBSET Round
  BY <1>2, <1>5, RoundAssumption DEF Round
<1>11. is_packed_padd_ok' = is_packed_padd_ok /\ (PadsOk(round)' <=> PadsOk(round))
  BY <1>1, <1>5, <1>6 DEF PadsOk, Got
<1>12. ASSUME is_packed_padd_ok
      PROVE  /\ Holds(queue_0', cmt_0'["verifier"], SeenCmt0, AnsweredBefore(chall_2, round))
             /\ \A r \in 0 .. round'-1 : y'["verifier"][r] = SeenY[r]
  <2>1. AnsweredBefore(chall_2, round) \in SUBSET Round
    BY <1>2, RoundAssumption DEF AnsweredBefore, Round
  <2>2. Holds(queue_0', cmt_0'["verifier"], SeenCmt0, AnsweredBefore(chall_2, round))
    BY <1>2, <1>5, <1>7, <1>12, <2>1, IdleHolds DEF VerifiedTo
  <2>3. Table(y["verifier"])
    BY DEF Shape, Tables, Party
  <2>4. y'["verifier"][round] = Y(seed)
    BY <1>2, <1>5, <2>3 DEF Table
  <2>5. ASSUME NEW r \in 0 .. round-1
        PROVE  y'["verifier"][r] = SeenY[r]
    <3>1. r \in Round /\ r # round
      BY <1>2, RoundAssumption DEF Round
    <3> QED
      BY <1>5, <1>7, <1>12, <2>3, <3>1 DEF VerifiedTo, Table
  <2> QED
    BY <1>9, <1>10, <2>2, <2>4, <2>5
<1>13. Holds(queue_1', cmt_1'["verifier"], SeenCmt1, (0 .. round-1) \cup {round})
  <2>1. Holds(queue_1, c1, SeenCmt1, 0 .. round-1)
    BY <1>7 DEF VerifiedTo, c1
  <2>2. Holds(Flushed(e1), HashedIf(e1, c1), SeenCmt1, (0 .. round-1) \cup {round})
    BY <1>2, <1>9, <1>10, <2>1, EnqueueHolds DEF e1
  <2> QED
    BY <1>5, <2>2
<1>14. VerifiedTo(round)'
  BY <1>5, <1>6, <1>7, <1>10, <1>11, <1>12, <1>13 DEF VerifiedTo
<1>15. Verifying'
  <2>1. rsps'["verifier"] = Count(chall_2', round')
    BY <1>1, <1>5, <1>6 DEF Verifying
  <2>2. rd_at' = "verified" => VerifiedTo(T)'
    BY <1>5, <1>14 DEF VerifiedTo, PadsOk
  <2> QED
    BY <1>1, <1>5, <1>14, <2>1, <2>2 DEF Verifying
<1> QED
  BY <1>5, <1>15

LEMMA AnswerFields ==
  ASSUME NEW yy, NEW v
  PROVE  /\ Answer(yy, v).y = yy /\ Answer(yy, v).y_pad = 0
         /\ Answer(yy, v).v = v /\ Answer(yy, v).v_pad = 0
BY DEF Answer

LEMMA VerifyAnsweredPreserves ==
  ASSUME RoundsInvariant, VerifyAnswered
  PROVE  RoundsInvariant'
<1> DEFINE k   == rsps["verifier"]
           yOk == is_packed_padd_ok /\ resp_0[k].y_pad = 0
           vOk == yOk /\ resp_0[k].v_pad = 0
           yy  == IF is_packed_padd_ok THEN resp_0[k].y ELSE y["verifier"][round]
           v   == IF yOk THEN resp_0[k].v ELSE Garbage
           in  == <<Syndrome(yy, v), resp_0[k].v, resp_0[k].v_pad>>
           e0  == Enqueued(queue_0, round, in)
           c1  == [cmt_1["verifier"] EXCEPT ![round] = resp_1[k]]
<1>1. /\ rd_at = "verify" /\ chall_2[round] = 0
      /\ is_packed_padd_ok' = vOk
      /\ y' = [y EXCEPT !["verifier"][round] = yy]
      /\ VerifierHashes(e0, queue_1, c1)
      /\ rsps' = [rsps EXCEPT !["verifier"] = k + 1]
  BY DEF VerifyAnswered
<1>2. /\ round \in Round /\ Shaped(queue_0) /\ Shaped(queue_1) /\ Table(cmt_1["verifier"])
      /\ Table(y["verifier"]) /\ rsps = [p \in Party |-> rsps[p]]
  BY <1>1 DEF RoundsInvariant, Shape, Tables, Party
<1>3. Table(c1)
  BY <1>2 DEF Table
<1>4. Emptied(e0) /\ Emptied(queue_1)
  BY <1>2, IdleShape, EnqueueShape DEF Emptied
<1>5. rsps' = [p \in Party |-> rsps'[p]] /\ rsps'["signer"] = rsps["signer"]
      /\ rsps'["verifier"] = k + 1
  BY <1>1, <1>2 DEF Party
<1> HIDE DEF k, yOk, vOk, yy, v, in, e0, c1
<1>6. /\ Shape' /\ Committing' /\ Committed' /\ Answering'
      /\ round' = round + 1
      /\ rd_at' = IF round = T-1 THEN "verified" ELSE rd_at
      /\ rd_at' = "verified" => round' = T
      /\ queue_0' = Flushed(e0) /\ queue_1' = Flushed(queue_1)
      /\ round = T-1 => queue_0'.to_hash = 0 /\ queue_1'.to_hash = 0
      /\ cmt_0'["verifier"] = HashedIf(e0, cmt_0["verifier"])
      /\ cmt_1'["verifier"] = HashedIf(queue_1, c1)
      /\ y'["verifier"] = [y["verifier"] EXCEPT ![round] = yy]
      /\ SeenCmt0' = SeenCmt0 /\ SeenCmt1' = SeenCmt1 /\ SeenY' = SeenY
      /\ UNCHANGED <<resp_0, resp_1, chall_2>>
  <2>1. VerifierHashed(e0, queue_1, c1, yy)
    BY <1>1, <1>2, <1>3, <1>4, <1>5, VerifierHashesShape
  <2> QED
    BY <2>1 DEF VerifierHashed
<1> USE DEF RoundsInvariant
<1>7. /\ Count(chall_2, round') = Count(chall_2, round) + 1
      /\ AnsweredBefore(chall_2, round') = AnsweredBefore(chall_2, round) \cup {round}
  <2>1. Count(chall_2, round+1) = Count(chall_2, round) + 1
    BY <1>1, <1>2, CountNext
  <2>2. AnsweredBefore(chall_2, round+1) = AnsweredBefore(chall_2, round) \cup {round}
    BY <1>1, <1>2, BeforeNext
  <2> QED
    BY <1>6, <2>1, <2>2
<1>8. k = Count(chall_2, round)
  BY <1>1 DEF Verifying, k
<1>9. resp_0[k] = Got(round) /\ resp_1[k] = SeenCmt1[round]
  BY <1>1, <1>2, <1>8 DEF Got, SeenCmt1
<1>10. VerifiedTo(round)
  BY <1>1 DEF Verifying
<1>11. (0 .. round-1) \cup {round} = 0 .. round'-1 /\ (0 .. round-1) \in SUBSET Round
  BY <1>2, <1>6, RoundAssumption DEF Round
<1>12. PadsOk(round)' <=> PadsOk(round) /\ Got(round).y_pad = 0 /\ Got(round).v_pad = 0
  <2>1. \A r : Got(r)' = Got(r)
    BY <1>6 DEF Got
  <2> QED
    BY <1>6, <1>7, <2>1 DEF PadsOk
<1>13. is_packed_padd_ok' <=>
         is_packed_padd_ok /\ Got(round).y_pad = 0 /\ Got(round).v_pad = 0
  BY <1>1, <1>9, Zenon DEF vOk, yOk
<1>14. ASSUME is_packed_padd_ok'
       PROVE  /\ Holds(queue_0', cmt_0'["verifier"], SeenCmt0,
                       AnsweredBefore(chall_2, round) \cup {round})
              /\ \A r \in 0 .. round'-1 : y'["verifier"][r] = SeenY[r]
  <2>1. is_packed_padd_ok /\ yOk
    BY <1>9, <1>13, <1>14, Zenon DEF yOk
  <2>2. yy = Got(round).y /\ v = Got(round).v
    BY <1>9, <2>1, Zenon DEF yy, v
  <2>3. Hash(in, HashDsc(round)) = SeenCmt0[round] /\ SeenY[round] = yy
    BY <1>1, <1>2, <1>9, <2>2 DEF in, SeenCmt0, SeenY
  <2>4. AnsweredBefore(chall_2, round) \in SUBSET Round
    BY <1>2, RoundAssumption DEF AnsweredBefore, Round
  <2>5. Holds(queue_0, cmt_0["verifier"], SeenCmt0, AnsweredBefore(chall_2, round))
    BY <1>10, <2>1 DEF VerifiedTo
  <2>6. Holds(Flushed(e0), HashedIf(e0, cmt_0["verifier"]), SeenCmt0,
              AnsweredBefore(chall_2, round) \cup {round})
    BY <1>2, <2>3, <2>4, <2>5, EnqueueHolds DEF e0
  <2>7. y'["verifier"][round] = SeenY[round]
    BY <1>2, <1>6, <2>3 DEF Table
  <2>8. ASSUME NEW r \in 0 .. round-1
        PROVE  y'["verifier"][r] = SeenY[r]
    <3>1. r \in Round /\ r # round
      BY <1>2, RoundAssumption DEF Round
    <3> QED
      BY <1>2, <1>6, <1>10, <2>1, <3>1 DEF VerifiedTo, Table
  <2> QED
    BY <1>6, <1>11, <2>6, <2>7, <2>8
<1>15. Holds(queue_1', cmt_1'["verifier"], SeenCmt1, (0 .. round-1) \cup {round})
  <2>1. (0 .. round-1) \cup {round} \in SUBSET Round
    BY <1>2, <1>11
  <2>2. Holds(queue_1, cmt_1["verifier"], SeenCmt1, 0 .. round-1)
    BY <1>10 DEF VerifiedTo
  <2>3. c1 = [cmt_1["verifier"] EXCEPT ![round] = SeenCmt1[round]]
    BY <1>9 DEF c1
  <2>4. Holds(queue_1, c1, SeenCmt1, (0 .. round-1) \cup {round})
    BY <1>2, <1>11, <2>2, <2>3, PutHolds
  <2>5. Holds(Flushed(queue_1), HashedIf(queue_1, c1), SeenCmt1, (0 .. round-1) \cup {round})
    BY <1>2, <2>1, <2>4, IdleHolds
  <2> QED
    BY <1>6, <2>5
<1>16. VerifiedTo(round)'
  <2>1. PadsOk(round)' => is_packed_padd_ok'
    BY <1>10, <1>12, <1>13 DEF VerifiedTo
  <2>2. is_packed_padd_ok' => PadsOk(round)'
    BY <1>10, <1>12, <1>13 DEF VerifiedTo
  <2> QED
    BY <1>6, <1>7, <1>11, <1>14, <1>15, <2>1, <2>2 DEF VerifiedTo
<1>17. Verifying'
  <2>1. rsps'["verifier"] = Count(chall_2', round')
    BY <1>5, <1>6, <1>7, <1>8
  <2>2. rd_at' = "verified" => VerifiedTo(T)'
    BY <1>6, <1>16 DEF VerifiedTo, PadsOk
  <2> QED
    BY <1>1, <1>6, <1>16, <2>1, <2>2 DEF Verifying
<1> QED
  BY <1>6, <1>17

-----------------------------------------------------------------------------
(* Steps of the rest of CROSS, and steps that change nothing here.         *)

LEMMA OutsidePreserves ==
  ASSUME RoundsInvariant, OutsideRounds
  PROVE  RoundsInvariant'
<1> USE DEF RoundsInvariant
<1>1. /\ UNCHANGED <<rd_at, round, queue_0, queue_1, cmt_1, y, resp_0, resp_1, rsps,
                     is_signature_ok, is_packed_padd_ok, chall_2, cmt_0>>
      /\ \/ UNCHANGED round_seeds
         \/ rd_at = "seeds"
         \/ rd_at = "transit" /\ round_seeds'["signer"] = round_seeds["signer"]
      /\ intact' => intact
  <2>1. intact' = intact \/ intact' = FALSE
    BY DEF OutsideRounds
  <2>2. intact' => intact
    BY <2>1, Zenon
  <2> QED
    BY <2>2 DEF OutsideRounds, rdVars, rdOk
<1>2. Shape'
  BY <1>1 DEF Shape
<1>3. CASE rd_at = "seeds"
  BY <1>1, <1>2, <1>3 DEF Committing, Committed, Answering, Verifying
<1>4. CASE rd_at # "seeds"
  <2>1. round_seeds'["signer"] = round_seeds["signer"]
    BY <1>1, <1>4
  <2>2. OwnCmt0' = OwnCmt0 /\ OwnCmt1' = OwnCmt1 /\ OwnY' = OwnY
    BY <2>1 DEF OwnCmt0, OwnCmt1, OwnY, Seed
  <2>3. Committing' /\ Committed'
    BY <1>1, <2>2 DEF Committing, Committed
  <2>4. (AnswersTo(T)' <=> AnswersTo(T)) /\ (AnswersTo(round)' <=> AnswersTo(round))
    BY <1>1, <2>1, <2>2 DEF AnswersTo, Seed
  <2>5. Answering'
    BY <1>1, <2>4 DEF Answering
  <2>6. ASSUME rd_at \in {"verify", "verified"}
        PROVE  (VerifiedTo(T)' <=> VerifiedTo(T)) /\ (VerifiedTo(round)' <=> VerifiedTo(round))
    <3>1. UNCHANGED round_seeds
      BY <1>1, <2>6
    <3>2. SeenCmt0' = SeenCmt0 /\ SeenCmt1' = SeenCmt1 /\ SeenY' = SeenY
      BY <1>1, <3>1 DEF SeenCmt0, SeenCmt1, SeenY, Got
    <3>3. (PadsOk(T)' <=> PadsOk(T)) /\ (PadsOk(round)' <=> PadsOk(round))
      BY <1>1 DEF PadsOk, Got
    <3> QED
      BY <1>1, <3>2, <3>3 DEF VerifiedTo
  <2>7. Verifying'
    BY <1>1, <2>6 DEF Verifying
  <2> QED
    BY <1>2, <2>3, <2>5, <2>7
<1> QED
  BY <1>3, <1>4

LEMMA RoundsStutter ==
  ASSUME RoundsInvariant, UNCHANGED <<rdVars, sharedVars>>
  PROVE  RoundsInvariant'
<1>1. OutsideRounds
  BY DEF OutsideRounds, sharedVars
<1> QED
  BY <1>1, OutsidePreserves

-----------------------------------------------------------------------------
(* The types of the loops' variables.                                      *)

Separators(q) == q.dsc \in [Slots2 -> DomainSeparator]

Typed ==
  /\ round \in 0 .. T
  /\ Separators(queue_0) /\ Separators(queue_1)
  /\ rsps \in [Party -> 0 .. T-W]
  /\ is_signature_ok \in BOOLEAN /\ is_packed_padd_ok \in BOOLEAN

LEMMA HalfWord ==
  ASSUME NEW n \in Nat
  PROVE  n % 65536 \in DomainSeparator
<1> DEFINE top == 65535
<1>1. DomainSeparator = 0 .. top
  BY DEF DomainSeparator
<1>2. top \in Nat /\ n % 65536 \in Nat /\ n % 65536 <= top
  BY SMT
<1> HIDE DEF top
<1> QED
  BY <1>1, <1>2

LEMMA NoSeparator == Separators(EmptyQueue)
<1>1. 0 \in DomainSeparator
  BY DEF DomainSeparator
<1> QED
  BY <1>1, QueueFields DEF EmptyQueue, Separators

LEMMA SeparatorsKept ==
  ASSUME NEW q, Shaped(q), Separators(q)
  PROVE  /\ Separators(Flushed(q))
         /\ \A r \in Round : \A input : Separators(Flushed(Enqueued(q, r, input)))
<1>1. Separators(Flushed(q))
  BY FlushedFields DEF Separators
<1>2. ASSUME NEW r \in Round, NEW input
      PROVE  Separators(Flushed(Enqueued(q, r, input)))
  <2> DEFINE e == Enqueued(q, r, input)
  <2>1. HashDsc(r) \in DomainSeparator
    <3>1. \A n \in Nat : n % 65536 \in DomainSeparator
      BY HalfWord
    <3>2. 32768 + r + (2*T-1) \in Nat
      BY RoundAssumption DEF Round
    <3> QED
      BY <3>1, <3>2 DEF HashDsc
  <2>2. e.dsc = [q.dsc EXCEPT ![q.to_hash] = HashDsc(r)]
    BY QueueFields DEF Enqueued
  <2>3. Flushed(e).dsc = e.dsc
    BY FlushedFields
  <2> HIDE DEF e
  <2>4. q.dsc \in [Slots2 -> DomainSeparator]
    BY DEF Separators
  <2>5. e.dsc \in [Slots2 -> DomainSeparator]
    BY <2>1, <2>2, <2>4
  <2> QED
    BY <2>3, <2>5 DEF Separators, e
<1> QED
  BY <1>1, <1>2

\* The next response of either side still has a slot.
LEMMA NextResponse ==
  ASSUME RoundsInvariant, Typed, NEW p \in Party, chall_2[round] = 0,
         \/ p = "signer" /\ rd_at = "respond"
         \/ p = "verifier" /\ rd_at = "verify"
  PROVE  [rsps EXCEPT ![p] = rsps[p] + 1] \in [Party -> 0 .. T-W]
<1>1. /\ chall_2 \in Challenges /\ round \in Round
      /\ rsps[p] = Count(chall_2, round)
  BY DEF RoundsInvariant, Shape, Answering, Verifying
<1>2. rsps[p] \in 0 .. T-W-1
  BY <1>1, CountFits
<1>3. rsps[p] + 1 \in 0 .. T-W
  BY <1>2, RoundAssumption
<1> QED
  BY <1>3 DEF Typed

LEMMA TypedStep ==
  ASSUME RoundsInvariant, Typed, [RoundsNext]_<<rdVars, sharedVars>>
  PROVE  Typed'
<1> USE DEF rdOk
<1>1. /\ Shaped(queue_0) /\ Shaped(queue_1) /\ T \in Nat
      /\ rd_at \in {"commit", "respond", "verify"} => round \in Round /\ round + 1 \in 0 .. T
  BY RoundAssumption DEF RoundsInvariant, Shape, Round
<1>2. /\ \A in \in {queue_0, queue_1} : Separators(Flushed(in))
      /\ \A r \in Round : \A in : Separators(Flushed(Enqueued(queue_0, r, in)))
      /\ \A r \in Round : \A in : Separators(Flushed(Enqueued(queue_1, r, in)))
  BY <1>1, SeparatorsKept DEF Typed
<1>3. CASE RoundsBegin \/ Respond1
  BY <1>3 DEF RoundsBegin, Respond1, Typed
<1>4. CASE CommitRound
  BY <1>1, <1>2, <1>4 DEF CommitRound, Typed
<1>5. CASE RoundsChallenge
  BY <1>1, <1>5 DEF RoundsChallenge, Typed
<1>6. CASE RespondRound
  <2>1. UNCHANGED <<queue_0, queue_1, is_signature_ok, is_packed_padd_ok>>
        /\ round' = round + 1 /\ rd_at = "respond" /\ "signer" \in Party
    BY <1>6 DEF RespondRound, Party
  <2>2. CASE chall_2[round] = 0
    <3>1. rsps' = [rsps EXCEPT !["signer"] = rsps["signer"] + 1]
      BY <1>6, <2>2 DEF RespondRound
    <3>2. rsps' \in [Party -> 0 .. T-W]
      BY <2>1, <2>2, <3>1, NextResponse
    <3> QED
      BY <1>1, <2>1, <3>2 DEF Typed
  <2>3. CASE chall_2[round] # 0
    <3>1. rsps' = rsps
      BY <1>6, <2>3 DEF RespondRound
    <3> QED
      BY <1>1, <2>1, <3>1 DEF Typed
  <2> QED
    BY <2>2, <2>3
<1>7. CASE ResponseDamaged
  BY <1>7 DEF ResponseDamaged, Typed
<1>8. CASE VerifyBegin
  <2>1. Separators(EmptyQueue)
    BY NoSeparator
  <2>2. 0 \in 0 .. T
    BY <1>1
  <2> QED
    BY <1>8, <2>1, <2>2 DEF VerifyBegin, Typed
<1>9. CASE VerifyPublished
  <2>1. rd_at = "verify" /\ UNCHANGED <<rsps, is_signature_ok, is_packed_padd_ok>>
    BY <1>9 DEF VerifyPublished
  <2>2. \E in : /\ queue_0' = Flushed(queue_0)
                /\ queue_1' = Flushed(Enqueued(queue_1, round, in))
                /\ round' = round + 1
    BY <1>9 DEF VerifyPublished, VerifierHashes
  <2> QED
    BY <1>1, <1>2, <2>1, <2>2 DEF Typed
<1>10. CASE VerifyAnswered
  <2>1. /\ rd_at = "verify" /\ chall_2[round] = 0 /\ "verifier" \in Party
        /\ rsps' = [rsps EXCEPT !["verifier"] = rsps["verifier"] + 1]
    BY <1>10 DEF VerifyAnswered, Party
  <2>2. rsps' \in [Party -> 0 .. T-W]
    BY <2>1, NextResponse
  <2>3. \E in : /\ queue_0' = Flushed(Enqueued(queue_0, round, in))
                /\ queue_1' = Flushed(queue_1)
                /\ round' = round + 1
    BY <1>10 DEF VerifyAnswered, VerifierHashes
  <2>4. \E b : is_signature_ok' = (is_signature_ok /\ b)
    BY <1>10 DEF VerifyAnswered
  <2>5. is_signature_ok' \in BOOLEAN
    BY <2>4
  <2>6. \E k : is_packed_padd_ok' =
                 ((is_packed_padd_ok /\ resp_0[k].y_pad = 0) /\ resp_0[k].v_pad = 0)
    BY <1>10, Zenon DEF VerifyAnswered
  <2>7. is_packed_padd_ok' \in BOOLEAN
    BY <2>6
  <2> QED
    BY <1>1, <1>2, <2>1, <2>2, <2>3, <2>5, <2>7 DEF Typed
<1>11. CASE OutsideRounds \/ UNCHANGED <<rdVars, sharedVars>>
  <2>1. UNCHANGED <<round, queue_0, queue_1, rsps, is_signature_ok, is_packed_padd_ok>>
    <3>1. CASE OutsideRounds
      <4>1. UNCHANGED <<rdVars, chall_2, cmt_0>>
        BY <3>1 DEF OutsideRounds
      <4> QED
        BY <4>1 DEF rdVars
    <3>2. CASE UNCHANGED <<rdVars, sharedVars>>
      BY <3>2 DEF rdVars
    <3> QED
      BY <1>11, <3>1, <3>2
  <2> QED
    BY <2>1 DEF Typed
<1> QED
  BY <1>3, <1>4, <1>5, <1>6, <1>7, <1>8, <1>9, <1>10, <1>11
     DEF RoundsNext, SignerRounds, VerifyRounds

-----------------------------------------------------------------------------
(* The theorems.                                                           *)

\* The invariant holds in every state of the loops: hashing two rounds at a
\* time neither loses nor mixes up an input of hash_par.
THEOREM RoundsInvariantHolds == RoundsSpec => []RoundsInvariant
<1>1. RoundsInit => RoundsInvariant
  BY RoundsInitially
<1>2. RoundsInvariant /\ [RoundsNext]_<<rdVars, sharedVars>> => RoundsInvariant'
  BY BeginPreserves, CommitPreserves, Respond1Preserves, ChallengePreserves,
     RespondPreserves, DamagePreserves, VerifyBeginPreserves,
     VerifyPublishedPreserves, VerifyAnsweredPreserves, OutsidePreserves,
     RoundsStutter DEF RoundsNext, SignerRounds, VerifyRounds
<1> QED
  BY <1>1, <1>2, PTL DEF RoundsSpec

\* CROSS_sign: whatever T is, odd or even, each commitment is the hash of the
\* input of its own round under its own separator.
THEOREM OwnCommitmentsHold == RoundsSpec => []OwnCommitments
<1>1. RoundsInvariant => OwnCommitments
  BY DEF RoundsInvariant, Committed, OwnCommitments, OwnCmt0, OwnCmt1, Seed
<1> QED
  BY <1>1, RoundsInvariantHolds, PTL

\* From an undamaged signature, and the signer's seeds of the published rounds,
\* the verifier is to have what the signer had.
LEMMA SeenIsOwn ==
  ASSUME RoundsInvariant, rd_at \in {"verify", "verified"}, intact
  PROVE  /\ PadsOk(T)
         /\ \A r \in Round : chall_2[r] = 0 => SeenCmt0[r] = OwnCmt0[r]
         /\ SeedsAgree => SeenY = OwnY /\ SeenCmt1 = OwnCmt1
<1>1. AnswersTo(T) /\ \A r \in Round : chall_2[r] \in 0..1
  BY DEF RoundsInvariant, Answering, Challenges
<1>2. ASSUME NEW r \in Round, chall_2[r] = 0
      PROVE  /\ Got(r).y = OwnY[r] /\ Got(r).y_pad = 0
             /\ Got(r).v = V(Seed(r)) /\ Got(r).v_pad = 0
             /\ resp_1[Count(chall_2, r)] = OwnCmt1[r]
  <2>1. r \in 0 .. T-1
    BY DEF Round
  <2>2. /\ Got(r) = Answer(OwnY[r], V(Seed(r)))
        /\ resp_1[Count(chall_2, r)] = OwnCmt1[r]
    BY <1>1, <1>2, <2>1 DEF AnswersTo, Got
  <2> QED
    BY <2>2, AnswerFields
<1>3. PadsOk(T)
  BY <1>2 DEF PadsOk, AnsweredBefore, Round
<1>4. ASSUME NEW r \in Round, chall_2[r] = 0
      PROVE  SeenCmt0[r] = OwnCmt0[r]
  <2>1. OwnY[r] = Y(Seed(r))
    BY DEF OwnY
  <2> QED
    BY <1>2, <1>4, <2>1 DEF SeenCmt0, OwnCmt0, Input0
<1>5. ASSUME SeedsAgree
      PROVE  SeenY = OwnY /\ SeenCmt1 = OwnCmt1
  <2>1. ASSUME NEW r \in Round
        PROVE  SeenY[r] = OwnY[r] /\ SeenCmt1[r] = OwnCmt1[r]
    <3>1. CASE chall_2[r] = 1
      BY <1>5, <3>1 DEF SeedsAgree, SeenY, SeenCmt1, OwnY, OwnCmt1, Seed
    <3>2. CASE chall_2[r] = 0
      BY <1>2, <3>2 DEF SeenY, SeenCmt1
    <3> QED
      BY <1>1, <3>1, <3>2
  <2> QED
    BY <2>1 DEF SeenY, SeenCmt1, OwnY, OwnCmt1
<1> QED
  BY <1>3, <1>4, <1>5

\* CROSS_verify: from an undamaged signature, and the signer's seeds of the
\* published rounds, the two queues yield the signer's commitments and
\* responses, however the challenge spreads the rounds over the queues.
THEOREM VerifierAgreesHolds == RoundsSpec => []VerifierAgrees
<1>1. RoundsInvariant => VerifierAgrees
  <2> SUFFICES ASSUME RoundsInvariant, rd_at = "verified", intact, SeedsAgree
               PROVE  /\ \A r \in Round : chall_2[r] = 0 =>
                           cmt_0["verifier"][r] = cmt_0["signer"][r]
                      /\ cmt_1["verifier"] = cmt_1["signer"]
                      /\ y["verifier"] = y["signer"]
                      /\ is_packed_padd_ok
    BY DEF VerifierAgrees, SeedsAgree
  <2>1. VerifiedTo(T) /\ queue_0.to_hash = 0 /\ queue_1.to_hash = 0
    BY DEF RoundsInvariant, Verifying
  <2>2. /\ cmt_0["signer"] = OwnCmt0 /\ cmt_1["signer"] = OwnCmt1 /\ y["signer"] = OwnY
        /\ Table(cmt_1["verifier"]) /\ Table(y["verifier"])
    BY DEF RoundsInvariant, Committed, Shape, Tables, Party
  <2>3. /\ is_packed_padd_ok /\ SeenY = OwnY /\ SeenCmt1 = OwnCmt1
        /\ \A r \in Round : chall_2[r] = 0 => SeenCmt0[r] = OwnCmt0[r]
    BY <2>1, SeenIsOwn DEF VerifiedTo
  <2>4. \A r \in Round : chall_2[r] = 0 => cmt_0["verifier"][r] = SeenCmt0[r]
    BY <2>1, <2>3 DEF VerifiedTo, Holds, AnsweredBefore, Round
  <2>5. \A r \in Round : cmt_1["verifier"][r] = OwnCmt1[r] /\ y["verifier"][r] = OwnY[r]
    BY <2>1, <2>3 DEF VerifiedTo, Holds, Round
  <2>6. cmt_1["verifier"] = OwnCmt1 /\ y["verifier"] = OwnY
    BY <2>2, <2>5 DEF Table, OwnCmt1, OwnY
  <2> QED
    BY <2>2, <2>3, <2>4, <2>6
<1> QED
  BY <1>1, RoundsInvariantHolds, PTL

\* The variables of the loops keep their types; in particular neither side
\* counts more responses than the signature has room for, as CROSS_sign
\* asserts.
THEOREM RoundsTypeHolds == RoundsSpec => []RoundsTypeOK
<1>1. RoundsInit => Typed
  <2>1. Separators(EmptyQueue)
    BY NoSeparator
  <2>2. 0 \in 0 .. T /\ 0 \in 0 .. T-W
    BY RoundAssumption
  <2> QED
    BY <2>1, <2>2 DEF RoundsInit, Typed
<1>2. RoundsInvariant /\ Typed /\ [RoundsNext]_<<rdVars, sharedVars>> => Typed'
  BY TypedStep
<1>3. RoundsInvariant /\ Typed => RoundsTypeOK
  <2>1. ASSUME NEW q, Shaped(q), Separators(q)
        PROVE  QueueOK(q)
    <3>1. q.dsc \in [Slots2 -> DomainSeparator]
      BY <2>1 DEF Separators
    <3>2. q.to_hash \in 0..1 /\ q.round_idx \in [Slots2 -> Round]
      BY <2>1 DEF Shaped
    <3> QED
      BY <3>1, <3>2 DEF QueueOK
  <2> QED
    BY <2>1 DEF RoundsInvariant, Shape, Typed, RoundsTypeOK
<1> QED
  BY <1>1, <1>2, <1>3, RoundsInvariantHolds, PTL DEF RoundsSpec
===============================================================================
