------------------------- MODULE CrossSignatureProofs -------------------------
(***************************************************************************)
(* Theorems about CrossSignature and their proofs: the weight of the       *)
(* challenge, that the composition is made of its parts, and what follows  *)
(* for a whole signature from the theorems about the loops.                *)
(***************************************************************************)
EXTENDS CrossSignature, CrossRoundsProofs, CrossTreeProofs

-----------------------------------------------------------------------------
(* The shuffle.                                                            *)

Ones(s) == {r \in Round : s[r] = 1}

LEMMA SwapKeepsWeight ==
  ASSUME NEW s \in [Round -> 0..1], NEW a \in Round, NEW b \in Round
  PROVE  /\ Swapped(s, a, b) \in [Round -> 0..1]
         /\ Cardinality(Ones(Swapped(s, a, b))) = Cardinality(Ones(s))
<1> DEFINE t == Swapped(s, a, b)
<1>1. t \in [Round -> 0..1] /\ t[b] = s[a] /\ t[a] = s[b]
      /\ \A r \in Round \ {a, b} : t[r] = s[r]
  BY DEF Swapped
<1>2. IsFiniteSet(Round) /\ IsFiniteSet(Ones(s))
  <2>1. IsFiniteSet(Round)
    BY FS_Interval, RoundAssumption DEF Round
  <2>2. Ones(s) \in SUBSET Round
    BY DEF Ones
  <2> QED
    BY <2>1, <2>2, FS_Subset
<1> HIDE DEF t
<1>3. CASE s[a] = s[b]
  BY <1>1, <1>3 DEF t, Ones
<1>4. ASSUME NEW x \in Round, NEW z \in Round, s[x] = 1, s[z] = 0, {x, z} = {a, b}
      PROVE  Cardinality(Ones(t)) = Cardinality(Ones(s))
  <2>1. t[x] = 0 /\ t[z] = 1 /\ \A r \in Round \ {x, z} : t[r] = s[r]
    BY <1>1, <1>4
  <2>2. Ones(t) = (Ones(s) \ {x}) \cup {z}
    BY <1>4, <2>1 DEF Ones
  <2>3. x \in Ones(s) /\ z \notin Ones(s) \ {x}
    BY <1>4 DEF Ones
  <2>4. IsFiniteSet(Ones(s) \ {x}) /\ Cardinality(Ones(s) \ {x}) = Cardinality(Ones(s)) - 1
    BY <1>2, <2>3, FS_RemoveElement
  <2>5. Cardinality(Ones(t)) = Cardinality(Ones(s) \ {x}) + 1
    BY <2>2, <2>3, <2>4, FS_AddElement
  <2>6. Cardinality(Ones(s)) \in Nat
    BY <1>2, FS_CardinalityType
  <2> QED
    BY <2>4, <2>5, <2>6
<1>5. CASE s[a] = 1 /\ s[b] = 0
  BY <1>1, <1>4, <1>5 DEF t
<1>6. CASE s[a] = 0 /\ s[b] = 1
  BY <1>1, <1>4, <1>6 DEF t
<1> QED
  BY <1>3, <1>5, <1>6

LEMMA FirstWeight ==
  LET s == [r \in Round |-> IF r < W THEN 1 ELSE 0]
  IN  s \in [Round -> 0..1] /\ Cardinality(Ones(s)) = W
<1> DEFINE s == [r \in Round |-> IF r < W THEN 1 ELSE 0]
<1>1. Ones(s) = 0 .. W-1
  BY RoundAssumption DEF Ones, Round
<1>2. Cardinality(0 .. W-1) = W
  BY FS_Interval, RoundAssumption
<1> QED
  BY <1>1, <1>2

\* What the shuffle keeps.
Shuffling ==
  /\ fw_at \in {"idle", "drawing", "returned"}
  /\ fixed_weight_string \in [Round -> 0..1]
  /\ curr \in Nat
  /\ fw_at # "idle" => Cardinality(Ones(fixed_weight_string)) = W

LEMMA DrawKeeps ==
  ASSUME Shuffling, Draw
  PROVE  Shuffling'
<1> DEFINE bits == bits_in_sub_buf + 8 * Refill
<1>1. fw_at = "drawing" /\ curr < T /\ fw_at' = fw_at
  BY DEF Draw
<1>2. PICK c \in Candidates(bits) :
        IF c < T - curr
        THEN /\ fixed_weight_string' = Swapped(fixed_weight_string, curr, curr + c)
             /\ curr' = curr + 1
        ELSE UNCHANGED <<fixed_weight_string, curr>>
  BY DEF Draw
<1>3. c \in Nat
  <2>1. ASSUME NEW n, c \in 0 .. n
        PROVE  c \in Nat
    BY <2>1
  <2> QED
    BY <2>1 DEF Candidates
<1>4. CASE c < T - curr
  <2>1. curr \in Round /\ curr + c \in Round
    BY <1>1, <1>3, <1>4, RoundAssumption DEF Shuffling, Round
  <2>2. fixed_weight_string \in [Round -> 0..1]
        /\ Cardinality(Ones(fixed_weight_string)) = W
    BY <1>1 DEF Shuffling
  <2>3. fixed_weight_string' \in [Round -> 0..1]
        /\ Cardinality(Ones(fixed_weight_string')) = W
    BY <1>2, <1>4, <2>1, <2>2, SwapKeepsWeight
  <2>4. curr' \in Nat
    BY <1>2, <1>4 DEF Shuffling
  <2> QED
    BY <1>1, <2>3, <2>4 DEF Shuffling, Ones
<1>5. CASE ~ (c < T - curr)
  BY <1>1, <1>2, <1>5 DEF Shuffling
<1> QED
  BY <1>4, <1>5

LEMMA ExpandKeeps ==
  ASSUME Shuffling, Expand
  PROVE  Shuffling'
<1>1. CASE ExpandBegin
  BY <1>1, FirstWeight DEF ExpandBegin, Shuffling
<1>2. CASE Draw
  BY <1>2, DrawKeeps
<1>3. CASE ExpandReturn
  BY <1>3 DEF ExpandReturn, Shuffling
<1> QED
  BY <1>1, <1>2, <1>3 DEF Expand

-----------------------------------------------------------------------------
(* What steps of the parts leave alone.                                    *)

LEMMA SeedStep ==
  ASSUME SignerSeeds \/ PublishSeeds \/ SeedReceived \/ RebuildSeeds
  PROVE  /\ UNCHANGED <<chall_2, cmt_0, intact>>
         /\ \/ UNCHANGED round_seeds
            \/ /\ seed_at = "seed_leaves"
               /\ seed_by # "signer" => round_seeds'["signer"] = round_seeds["signer"]
<1> USE DEF sharedVars
<1>1. CASE SeedLeaves
  BY <1>1 DEF SeedLeaves
<1>2. CASE GenPair \/ GenLast
  BY <1>2 DEF GenPair, GenLast
<1>3. CASE Computing
  BY <1>3 DEF Computing, LabelLeaves, ComputeEight, ComputePair, ComputeLevel
<1>4. CASE PathNode \/ PathLevel \/ SeedReceived
  BY <1>4 DEF PathNode, PathLevel, SeedReceived
<1>5. CASE RebuildPair \/ RebuildLevel
  BY <1>5 DEF RebuildPair, RebuildLevel
<1> QED
  BY <1>1, <1>2, <1>3, <1>4, <1>5 DEF SignerSeeds, PublishSeeds, RebuildSeeds

LEMMA MerkleStep ==
  ASSUME TreeRoot \/ TreeProof \/ RecomputeRoot
  PROVE  UNCHANGED sharedVars
<1>1. CASE TreeRoot
  BY <1>1 DEF TreeRoot, RootPlace, RootTwoPairs, RootLastPair
<1>2. CASE TreeProof
  BY <1>2 DEF TreeProof, ProofLabel, ProofPair, ProofLevel
<1>3. CASE RecomputeRoot
  BY <1>3 DEF RecomputeRoot, RecomputePlace, RecomputeTwoPairs, RecomputeOnePair,
              RecomputeLevel
<1> QED
  BY <1>1, <1>2, <1>3

LEMMA RoundsStep ==
  ASSUME RoundsBegin \/ SignerRounds \/ VerifyRounds
  PROVE  /\ UNCHANGED <<chall_2, round_seeds, intact>>
         /\ \/ UNCHANGED cmt_0
            \/ rd_at = "commit"
            \/ rd_at = "verify" /\ cmt_0'["signer"] = cmt_0["signer"]
<1> USE DEF sharedVars
<1>1. CASE RoundsBegin
  BY <1>1 DEF RoundsBegin
<1>2. CASE CommitRound
  BY <1>2 DEF CommitRound
<1>3. CASE Respond1
  BY <1>3 DEF Respond1
<1>4. CASE RespondRound
  BY <1>4 DEF RespondRound
<1>5. CASE VerifyBegin
  BY <1>5 DEF VerifyBegin
<1>6. CASE VerifyPublished
  BY <1>6 DEF VerifyPublished, VerifierHashes
<1>7. CASE VerifyAnswered
  BY <1>7 DEF VerifyAnswered, VerifierHashes
<1> QED
  BY <1>1, <1>2, <1>3, <1>4, <1>5, <1>6, <1>7 DEF SignerRounds, VerifyRounds

-----------------------------------------------------------------------------
(* The order of the calls.                                                 *)

Phases ==
  /\ seed_by \in {"signer", "verifier"}
  /\ seed_by = "signer" /\ seed_at \in {"gen_seed_tree", "seed_leaves"} => rd_at = "seeds"
  /\ seed_at = "rebuild_tree" => seed_by = "verifier"
  /\ seed_by = "verifier" /\ seed_at # "rebuilt" => rd_at = "transit"
  /\ rd_at \in {"seeds", "commit"} => mk_at = "commitments"
  /\ seed_by = "verifier" \/ seed_at \in {"compute_seeds", "seed_path", "transit", "rebuilt"} =>
       mk_at \in {"transit", "recompute_root", "recomputed"}
  /\ mk_at \in {"recompute_root", "recomputed"} => rd_at = "verified"
  /\ rd_at \in {"verify", "verified"} => seed_at = "rebuilt"
  /\ rd_at = "transit" => seed_at = "transit" \/ seed_by = "verifier"

SignatureInvariant == Shuffling /\ Phases

LEMMA SignatureInitially ==
  ASSUME Init
  PROVE  SignatureInvariant /\ SeedTreeInit /\ MerkleTreeInit
         /\ RoundsInit /\ chall_2 \in [Round -> 0..1] /\ intact = TRUE
<1>1. Shuffling
  BY DEF Init, ChallengeInit, Shuffling
<1>2. Phases
  BY DEF Init, SeedInit, MerkleInit, RoundsInit, Phases
<1>3. chall_2 \in [Round -> 0..1] /\ intact = TRUE
  BY DEF Init
<1> QED
  BY <1>1, <1>2, <1>3 DEF Init, SignatureInvariant, SeedTreeInit, MerkleTreeInit

\* How a step of each part moves its phase.
LEMMA SignerSeedsPhase ==
  ASSUME SignerSeeds
  PROVE  /\ seed_by' = seed_by
         /\ \/ seed_at' = seed_at
            \/ seed_at = "gen_seed_tree" /\ seed_at' = "seed_leaves"
            \/ seed_at = "seed_leaves" /\ seed_by = "signer" /\ seed_at' = "challenge"
<1>1. CASE seed_by = "signer" /\ SeedLeaves
  BY <1>1 DEF SeedLeaves
<1>2. CASE GenPair \/ GenLast
  BY <1>2 DEF GenPair, GenLast
<1> QED
  BY <1>1, <1>2 DEF SignerSeeds

LEMMA PublishSeedsPhase ==
  ASSUME PublishSeeds
  PROVE  /\ seed_by' = seed_by
         /\ seed_at \in {"label_leaves", "compute_seeds", "seed_path"}
         /\ seed_at' = seed_at \/ seed_at' \in {"compute_seeds", "seed_path", "transit"}
<1>1. CASE seed_by = "signer" /\ Computing
  BY <1>1 DEF Computing, LabelLeaves, ComputeEight, ComputePair, ComputeLevel
<1>2. CASE PathNode \/ PathLevel
  BY <1>2 DEF PathNode, PathLevel
<1> QED
  BY <1>1, <1>2 DEF PublishSeeds

LEMMA RebuildSeedsPhase ==
  ASSUME RebuildSeeds
  PROVE  /\ seed_by' = seed_by
         /\ seed_by = "verifier" \/ seed_at = "rebuild_tree"
         /\ seed_at \in {"label_leaves", "compute_seeds", "rebuild_tree", "seed_leaves"}
         /\ seed_at' \in {"label_leaves", "compute_seeds", "rebuild_tree", "seed_leaves",
                          "rebuilt"}
<1>1. CASE seed_by = "verifier" /\ Computing
  BY <1>1 DEF Computing, LabelLeaves, ComputeEight, ComputePair, ComputeLevel
<1>2. CASE seed_by = "verifier" /\ SeedLeaves
  BY <1>2 DEF SeedLeaves
<1>3. CASE RebuildPair \/ RebuildLevel
  BY <1>3 DEF RebuildPair, RebuildLevel
<1> QED
  BY <1>1, <1>2, <1>3 DEF RebuildSeeds

LEMMA MerklePhase ==
  /\ TreeRoot => mk_at' = mk_at \/ mk_at' \in {"tree_root", "challenge"}
  /\ TreeRoot => mk_at \in {"commitments", "tree_root"}
  /\ TreeProof => mk_at' = mk_at \/ mk_at' \in {"tree_proof", "transit"}
  /\ TreeProof => mk_at \in {"label_proof", "tree_proof"}
  /\ RecomputeRoot => mk_at' \in {"recompute_root", "recomputed"}
  /\ RecomputeRoot => mk_at \in {"transit", "recompute_root"}
<1>1. ASSUME TreeRoot
      PROVE  /\ mk_at \in {"commitments", "tree_root"}
             /\ mk_at' = mk_at \/ mk_at' \in {"tree_root", "challenge"}
  BY <1>1 DEF TreeRoot, RootPlace, RootTwoPairs, RootLastPair
<1>2. ASSUME TreeProof
      PROVE  /\ mk_at \in {"label_proof", "tree_proof"}
             /\ mk_at' = mk_at \/ mk_at' \in {"tree_proof", "transit"}
  BY <1>2 DEF TreeProof, ProofLabel, ProofPair, ProofLevel
<1>3. ASSUME RecomputeRoot
      PROVE  /\ mk_at \in {"transit", "recompute_root"}
             /\ mk_at' \in {"recompute_root", "recomputed"}
  BY <1>3 DEF RecomputeRoot, RecomputePlace, RecomputeTwoPairs, RecomputeOnePair,
              RecomputeLevel
<1> QED
  BY <1>1, <1>2, <1>3

LEMMA RoundsPhase ==
  /\ RoundsBegin => rd_at = "seeds" /\ rd_at' = "commit"
  /\ CommitRound => rd_at = "commit" /\ rd_at' \in {"commit", "committed"}
  /\ Respond1 => rd_at = "committed" /\ rd_at' = "challenge"
  /\ RoundsChallenge => rd_at = "challenge" /\ rd_at' = "respond"
  /\ RespondRound => rd_at = "respond" /\ rd_at' \in {"respond", "transit"}
  /\ VerifyRounds => rd_at \in {"transit", "verify"} /\ rd_at' \in {"verify", "verified"}
<1>1. ASSUME CommitRound PROVE rd_at = "commit" /\ rd_at' \in {"commit", "committed"}
  BY <1>1 DEF CommitRound
<1>2. ASSUME RespondRound PROVE rd_at = "respond" /\ rd_at' \in {"respond", "transit"}
  BY <1>2 DEF RespondRound
<1>3. ASSUME VerifyRounds
      PROVE  rd_at \in {"transit", "verify"} /\ rd_at' \in {"verify", "verified"}
  BY <1>3 DEF VerifyRounds, VerifyBegin, VerifyPublished, VerifyAnswered, VerifierHashes
<1> QED
  BY <1>1, <1>2, <1>3 DEF RoundsBegin, Respond1, RoundsChallenge

-----------------------------------------------------------------------------
(* Steps of the composition.                                               *)

\* A step of CrossSignature is one of each part, or none of its business.
Refines ==
  /\ [SeedTreeNext]_<<seedVars, chall_2, round_seeds, intact>>
  /\ [MerkleTreeNext]_<<mkVars, chall_2, cmt_0, intact>>
  /\ [RoundsNext]_<<rdVars, sharedVars>>

LEMMA InSeedsStep ==
  ASSUME SignatureInvariant,
         \/ SignerSeeds
         \/ mk_at = "transit" /\ PublishSeeds
         \/ InTransit /\ SeedReceived
         \/ RebuildSeeds,
         UNCHANGED <<mkVars, rdVars, fwVars>>
  PROVE  SignatureInvariant' /\ Refines
<1>1. /\ UNCHANGED <<chall_2, cmt_0, intact>>
      /\ \/ UNCHANGED round_seeds
         \/ /\ seed_at = "seed_leaves"
            /\ seed_by # "signer" => round_seeds'["signer"] = round_seeds["signer"]
  BY SeedStep
<1>2. UNCHANGED <<mk_at, rd_at>>
  BY DEF mkVars, rdVars
<1>3. Shuffling'
  BY DEF SignatureInvariant, Shuffling, fwVars
<1>4. Phases'
  <2>1. CASE SignerSeeds
    BY <1>2, <2>1, SignerSeedsPhase DEF SignatureInvariant, Phases
  <2>2. CASE mk_at = "transit" /\ PublishSeeds
    BY <1>2, <2>2, PublishSeedsPhase DEF SignatureInvariant, Phases
  <2>3. CASE InTransit /\ SeedReceived
    <3>1. seed_at = "transit" /\ rd_at = "transit" /\ seed_at' = "label_leaves"
          /\ seed_by' = "verifier"
      BY <2>3 DEF SeedReceived, InTransit
    <3> QED
      BY <1>2, <3>1 DEF SignatureInvariant, Phases
  <2>4. CASE RebuildSeeds
    BY <1>2, <2>4, RebuildSeedsPhase DEF SignatureInvariant, Phases
  <2> QED
    BY <2>1, <2>2, <2>3, <2>4
<1>5. SeedTreeNext
  BY DEF SeedTreeNext
<1>6. UNCHANGED <<mkVars, chall_2, cmt_0, intact>>
  BY <1>1
<1>7. OutsideRounds
  BY <1>1 DEF OutsideRounds, SignatureInvariant, Phases
<1> QED
  BY <1>3, <1>4, <1>5, <1>6, <1>7 DEF SignatureInvariant, Refines, RoundsNext

LEMMA InMerkleStep ==
  ASSUME SignatureInvariant,
         \/ rd_at = "committed" /\ TreeRoot
         \/ TreeProof
         \/ rd_at = "verified" /\ RecomputeRoot,
         UNCHANGED <<seedVars, rdVars, fwVars>>
  PROVE  SignatureInvariant' /\ Refines
<1>1. UNCHANGED sharedVars
  BY MerkleStep
<1>2. UNCHANGED <<seed_at, seed_by, rd_at>>
  BY DEF seedVars, rdVars
<1>3. Shuffling'
  BY DEF SignatureInvariant, Shuffling, fwVars
<1>4. Phases'
  <2>1. CASE rd_at = "committed" /\ TreeRoot
    BY <1>2, <2>1, MerklePhase DEF SignatureInvariant, Phases
  <2>2. CASE TreeProof
    BY <1>2, <2>2, MerklePhase DEF SignatureInvariant, Phases
  <2>3. CASE rd_at = "verified" /\ RecomputeRoot
    BY <1>2, <2>3, MerklePhase DEF SignatureInvariant, Phases
  <2> QED
    BY <2>1, <2>2, <2>3
<1>5. MerkleTreeNext
  BY DEF MerkleTreeNext
<1>6. UNCHANGED <<rdVars, sharedVars>> /\ UNCHANGED <<seedVars, chall_2, round_seeds, intact>>
  BY <1>1 DEF sharedVars
<1> QED
  BY <1>3, <1>4, <1>5, <1>6 DEF SignatureInvariant, Refines

LEMMA InRoundsStep ==
  ASSUME SignatureInvariant,
         \/ seed_at = "challenge" /\ RoundsBegin
         \/ CommitRound
         \/ seed_at = "transit" /\ RespondRound
         \/ seed_at = "rebuilt" /\ VerifyRounds,
         UNCHANGED <<seedVars, mkVars, fwVars>>
  PROVE  SignatureInvariant' /\ Refines
<1>1. /\ UNCHANGED <<chall_2, round_seeds, intact>>
      /\ \/ UNCHANGED cmt_0
         \/ rd_at = "commit"
         \/ rd_at = "verify" /\ cmt_0'["signer"] = cmt_0["signer"]
  BY RoundsStep DEF SignerRounds
<1>2. UNCHANGED <<seed_at, seed_by, mk_at>>
  BY DEF seedVars, mkVars
<1>3. Shuffling'
  BY DEF SignatureInvariant, Shuffling, fwVars
<1>4. Phases'
  <2>1. CASE seed_at = "challenge" /\ RoundsBegin
    BY <1>2, <2>1, RoundsPhase DEF SignatureInvariant, Phases
  <2>2. CASE CommitRound
    BY <1>2, <2>2, RoundsPhase DEF SignatureInvariant, Phases
  <2>3. CASE seed_at = "transit" /\ RespondRound
    BY <1>2, <2>3, RoundsPhase DEF SignatureInvariant, Phases
  <2>4. CASE seed_at = "rebuilt" /\ VerifyRounds
    BY <1>2, <2>4, RoundsPhase DEF SignatureInvariant, Phases
  <2> QED
    BY <2>1, <2>2, <2>3, <2>4
<1>5. RoundsNext
  BY DEF RoundsNext, SignerRounds
<1>6. UNCHANGED <<seedVars, chall_2, round_seeds, intact>>
  BY <1>1
<1>7. UNCHANGED <<mkVars, chall_2, cmt_0, intact>> \/ OutsideMerkle
  <2>1. rd_at = "commit" => mk_at = "commitments"
    BY DEF SignatureInvariant, Phases
  <2>2. rd_at = "verify" => mk_at = "transit"
    BY DEF SignatureInvariant, Phases
  <2> QED
    BY <1>1, <2>1, <2>2 DEF OutsideMerkle
<1> QED
  BY <1>3, <1>4, <1>5, <1>6, <1>7 DEF SignatureInvariant, Refines, MerkleTreeNext

LEMMA SignDigestsStep ==
  ASSUME SignatureInvariant, SignDigests
  PROVE  SignatureInvariant' /\ Refines
<1>1. Respond1 /\ UNCHANGED <<seedVars, mkVars, fwVars>> /\ UNCHANGED sharedVars
  BY DEF SignDigests, Respond1
<1>2. rd_at = "committed" /\ rd_at' = "challenge" /\ UNCHANGED <<seed_at, seed_by, mk_at>>
  BY <1>1, RoundsPhase DEF seedVars, mkVars
<1>3. Shuffling'
  BY <1>1 DEF SignatureInvariant, Shuffling, fwVars
<1>4. Phases'
  BY <1>2 DEF SignatureInvariant, Phases
<1>5. RoundsNext
  BY <1>1 DEF RoundsNext, SignerRounds
<1>6. UNCHANGED <<seedVars, chall_2, round_seeds, intact>>
      /\ UNCHANGED <<mkVars, chall_2, cmt_0, intact>>
  BY <1>1 DEF sharedVars
<1> QED
  BY <1>3, <1>4, <1>5, <1>6 DEF SignatureInvariant, Refines

LEMMA SignChallengeStep ==
  ASSUME SignatureInvariant, SignChallenge
  PROVE  SignatureInvariant' /\ Refines
<1>1. CASE Expand /\ UNCHANGED <<seedVars, mkVars, rdVars, sharedVars, sigVars>>
  <2>1. Shuffling'
    BY <1>1, ExpandKeeps DEF SignatureInvariant
  <2>2. Phases'
    BY <1>1 DEF SignatureInvariant, Phases, seedVars, mkVars, rdVars
  <2>3. /\ UNCHANGED <<seedVars, chall_2, round_seeds, intact>>
        /\ UNCHANGED <<mkVars, chall_2, cmt_0, intact>>
        /\ UNCHANGED <<rdVars, sharedVars>>
    BY <1>1 DEF sharedVars
  <2> QED
    BY <2>1, <2>2, <2>3 DEF SignatureInvariant, Refines
<1>2. CASE /\ fw_at = "returned" /\ SeedChallenge /\ MerkleChallenge /\ RoundsChallenge
           /\ chall_2' = fixed_weight_string
           /\ UNCHANGED <<round_seeds, cmt_0, intact, fwVars, sigVars>>
  <2>1. chall_2' \in Challenges
    BY <1>2 DEF SignatureInvariant, Shuffling, Challenges, Ones
  <2>2. Shuffling'
    BY <1>2 DEF SignatureInvariant, Shuffling, fwVars
  <2>3. /\ seed_at = "challenge" /\ seed_at' = "label_leaves" /\ seed_by' = seed_by
        /\ mk_at = "challenge" /\ mk_at' = "label_proof"
        /\ rd_at = "challenge" /\ rd_at' = "respond"
    BY <1>2 DEF SeedChallenge, MerkleChallenge, RoundsChallenge
  <2>4. Phases'
    BY <2>3 DEF SignatureInvariant, Phases
  <2>5. SeedTreeNext /\ MerkleTreeNext /\ RoundsNext
    BY <1>2, <2>1 DEF SeedTreeNext, MerkleTreeNext, RoundsNext
  <2> QED
    BY <2>2, <2>4, <2>5 DEF SignatureInvariant, Refines
<1> QED
  BY <1>1, <1>2 DEF SignChallenge

\* A damage of one part is one of the rest for the other parts.
LEMMA TransitStep ==
  ASSUME SignatureInvariant, Transit
  PROVE  SignatureInvariant' /\ Refines
<1>1. seed_at = "transit" /\ rd_at = "transit" /\ mk_at = "transit"
  BY DEF Transit, InTransit, SignatureInvariant, Phases
<1>2. CASE InSeeds(PathDamaged)
  <2>1. PathDamaged /\ UNCHANGED <<mkVars, rdVars, fwVars>>
    BY <1>2 DEF InSeeds
  <2>2. UNCHANGED <<seed_at, seed_by, chall_2, round_seeds, cmt_0>> /\ intact' = FALSE
    BY <2>1 DEF PathDamaged
  <2>3. OutsideMerkle /\ OutsideRounds
    BY <1>1, <2>1, <2>2 DEF OutsideMerkle, OutsideRounds
  <2>4. Shuffling' /\ Phases'
    BY <2>1, <2>2 DEF SignatureInvariant, Shuffling, Phases, fwVars, mkVars, rdVars
  <2> QED
    BY <2>1, <2>3, <2>4 DEF SignatureInvariant, Refines, SeedTreeNext, MerkleTreeNext,
       RoundsNext
<1>3. CASE InMerkle(ProofDamaged)
  <2>1. ProofDamaged /\ UNCHANGED <<seedVars, rdVars, fwVars>>
    BY <1>3 DEF InMerkle
  <2>2. UNCHANGED <<mk_at, chall_2, round_seeds, cmt_0>> /\ intact' = FALSE
    BY <2>1 DEF ProofDamaged
  <2>3. OutsideSeeds /\ OutsideRounds
    BY <2>1, <2>2 DEF OutsideSeeds, OutsideRounds
  <2>4. Shuffling' /\ Phases'
    BY <2>1, <2>2 DEF SignatureInvariant, Shuffling, Phases, fwVars, seedVars, rdVars
  <2> QED
    BY <2>1, <2>3, <2>4 DEF SignatureInvariant, Refines, SeedTreeNext, MerkleTreeNext,
       RoundsNext
<1>4. CASE InRounds(ResponseDamaged)
  <2>1. ResponseDamaged /\ UNCHANGED <<seedVars, mkVars, fwVars>>
    BY <1>4 DEF InRounds
  <2>2. UNCHANGED <<rd_at, chall_2, round_seeds, cmt_0>> /\ intact' = FALSE
    BY <2>1 DEF ResponseDamaged
  <2>3. OutsideSeeds /\ OutsideMerkle
    BY <1>1, <2>1, <2>2 DEF OutsideSeeds, OutsideMerkle
  <2>4. Shuffling' /\ Phases'
    BY <2>1, <2>2 DEF SignatureInvariant, Shuffling, Phases, fwVars, seedVars, mkVars
  <2> QED
    BY <2>1, <2>3, <2>4 DEF SignatureInvariant, Refines, SeedTreeNext, MerkleTreeNext,
       RoundsNext
<1> QED
  BY <1>2, <1>3, <1>4 DEF Transit

LEMMA UnchangedStep ==
  ASSUME SignatureInvariant, UNCHANGED <<seedVars, mkVars, rdVars, fwVars, sharedVars>>
  PROVE  SignatureInvariant' /\ Refines
<1>1. /\ UNCHANGED <<seedVars, chall_2, round_seeds, intact>>
      /\ UNCHANGED <<mkVars, chall_2, cmt_0, intact>>
      /\ UNCHANGED <<rdVars, sharedVars>>
  BY DEF sharedVars
<1>2. Shuffling' /\ Phases'
  BY DEF SignatureInvariant, Shuffling, Phases, fwVars, seedVars, mkVars, rdVars
<1> QED
  BY <1>1, <1>2 DEF SignatureInvariant, Refines

LEMMA SignatureStep ==
  ASSUME SignatureInvariant, [Next]_vars
  PROVE  SignatureInvariant' /\ Refines
<1>1. CASE Sign
  <2>1. CASE InSeeds(SignerSeeds) \/ (mk_at = "transit" /\ InSeeds(PublishSeeds))
    BY <2>1, InSeedsStep DEF InSeeds
  <2>2. CASE (rd_at = "committed" /\ InMerkle(TreeRoot)) \/ InMerkle(TreeProof)
    BY <2>2, InMerkleStep DEF InMerkle
  <2>3. CASE \/ seed_at = "challenge" /\ InRounds(RoundsBegin)
             \/ InRounds(CommitRound)
             \/ seed_at = "transit" /\ InRounds(RespondRound)
    BY <2>3, InRoundsStep DEF InRounds
  <2> QED
    BY <1>1, <2>1, <2>2, <2>3, SignDigestsStep, SignChallengeStep DEF Sign
<1>2. CASE Transit
  BY <1>2, TransitStep
<1>3. CASE Verify
  <2>1. CASE (InTransit /\ InSeeds(SeedReceived)) \/ InSeeds(RebuildSeeds)
    BY <2>1, InSeedsStep DEF InSeeds
  <2>2. CASE seed_at = "rebuilt" /\ InRounds(VerifyRounds)
    BY <2>2, InRoundsStep DEF InRounds
  <2>3. CASE rd_at = "verified" /\ InMerkle(RecomputeRoot)
    BY <2>3, InMerkleStep DEF InMerkle
  <2>4. CASE Verdict
    BY <2>4, UnchangedStep DEF Verdict
  <2> QED
    BY <1>3, <2>1, <2>2, <2>3, <2>4 DEF Verify
<1>4. CASE Returned \/ UNCHANGED vars
  BY <1>4, UnchangedStep DEF Returned, vars
<1> QED
  BY <1>1, <1>2, <1>3, <1>4 DEF Next

-----------------------------------------------------------------------------
(* The theorems.                                                           *)

\* The parts are called in the order they expect, and the challenge that
\* reaches them has weight W.
THEOREM SignatureInvariantHolds == Spec => []SignatureInvariant
<1>1. Init => SignatureInvariant
  BY SignatureInitially
<1>2. SignatureInvariant /\ [Next]_vars => SignatureInvariant'
  BY SignatureStep
<1> QED
  BY <1>1, <1>2, PTL DEF Spec

\* CROSS_sign and CROSS_verify are made of seedtree.c, merkle.c and the loops
\* over the rounds, each of which runs as if it were alone.
THEOREM SignatureImplementsParts == Spec => ImplementsParts
<1>1. Init => SeedTreeInit /\ MerkleTreeInit
              /\ RoundsInit /\ chall_2 \in [Round -> 0..1] /\ intact = TRUE
  BY SignatureInitially
<1>2. SignatureInvariant /\ [Next]_vars =>
        /\ [SeedTreeNext]_<<seedVars, chall_2, round_seeds, intact>>
        /\ [MerkleTreeNext]_<<mkVars, chall_2, cmt_0, intact>>
        /\ [RoundsNext]_<<rdVars, sharedVars>>
  BY SignatureStep DEF Refines
<1> QED
  BY <1>1, <1>2, SignatureInvariantHolds, PTL
     DEF Spec, ImplementsParts, SeedTreeSpec, MerkleTreeSpec, RoundsSpec

\* expand_digest_to_fixed_weight yields T bits of weight W, whatever is drawn
\* and whether or not the random bytes run out.
THEOREM WeightKeptHolds == Spec => []WeightKept
<1>1. SignatureInvariant => WeightKept
  BY DEF SignatureInvariant, Shuffling, WeightKept, Ones
<1> QED
  BY <1>1, SignatureInvariantHolds, PTL

\* What CrossRoundsProofs shows of the loops holds of whole signatures: each
\* commitment is the hash of its own round's input ...
THEOREM SignatureOwnCommitments == Spec => []OwnCommitments
BY SignatureImplementsParts, OwnCommitmentsHold, PTL DEF ImplementsParts

\* ... and the verifier's two queues yield the signer's commitments and
\* responses.
THEOREM SignatureVerifierAgrees == Spec => []VerifierAgrees
BY SignatureImplementsParts, VerifierAgreesHolds, PTL DEF ImplementsParts

\* What CrossTreeProofs shows of seedtree.c holds of whole signatures: the
\* verifier has the signer's seed of every published round ...
THEOREM SignatureRebuiltSeeds == Spec => []RebuiltSeeds
BY SignatureImplementsParts, RebuiltSeedsHolds, PTL DEF ImplementsParts

\* ... and the path holds no seed from which that of any other round could be
\* expanded ...
THEOREM SignatureHiddenSeeds == Spec => []HiddenSeeds
BY SignatureImplementsParts, HiddenSeedsHolds, PTL DEF ImplementsParts

\* ... and rebuild_tree uses up what seed_path has stored.
THEOREM SignaturePathUsedUp == Spec => []PathUsedUp
BY SignatureImplementsParts, PathUsedUpHolds, PTL DEF ImplementsParts

\* The seeds of the signer's tree are all different, as long as the CSPRNG does
\* not collide on the seeds it is given.
THEOREM SignatureSeedsDistinct ==
  ASSUME RootSeed # Zero
  PROVE  Spec => [](NoCollision(SignerSeedTree) => SeedsDistinct)
BY SignatureImplementsParts, SeedsDistinctHolds, PTL DEF ImplementsParts

\* What CrossTreeProofs shows of merkle.c holds of whole signatures: the
\* signer's tree is hashed completely before its root is used ...
THEOREM SignatureTreeComplete == Spec => []TreeComplete
BY SignatureImplementsParts, TreeCompleteHolds, PTL DEF ImplementsParts

\* ... recompute_root comes to the same root ...
THEOREM SignatureRecomputedRoot == Spec => []RecomputedRoot
BY SignatureImplementsParts, RecomputedRootHolds, PTL DEF ImplementsParts

\* ... and uses up what tree_proof has stored.
THEOREM SignatureProofUsedUp == Spec => []ProofUsedUp
BY SignatureImplementsParts, ProofUsedUpHolds, PTL DEF ImplementsParts

\* The variables of a whole signature keep their shapes: no loop over the
\* trees or the rounds leaves its arrays.
THEOREM SignatureTypeCorrect == Spec => []TypeOK
BY SignatureImplementsParts, SeedTypeHolds, MerkleTypeHolds, RoundsTypeHolds, PTL
   DEF ImplementsParts, TypeOK

\* Path and proof of a signature use equally many slots, for every tree and
\* challenge.
THEOREM SignatureSameNumber == Spec => []SameNumber
<1>1. SignatureInvariant /\ SeedInvariant /\ MerkleInvariant => SameNumber
  <2>1. SUFFICES ASSUME SignatureInvariant, SeedInvariant, MerkleInvariant, rd_at = "transit"
                 PROVE  num_seeds_published = published["signer"]
    BY DEF SameNumber
  <2>2. OnItsWay /\ Published /\ mk_at \in AtSent
    BY <2>1 DEF SignatureInvariant, Phases, OnItsWay, Published, AtSent, AtVerifying
  <2>3. /\ num_seeds_published = CountTo(SignerFlagTree, AllNodes)
        /\ LeavesFlagged(SignerFlagTree) /\ AndOn(SignerFlagTree, InnerNode)
    BY <2>1, <2>2 DEF SeedInvariant, Sending, Marked
  <2>4. /\ published["signer"] = SlotsFrom(SFlags, 0)
        /\ LeafFlags(SFlags) /\ OrFrom(SFlags, 0)
    BY <2>1, <2>2 DEF MerkleInvariant, Made
  <2>5. chall_2 \in [Round -> 0..1] /\ SignerFlagTree \in FlagArrays
    BY <2>1 DEF SeedInvariant, SeedShape, SignerFlagTree, Party
  <2>6. SFlags \in Flags
    BY <2>1 DEF MerkleInvariant, MerkleShape, SFlags, Party
  <2> QED
    BY <2>3, <2>4, <2>5, <2>6, SameCount
<1> QED
  BY <1>1, SignatureInvariantHolds, SignatureImplementsParts, SeedInvariantHolds,
     MerkleInvariantHolds, PTL DEF ImplementsParts

\* Neither seed_path nor tree_proof writes behind its buffer of the signature
\* when the nodes of the worst challenge fit, as row counts them.
THEOREM SignatureBuffersSuffice ==
  ASSUME NEW row, WorstRows(row), row[<<0, 0>>][T-W] <= NodesToStore
  PROVE  Spec => [](PathFits /\ ProofFits)
<1>1. SeedTreeSpec => []PathFits
  BY PathFitsHolds
<1>2. MerkleTreeSpec => []ProofFits
  BY ProofFitsHolds
<1> QED
  BY <1>1, <1>2, SignatureImplementsParts, PTL DEF ImplementsParts

-----------------------------------------------------------------------------
(* CROSS_verify accepts what CROSS_sign made.                              *)

\* What holds of the parts, seen from the composition.
Parts ==
  /\ SignatureInvariant /\ SeedInvariant /\ RoundsInvariant /\ MerkleTypeOK
  /\ RebuiltSeeds /\ PathUsedUp /\ RecomputedRoot /\ ProofUsedUp /\ VerifierAgrees

LEMMA PartsHold == Spec => []Parts
BY SignatureInvariantHolds, SignatureImplementsParts, SeedInvariantHolds, RoundsInvariantHolds,
   MerkleTypeHolds,
   SignatureRebuiltSeeds, SignaturePathUsedUp, SignatureRecomputedRoot, SignatureProofUsedUp,
   SignatureVerifierAgrees, PTL DEF ImplementsParts, Parts

\* is_fz_vec_in_restr_group_m knows the signer's own v_G_bar.
KnowsOwn == \A s : Restricted(V(s)) = TRUE

Digested == rd_at \notin {"seeds", "commit", "committed"}
Accepted == intact /\ PathFits /\ ProofFits => verdict # "rejected"

\* The digests of the signature are those the verifier's are compared with.
Ended ==
  /\ Digested => /\ mk_at \notin {"commitments", "tree_root"}
                 /\ digest_cmt = DigestCmt("signer") /\ digest_chall_2 = y["signer"]
  /\ rd_at \notin {"verify", "verified"} => is_signature_ok
  /\ KnowsOwn /\ intact /\ PathFits => is_signature_ok
  /\ verdict # "none" => mk_at = "recomputed"
  /\ KnowsOwn => Accepted

\* The verifier looks at the signer's own v_G_bar.
LEMMA VerifyKeepsOk ==
  ASSUME KnowsOwn, Parts, is_signature_ok, intact, PathFits, seed_at = "rebuilt",
         VerifyRounds
  PROVE  is_signature_ok'
<1>1. CASE VerifyBegin \/ VerifyPublished
  BY <1>1 DEF VerifyBegin, VerifyPublished, rdOk
<1>2. CASE VerifyAnswered
  <2> DEFINE k == rsps["verifier"]
  <2>1. rd_at = "verify" /\ chall_2[round] = 0
    BY <1>2 DEF VerifyAnswered
  <2>3. /\ is_packed_padd_ok /\ AnswersTo(T) /\ k = Count(chall_2, round)
        /\ round \in 0 .. T-1
    <3>1. /\ RoundsInvariant /\ AnswersTo(T) /\ k = Count(chall_2, round)
          /\ round \in Round /\ VerifiedTo(round)
      BY <2>1 DEF Parts, RoundsInvariant, Verifying, Answering, Shape
    <3>2. PadsOk(round)
      <4>1. AnsweredBefore(chall_2, round) \in SUBSET AnsweredBefore(chall_2, T)
        BY <3>1, RoundAssumption DEF AnsweredBefore, Round
      <4>2. PadsOk(T)
        BY <2>1, <3>1, SeenIsOwn
      <4> QED
        BY <4>1, <4>2 DEF PadsOk
    <3> QED
      BY <3>1, <3>2 DEF VerifiedTo, Round
  <2>4. resp_0[k] = Answer(OwnY[round], V(Seed(round)))
    BY <2>1, <2>3 DEF AnswersTo
  <2>5. resp_0[k].y_pad = 0 /\ resp_0[k].v = V(Seed(round))
    BY <2>4, AnswerFields
  <2> HIDE DEF k
  <2>6. \E restricted \in {Restricted(V(Seed(round)))} :
          is_signature_ok' = (is_signature_ok /\ restricted)
    BY <1>2, <2>3, <2>5 DEF VerifyAnswered, k
  <2>7. Restricted(V(Seed(round))) = TRUE
    BY DEF KnowsOwn
  <2> QED
    BY <2>6, <2>7
<1> QED
  BY <1>1, <1>2 DEF VerifyRounds

\* What CrossRounds does after the digests were made leaves the signer's
\* values alone.
LEMMA DigestsKept ==
  ASSUME RoundsInvariant, RespondRound \/ ResponseDamaged \/ VerifyRounds \/ RoundsChallenge
  PROVE  y'["signer"] = y["signer"] /\ cmt_1'["signer"] = cmt_1["signer"]
<1>1. /\ y = [p \in Party |-> y[p]] /\ cmt_1 = [p \in Party |-> cmt_1[p]]
      /\ "signer" \in Party /\ "signer" # "verifier"
  BY DEF RoundsInvariant, Shape, Tables, Party
<1>2. CASE RespondRound \/ ResponseDamaged \/ VerifyBegin \/ RoundsChallenge
  BY <1>2 DEF RespondRound, ResponseDamaged, VerifyBegin, RoundsChallenge
<1>3. CASE VerifyPublished \/ VerifyAnswered
  <2>1. \E b : y' = [y EXCEPT !["verifier"] = b]
    BY <1>3 DEF VerifyPublished, VerifyAnswered
  <2>2. \E b : cmt_1' = [cmt_1 EXCEPT !["verifier"] = b]
    BY <1>3 DEF VerifyPublished, VerifyAnswered, VerifierHashes
  <2> QED
    BY <1>1, <2>1, <2>2
<1> QED
  BY <1>2, <1>3 DEF VerifyRounds

LEMMA VerdictAccepts ==
  ASSUME Parts, Ended, Verdict
  PROVE  Ended'
<1>1. /\ mk_at = "recomputed" /\ verdict = "none"
      /\ verdict' = IF /\ is_signature_ok
                       /\ DigestCmt("verifier") = digest_cmt
                       /\ y["verifier"] = digest_chall_2
                       /\ is_mtree_padding_ok /\ is_stree_padding_ok
                       /\ is_packed_padd_ok
                    THEN "ok" ELSE "rejected"
      /\ UNCHANGED <<seedVars, mkVars, rdVars, fwVars, sharedVars, digest_cmt,
                     digest_chall_2>>
  BY DEF Verdict
<1>2. /\ UNCHANGED <<rd_at, mk_at, is_signature_ok, y, cmt_1, root, intact, published,
                     num_seeds_published, digest_cmt, digest_chall_2>>
  BY <1>1 DEF seedVars, countVars, mkVars, mkResults, rdVars, rdOk, sharedVars
<1>3. ASSUME KnowsOwn, intact, PathFits, ProofFits
      PROVE  verdict' = "ok"
  <2>1. rd_at = "verified" /\ seed_at = "rebuilt" /\ seed_by = "verifier"
    <3>1. rd_at = "verified" /\ seed_at = "rebuilt"
      BY <1>1 DEF Parts, SignatureInvariant, Phases
    <3> QED
      BY <3>1 DEF Parts, SeedInvariant, Whose
  <2>2. \A r \in Round : chall_2[r] = 1 =>
          round_seeds["verifier"][r] = round_seeds["signer"][r]
    BY <1>3, <2>1 DEF Parts, RebuiltSeeds
  <2>3. /\ SameCommitments /\ cmt_1["verifier"] = cmt_1["signer"]
        /\ y["verifier"] = y["signer"] /\ is_packed_padd_ok
    BY <1>3, <2>1, <2>2 DEF Parts, VerifierAgrees, SameCommitments
  <2>4. root["verifier"] = root["signer"] /\ is_mtree_padding_ok
    BY <1>1, <1>3, <2>3 DEF Parts, RecomputedRoot, ProofUsedUp
  <2>5. is_stree_padding_ok
    BY <1>3, <2>1 DEF Parts, PathUsedUp
  <2>6. /\ is_signature_ok /\ digest_cmt = DigestCmt("signer")
        /\ digest_chall_2 = y["signer"]
    BY <1>3, <2>1 DEF Ended, Digested
  <2> QED
    BY <1>1, <2>3, <2>4, <2>5, <2>6 DEF DigestCmt
<1>4. KnowsOwn => Accepted'
  BY <1>2, <1>3 DEF Accepted, PathFits, ProofFits
<1> QED
  BY <1>1, <1>2, <1>4 DEF Ended, Digested, DigestCmt, PathFits

\* A step before the verdict: the digests are not there yet, or stay what
\* they are.
EndedNext ==
  /\ verdict' = "none"
  /\ Digested' => /\ mk_at' \notin {"commitments", "tree_root"}
                  /\ digest_cmt' = DigestCmt("signer")' /\ digest_chall_2' = y'["signer"]
  /\ rd_at' \notin {"verify", "verified"} => is_signature_ok'
  /\ KnowsOwn /\ (intact /\ PathFits)' => is_signature_ok'

LEMMA EndedStep ==
  ASSUME EndedNext
  PROVE  Ended'
BY DEF EndedNext, Ended, Accepted, KnowsOwn

LEMMA NoVerdict ==
  ASSUME Parts, Ended, mk_at # "recomputed" \/ seed_at # "rebuilt"
  PROVE  verdict = "none"
BY DEF Parts, SignatureInvariant, Phases, Ended

LEMMA SeedsEnd ==
  ASSUME Parts, Ended,
         SignerSeeds \/ PublishSeeds \/ PathDamaged \/ SeedReceived \/ RebuildSeeds,
         UNCHANGED <<mkVars, rdVars, sigVars>>
  PROVE  Ended'
<1>1. seed_at # "rebuilt"
  <2>1. CASE SignerSeeds
    BY <2>1 DEF SignerSeeds, GenPair, GenLast, SeedLeaves
  <2>2. CASE PublishSeeds
    BY <2>2, PublishSeedsPhase
  <2>3. CASE RebuildSeeds
    BY <2>3, RebuildSeedsPhase
  <2> QED
    BY <2>1, <2>2, <2>3 DEF PathDamaged, SeedReceived
<1>2. rd_at \notin {"verify", "verified"}
  BY <1>1 DEF Parts, SignatureInvariant, Phases
<1>3. /\ verdict = "none"
      /\ UNCHANGED <<verdict, mk_at, rd_at, digest_cmt, digest_chall_2, root, cmt_1, y,
                     is_signature_ok>>
  BY <1>1, NoVerdict DEF mkVars, mkResults, rdVars, rdOk, sigVars
<1> QED
  BY <1>2, <1>3, EndedStep DEF Ended, EndedNext, Digested, DigestCmt

LEMMA MerkleEnds ==
  ASSUME Parts, Ended,
         (rd_at = "committed" /\ TreeRoot) \/ TreeProof \/ ProofDamaged \/ RecomputeRoot,
         UNCHANGED <<seedVars, rdVars, sigVars>>
  PROVE  Ended'
<1>1. /\ UNCHANGED <<verdict, rd_at, digest_cmt, digest_chall_2, cmt_1, y, is_signature_ok,
                     num_seeds_published>>
  BY DEF seedVars, countVars, rdVars, rdOk, sigVars
<1>2. mk_at # "recomputed" /\ (intact' => intact)
  <2>1. CASE ProofDamaged
    BY <2>1 DEF ProofDamaged
  <2>2. CASE ~ ProofDamaged
    BY <2>2, MerklePhase, MerkleStep DEF sharedVars
  <2> QED
    BY <2>1, <2>2
<1>3. verdict = "none"
  BY <1>2, NoVerdict
<1>4. CASE rd_at = "committed" /\ TreeRoot
  BY <1>1, <1>2, <1>3, <1>4, EndedStep DEF Ended, EndedNext, Digested, PathFits
<1>5. CASE TreeProof \/ ProofDamaged \/ RecomputeRoot
  <2>1. mk_at' \notin {"commitments", "tree_root"}
    BY <1>5, MerklePhase DEF ProofDamaged
  <2>2. root'["signer"] = root["signer"]
    <3>1. UNCHANGED root \/ \E d : root' = [root EXCEPT !["verifier"] = d]
      <4>1. CASE TreeProof \/ ProofDamaged
        BY <4>1 DEF TreeProof, ProofLabel, ProofPair, ProofLevel, ProofDamaged, mkResults
      <4>2. CASE RecomputePlace \/ RecomputeTwoPairs \/ RecomputeOnePair
        BY <4>2 DEF RecomputePlace, RecomputeTwoPairs, RecomputeOnePair, mkResults
      <4>3. CASE RecomputeLevel
        BY <4>3 DEF RecomputeLevel
      <4> QED
        BY <1>5, <4>1, <4>2, <4>3 DEF RecomputeRoot
    <3>2. root = [p \in Party |-> root[p]]
      BY DEF Parts, MerkleTypeOK
    <3> QED
      BY <3>1, <3>2 DEF Party
  <2> QED
    BY <1>1, <1>2, <1>3, <2>1, <2>2, EndedStep
       DEF Ended, EndedNext, Digested, DigestCmt, PathFits
<1> QED
  BY <1>4, <1>5

LEMMA RoundsEnd ==
  ASSUME Parts, Ended,
         \/ RoundsBegin \/ CommitRound
         \/ RespondRound
         \/ ResponseDamaged
         \/ seed_at = "rebuilt" /\ VerifyRounds,
         UNCHANGED <<seedVars, mkVars, sigVars>>
  PROVE  Ended'
<1>1. /\ UNCHANGED <<verdict, mk_at, root, digest_cmt, digest_chall_2, num_seeds_published,
                     seed_at>>
  BY DEF seedVars, countVars, mkVars, mkResults, sigVars
<1>2. rd_at # "verified" /\ (intact' => intact)
  <2>1. CASE ResponseDamaged
    BY <2>1 DEF ResponseDamaged
  <2>2. CASE ~ ResponseDamaged
    BY <2>2, RoundsPhase, RoundsStep DEF SignerRounds
  <2> QED
    BY <2>1, <2>2
<1>3. verdict = "none"
  <2>1. mk_at # "recomputed"
    BY <1>2 DEF Parts, SignatureInvariant, Phases
  <2> QED
    BY <2>1, NoVerdict
<1>4. CASE RoundsBegin \/ CommitRound
  <2>1. rd_at \in {"seeds", "commit"} /\ rd_at' \in {"commit", "committed"}
    BY <1>4, RoundsPhase
  <2>2. is_signature_ok' = is_signature_ok
    BY <1>4 DEF RoundsBegin, CommitRound, rdOk
  <2> QED
    BY <1>1, <1>3, <2>1, <2>2, EndedStep DEF Ended, EndedNext, Digested
<1>5. CASE RespondRound \/ ResponseDamaged \/ VerifyRounds
  <2>1. y'["signer"] = y["signer"] /\ cmt_1'["signer"] = cmt_1["signer"]
    BY <1>5, DigestsKept DEF Parts
  <2>2. Digested
    BY <1>5, RoundsPhase DEF Digested, ResponseDamaged
  <2>3. CASE RespondRound \/ ResponseDamaged
    <3>1. rd_at \notin {"verify", "verified"} /\ is_signature_ok' = is_signature_ok
      BY <2>3, RoundsPhase DEF RespondRound, ResponseDamaged, rdOk
    <3> QED
      BY <1>1, <1>3, <2>1, <2>2, <3>1, EndedStep DEF Ended, EndedNext, DigestCmt
  <2>4. CASE seed_at = "rebuilt" /\ VerifyRounds
    <3>1. rd_at' \in {"verify", "verified"}
      BY <2>4, RoundsPhase
    <3>2. KnowsOwn /\ (intact /\ PathFits)' => is_signature_ok'
      <4>1. SUFFICES ASSUME KnowsOwn, (intact /\ PathFits)'
                     PROVE  is_signature_ok'
        OBVIOUS
      <4>2. intact /\ PathFits
        BY <1>1, <1>2, <4>1 DEF PathFits
      <4>3. is_signature_ok
        BY <4>1, <4>2 DEF Ended
      <4> QED
        BY <2>4, <4>1, <4>2, <4>3, VerifyKeepsOk
    <3> QED
      BY <1>1, <1>3, <2>1, <2>2, <3>1, <3>2, EndedStep DEF Ended, EndedNext, DigestCmt
  <2> QED
    BY <1>5, <2>3, <2>4, RoundsPhase DEF ResponseDamaged
<1> QED
  BY <1>4, <1>5

LEMMA DigestsEnd ==
  ASSUME Parts, Ended, SignDigests \/ SignChallenge
  PROVE  Ended'
<1>1. mk_at # "recomputed" \/ seed_at # "rebuilt"
  <2>1. CASE SignDigests
    BY <2>1 DEF SignDigests
  <2>2. CASE rd_at = "challenge"
    BY <2>2 DEF Parts, SignatureInvariant, Phases
  <2> QED
    BY <2>1, <2>2 DEF SignChallenge, MerkleChallenge
<1>2. verdict = "none"
  BY <1>1, NoVerdict
<1>3. CASE SignDigests
  <2>1. /\ mk_at = "challenge" /\ digest_cmt' = DigestCmt("signer")
        /\ digest_chall_2' = y'["signer"] /\ rd_at = "committed"
        /\ UNCHANGED <<mk_at, root, verdict, cmt_1, is_signature_ok>>
    BY <1>3 DEF SignDigests, Respond1, mkVars, mkResults, rdOk
  <2> QED
    BY <1>2, <2>1, EndedStep DEF Ended, EndedNext, DigestCmt
<1>4. CASE Expand /\ UNCHANGED <<seedVars, mkVars, rdVars, sharedVars, sigVars>>
  <2>1. UNCHANGED <<verdict, mk_at, rd_at, digest_cmt, digest_chall_2, root, cmt_1, y,
                    is_signature_ok, num_seeds_published, intact>>
    BY <1>4 DEF seedVars, countVars, mkVars, mkResults, rdVars, rdOk, sharedVars, sigVars
  <2> QED
    BY <1>2, <2>1, EndedStep DEF Ended, EndedNext, Digested, DigestCmt, PathFits
<1>5. CASE /\ SeedChallenge /\ MerkleChallenge /\ RoundsChallenge
           /\ UNCHANGED <<intact, sigVars>>
  <2>1. /\ mk_at' = "label_proof" /\ rd_at = "challenge"
        /\ UNCHANGED <<verdict, digest_cmt, digest_chall_2, root, is_signature_ok>>
    BY <1>5 DEF MerkleChallenge, RoundsChallenge, mkResults, rdOk, sigVars
  <2>2. y'["signer"] = y["signer"] /\ cmt_1'["signer"] = cmt_1["signer"]
    BY <1>5, DigestsKept DEF Parts
  <2> QED
    BY <1>2, <2>1, <2>2, EndedStep DEF Ended, EndedNext, Digested, DigestCmt
<1> QED
  BY <1>3, <1>4, <1>5 DEF SignChallenge

LEMMA NothingEnds ==
  ASSUME Ended, UNCHANGED vars
  PROVE  Ended'
<1>1. UNCHANGED <<verdict, mk_at, rd_at, digest_cmt, digest_chall_2, root, cmt_1, y,
                  is_signature_ok, num_seeds_published, published, intact>>
  BY DEF vars, seedVars, countVars, mkVars, mkResults, rdVars, rdOk, sharedVars, sigVars
<1> QED
  BY <1>1 DEF Ended, Digested, DigestCmt, Accepted, PathFits, ProofFits

LEMMA EndedHolds == Spec => []Ended
<1>1. Init => Ended
  BY DEF Init, RoundsInit, Ended, Digested, Accepted
<1>2. Parts /\ Ended /\ [Next]_vars => Ended'
  <2>1. SUFFICES ASSUME Parts, Ended, [Next]_vars
                 PROVE  Ended'
    OBVIOUS
  <2>2. CASE Sign
    BY <2>1, <2>2, SeedsEnd, MerkleEnds, RoundsEnd, DigestsEnd
       DEF Sign, InSeeds, InMerkle, InRounds
  <2>3. CASE Transit
    BY <2>1, <2>3, SeedsEnd, MerkleEnds, RoundsEnd
       DEF Transit, InSeeds, InMerkle, InRounds
  <2>4. CASE Verify
    BY <2>1, <2>4, SeedsEnd, MerkleEnds, RoundsEnd, VerdictAccepts
       DEF Verify, InSeeds, InMerkle, InRounds
  <2>5. CASE Returned \/ UNCHANGED vars
    BY <2>1, <2>5, NothingEnds DEF Returned
  <2> QED
    BY <2>1, <2>2, <2>3, <2>4, <2>5 DEF Next
<1> QED
  BY <1>1, <1>2, PartsHold, PTL DEF Spec

\* Completeness: CROSS_verify never rejects a signature that arrives as
\* CROSS_sign made it, for every number of rounds, every tree and every
\* challenge, provided that the stored nodes fit their buffers and that
\* is_fz_vec_in_restr_group_m knows the signer's own v_G_bar.
THEOREM SignatureAccepted ==
  ASSUME \A s : Restricted(V(s)) = TRUE
  PROVE  Spec => []Accepted
<1>1. Ended => Accepted
  BY DEF Ended, KnowsOwn
<1> QED
  BY <1>1, EndedHolds, PTL

-----------------------------------------------------------------------------
(* CROSS_verify rejects what is not as CROSS_sign made it.                 *)

\* Path, proof and responses are those CROSS_sign made, unused slots and
\* paddings included.
PathSent    == /\ StoredTo(SignerFlagTree, SignerSeedTree, path, AllNodes)
               /\ EmptyFrom(SignerFlagTree, path, AllNodes)
ProofSent   == Stored(SFlags, STree, proof, 0) /\ RestEmpty(SFlags, proof, 0)
AnswersSent ==
  \A r \in AnsweredBefore(chall_2, T) :
    /\ Got(r).y = OwnY[r] /\ Got(r).y_pad = 0
    /\ Got(r).v = V(Seed(r)) /\ Got(r).v_pad = 0
    /\ resp_1[Count(chall_2, r)] = OwnCmt1[r]
AsSent == PathSent /\ ProofSent /\ AnswersSent

\* CROSS_sign has returned.
UnderWay ==
  /\ rd_at \in {"transit", "verify", "verified"} /\ mk_at \in AtSent
  /\ seed_at = "transit" \/ seed_by = "verifier"

\* A damaged signature is not by chance what it was.
Damaged == ~ intact => UnderWay /\ ~ AsSent

\* Among the inputs the verifier gives to the CSPRNG and to the hashes there is
\* none that collides with the signer's input at the same place.
RoundsApart ==
  \A r \in Round :
    LET got  == <<Syndrome(Got(r).y, Got(r).v), Got(r).v, Got(r).v_pad>>
        sent == Input0(Y(Seed(r)), V(Seed(r)), 0)
        seed == round_seeds["verifier"][r]
    IN  /\ chall_2[r] = 0 /\ Hash(got, HashDsc(r)) = Hash(sent, HashDsc(r)) => got = sent
        /\ /\ chall_2[r] = 1
           /\ Hash(Input1(seed), HashDsc(r)) = Hash(Input1(Seed(r)), HashDsc(r))
           => Input1(seed) = Input1(Seed(r))
NoCollisions ==
  /\ SeedsApart(VerifierSeedTree, SignerSeedTree)
  /\ HashesApart(SFlags, VTree, STree, proof)
  /\ RoundsApart

\* What the verdict was made from.
Judged ==
  /\ verdict \in {"none", "ok", "rejected"}
  /\ verdict = "ok" =>
       /\ DigestCmt("verifier") = digest_cmt /\ y["verifier"] = digest_chall_2
       /\ is_mtree_padding_ok /\ is_stree_padding_ok /\ is_packed_padd_ok

\* Every slot of the responses belongs to a round that is answered.
LEMMA SlotOfAnswer ==
  ASSUME NEW c \in Challenges, NEW k \in 0 .. T-W-1
  PROVE  \E r \in AnsweredBefore(c, T) : Count(c, r) = k
<1> DEFINE S == {n \in 0 .. T : k < Count(c, n)}
<1>1. T \in S
  BY CountAll, RoundAssumption
<1>2. S \in SUBSET Nat /\ \A n \in S : n \in 0 .. T /\ k < Count(c, n)
  BY RoundAssumption
<1>3. \A n \in 0 .. T : n \notin S => Count(c, n) <= k
  <2>1. \A n \in 0 .. T : n \notin S => ~ (k < Count(c, n))
    OBVIOUS
  <2>2. \A n \in 0 .. T : Count(c, n) \in Nat
    BY FiniteBefore
  <2> QED
    BY <2>1, <2>2, RoundAssumption
<1> HIDE DEF S
<1>4. PICK n \in S : \A m \in S : n <= m
  BY <1>1, <1>2, LeastOf
<1>5. n # 0
  BY <1>2, CountNone
<1> DEFINE r == n - 1
<1>6. r \in Round /\ r \in 0 .. T /\ r + 1 = n /\ r < n
  BY <1>2, <1>5, RoundAssumption DEF Round
<1> HIDE DEF r
<1>7. Count(c, r) <= k /\ k < Count(c, r+1) /\ Count(c, r) \in Nat
  <2>1. r \notin S
    BY <1>2, <1>4, <1>6
  <2> QED
    BY <1>2, <1>3, <1>6, <2>1, FiniteBefore
<1>8. c[r] = 0 /\ Count(c, r+1) = Count(c, r) + 1
  BY <1>6, <1>7, CountNext, RoundAssumption
<1>9. Count(c, r) = k
  BY <1>7, <1>8, RoundAssumption
<1>10. r \in AnsweredBefore(c, T)
  BY <1>6, <1>8 DEF AnsweredBefore, Round
<1> QED
  BY <1>9, <1>10

\* What arrives undamaged is as it was sent.
LEMMA SentAsMade ==
  ASSUME SeedInvariant, MerkleInvariant, RoundsInvariant,
         intact, OnItsWay, mk_at \in AtSent, rd_at = "transit"
  PROVE  AsSent
<1>1. PathSent
  BY DEF SeedInvariant, Sending, PathSent
<1>2. ProofSent
  BY DEF MerkleInvariant, Made, ProofSent
<1>3. AnswersTo(T)
  BY DEF RoundsInvariant, Answering
<1>4. ASSUME NEW r \in AnsweredBefore(chall_2, T)
      PROVE  /\ Got(r).y = OwnY[r] /\ Got(r).y_pad = 0
             /\ Got(r).v = V(Seed(r)) /\ Got(r).v_pad = 0
             /\ resp_1[Count(chall_2, r)] = OwnCmt1[r]
  <2>1. r \in 0 .. T-1 /\ chall_2[r] = 0
    BY DEF AnsweredBefore
  <2>2. /\ Got(r) = Answer(OwnY[r], V(Seed(r)))
        /\ resp_1[Count(chall_2, r)] = OwnCmt1[r]
    BY <1>3, <2>1 DEF AnswersTo, Got
  <2> QED
    BY <2>2, AnswerFields
<1> QED
  BY <1>1, <1>2, <1>4 DEF AsSent, AnswersSent

LEMMA PathDamages ==
  ASSUME SeedInvariant, PathDamaged, AsSent
  PROVE  ~ AsSent'
<1>1. PICK s \in Slot, v \in Altered : v # path[s] /\ path' = [path EXCEPT ![s] = v]
  BY DEF PathDamaged
<1>2. UNCHANGED <<seed_tree, flags_tree>>
  BY DEF PathDamaged
<1>3. path'[s] # path[s]
  <2>1. path = [k \in Slot |-> path[k]]
    BY DEF SeedInvariant, SeedShape
  <2> QED
    BY <1>1, <2>1
<1>4. PathSent' => \A k \in Slot : path'[k] = path[k]
  <2>1. SUFFICES ASSUME PathSent'
                 PROVE  \A k \in Slot : path'[k] = path[k]
    OBVIOUS
  <2>2. /\ StoredTo(SignerFlagTree, SignerSeedTree, path', 2*T-1)
        /\ EmptyFrom(SignerFlagTree, path', 2*T-1)
    BY <1>2, <2>1 DEF PathSent, AllNodes, SignerFlagTree, SignerSeedTree
  <2>3. /\ StoredTo(SignerFlagTree, SignerSeedTree, path, 2*T-1)
        /\ EmptyFrom(SignerFlagTree, path, 2*T-1)
    BY DEF AsSent, PathSent, AllNodes
  <2> QED
    BY <2>2, <2>3, OnePath
<1> QED
  BY <1>3, <1>4 DEF AsSent

LEMMA ProofDamages ==
  ASSUME MerkleInvariant, ProofDamaged, AsSent
  PROVE  ~ AsSent'
<1>1. PICK s \in Slot, v \in AlteredDigest : v # proof[s] /\ proof' = [proof EXCEPT ![s] = v]
  BY DEF ProofDamaged
<1>2. UNCHANGED <<merkle_tree, computed>>
  BY DEF ProofDamaged
<1>3. proof'[s] # proof[s]
  <2>1. proof = [k \in Slot |-> proof[k]]
    BY DEF MerkleInvariant, MerkleShape
  <2> QED
    BY <1>1, <2>1
<1>4. ProofSent' => \A k \in Slot : proof'[k] = proof[k]
  <2>1. SUFFICES ASSUME ProofSent'
                 PROVE  \A k \in Slot : proof'[k] = proof[k]
    OBVIOUS
  <2>2. Stored(SFlags, STree, proof', 0) /\ RestEmpty(SFlags, proof', 0)
    BY <1>2, <2>1 DEF ProofSent, SFlags, STree
  <2>3. Stored(SFlags, STree, proof, 0) /\ RestEmpty(SFlags, proof, 0)
    BY DEF AsSent, ProofSent
  <2> QED
    BY <2>2, <2>3, OneProof
<1> QED
  BY <1>3, <1>4 DEF AsSent

LEMMA ResponseDamages ==
  ASSUME RoundsInvariant, ResponseDamaged, AsSent
  PROVE  ~ AsSent'
<1>1. PICK k \in DOMAIN resp_0 :
        \/ \E v \in AlteredValue :
             \/ v # resp_0[k].y /\ resp_0' = [resp_0 EXCEPT ![k].y = v] /\ UNCHANGED resp_1
             \/ v # resp_0[k].v /\ resp_0' = [resp_0 EXCEPT ![k].v = v] /\ UNCHANGED resp_1
             \/ v # resp_1[k] /\ resp_1' = [resp_1 EXCEPT ![k] = v] /\ UNCHANGED resp_0
        \/ resp_0' = [resp_0 EXCEPT ![k].y_pad = 1] /\ UNCHANGED resp_1
        \/ resp_0' = [resp_0 EXCEPT ![k].v_pad = 1] /\ UNCHANGED resp_1
  BY DEF ResponseDamaged
<1>2. rd_at = "transit" /\ intact /\ UNCHANGED <<chall_2, round_seeds>>
  BY DEF ResponseDamaged
<1>3. /\ resp_0 = [n \in 0 .. T-W-1 |-> resp_0[n]] /\ resp_1 = [n \in 0 .. T-W-1 |-> resp_1[n]]
      /\ chall_2 \in Challenges /\ AnswersTo(T)
  BY <1>2 DEF RoundsInvariant, Answering
<1>4. k \in 0 .. T-W-1
  BY <1>3
<1>5. PICK r \in AnsweredBefore(chall_2, T) : Count(chall_2, r) = k
  BY <1>3, <1>4, SlotOfAnswer
<1>6. resp_0[k] = Answer(OwnY[r], V(Seed(r))) /\ resp_1[k] = OwnCmt1[r]
  <2>1. r \in 0 .. T-1 /\ chall_2[r] = 0
    BY DEF AnsweredBefore
  <2> QED
    BY <1>3, <1>5, <2>1 DEF AnswersTo
<1>7. resp_0[k] = [y |-> OwnY[r], y_pad |-> 0, v |-> V(Seed(r)), v_pad |-> 0]
  BY <1>6 DEF Answer
<1>8. ASSUME AnswersSent'
      PROVE  /\ resp_0'[k].y = OwnY[r] /\ resp_0'[k].y_pad = 0
             /\ resp_0'[k].v = V(Seed(r)) /\ resp_0'[k].v_pad = 0
             /\ resp_1'[k] = OwnCmt1[r]
  <2>1. OwnY' = OwnY /\ OwnCmt1' = OwnCmt1 /\ Seed(r)' = Seed(r)
    BY <1>2 DEF OwnY, OwnCmt1, Seed
  <2>2. r \in AnsweredBefore(chall_2, T)' /\ Got(r)' = resp_0'[k]
        /\ Count(chall_2, r)' = k
    BY <1>2, <1>5 DEF Got
  <2> QED
    BY <1>8, <2>1, <2>2 DEF AnswersSent
<1>9. ~ AnswersSent'
  <2>1. SUFFICES ASSUME AnswersSent'
                 PROVE  FALSE
    OBVIOUS
  <2> HIDE DEF AnswersSent
  <2>2. resp_0'[k] = resp_0[k]
    <3>1. CASE UNCHANGED resp_0
      BY <3>1
    <3>2. ASSUME NEW v, v # resp_0[k].y, resp_0' = [resp_0 EXCEPT ![k].y = v]
          PROVE  FALSE
      <4>1. resp_0'[k].y = v
        BY <1>3, <1>4, <1>7, <3>2
      <4> QED
        BY <1>7, <1>8, <2>1, <3>2, <4>1
    <3>3. ASSUME NEW v, v # resp_0[k].v, resp_0' = [resp_0 EXCEPT ![k].v = v]
          PROVE  FALSE
      <4>1. resp_0'[k].v = v
        BY <1>3, <1>4, <1>7, <3>3
      <4> QED
        BY <1>7, <1>8, <2>1, <3>3, <4>1
    <3>4. ASSUME resp_0' = [resp_0 EXCEPT ![k].y_pad = 1]
          PROVE  FALSE
      <4>1. resp_0'[k].y_pad = 1
        BY <1>3, <1>4, <1>7, <3>4
      <4> QED
        BY <1>8, <2>1, <4>1
    <3>5. ASSUME resp_0' = [resp_0 EXCEPT ![k].v_pad = 1]
          PROVE  FALSE
      <4>1. resp_0'[k].v_pad = 1
        BY <1>3, <1>4, <1>7, <3>5
      <4> QED
        BY <1>8, <2>1, <4>1
    <3> QED
      BY <1>1, <3>1, <3>2, <3>3, <3>4, <3>5
  <2>3. PICK v : v # resp_1[k] /\ resp_1' = [resp_1 EXCEPT ![k] = v]
    <3>1. ASSUME NEW v, v # resp_0[k].y, resp_0' = [resp_0 EXCEPT ![k].y = v]
          PROVE  FALSE
      BY <1>3, <1>4, <1>7, <2>2, <3>1
    <3>2. ASSUME NEW v, v # resp_0[k].v, resp_0' = [resp_0 EXCEPT ![k].v = v]
          PROVE  FALSE
      BY <1>3, <1>4, <1>7, <2>2, <3>2
    <3>3. resp_0[k].y_pad = 0 /\ resp_0[k].v_pad = 0
      BY <1>7
    <3>4. ASSUME resp_0' = [resp_0 EXCEPT ![k].y_pad = 1]
          PROVE  FALSE
      <4>1. resp_0'[k].y_pad = 1
        BY <1>3, <1>4, <1>7, <3>4
      <4> QED
        BY <2>2, <3>3, <4>1
    <3>5. ASSUME resp_0' = [resp_0 EXCEPT ![k].v_pad = 1]
          PROVE  FALSE
      <4>1. resp_0'[k].v_pad = 1
        BY <1>3, <1>4, <1>7, <3>5
      <4> QED
        BY <2>2, <3>3, <4>1
    <3> QED
      BY <1>1, <3>1, <3>2, <3>4, <3>5
  <2>4. resp_1'[k] = v
    BY <1>3, <1>4, <2>3
  <2> QED
    BY <1>6, <1>8, <2>1, <2>3, <2>4
<1> QED
  BY <1>9 DEF AsSent

\* That is less than what is asked of ideal functions, which collide nowhere.
LEMMA IdealNeverCollide ==
  ASSUME \A a, b, d : Hash(a, d) = Hash(b, d) => a = b,
         \A a, b, c, d : Hash2(a, b) = Hash2(c, d) => a = c /\ b = d,
         \A a, b, n : Xof(a, n, 0) = Xof(b, n, 0) /\ Xof(a, n, 1) = Xof(b, n, 1) => a = b
  PROVE  NoCollisions
<1>1. SeedsApart(VerifierSeedTree, SignerSeedTree)
  BY DEF SeedsApart
<1>2. HashesApart(SFlags, VTree, STree, proof)
  BY DEF HashesApart
<1>3. RoundsApart
  BY DEF RoundsApart
<1> QED
  BY <1>1, <1>2, <1>3 DEF NoCollisions

\* What the verifier does to its own half of the arrays leaves the signature,
\* and what it was made from, alone.
LEMMA SentStays ==
  ASSUME UNCHANGED <<chall_2, path, proof, resp_0, resp_1>>,
         round_seeds'["signer"] = round_seeds["signer"],
         SignerSeedTree' = SignerSeedTree, SignerFlagTree' = SignerFlagTree,
         STree' = STree, SFlags' = SFlags
  PROVE  AsSent' <=> AsSent
<1>1. PathSent' <=> PathSent
  BY DEF PathSent, AllNodes
<1>2. ProofSent' <=> ProofSent
  BY DEF ProofSent
<1>3. OwnY' = OwnY /\ OwnCmt1' = OwnCmt1 /\ \A r : Seed(r)' = Seed(r)
  BY DEF OwnY, OwnCmt1, Seed
<1>4. AnswersSent' <=> AnswersSent
  BY <1>3 DEF AnswersSent, Got
<1> QED
  BY <1>1, <1>2, <1>4 DEF AsSent

\* A step under way.
Onward == UnderWay' /\ intact' = intact /\ (AsSent' <=> AsSent)

LEMMA SeedsOnward ==
  ASSUME SeedInvariant, UnderWay,
         SignerSeeds \/ PublishSeeds \/ SeedReceived \/ RebuildSeeds,
         UNCHANGED <<mkVars, rdVars>>
  PROVE  Onward
<1>1. /\ "signer" \in Party /\ "signer" # "verifier"
      /\ seed_tree = [p \in Party |-> seed_tree[p]]
      /\ flags_tree = [p \in Party |-> flags_tree[p]]
  BY DEF SeedInvariant, SeedShape, Party
<1>2. SeedReceived \/ (seed_by = "verifier" /\ RebuildSeeds)
  <2>1. seed_at = "transit" \/ seed_by = "verifier"
    BY DEF UnderWay
  <2>2. /\ seed_at \in {"gen_seed_tree", "seed_path", "transit"} => seed_by # "verifier"
        /\ seed_at = "rebuild_tree" => seed_by = "verifier"
    BY DEF SeedInvariant, Whose
  <2>3. ~ SignerSeeds
    BY <2>1, <2>2, SignerSeedsPhase DEF SignerSeeds, GenPair, GenLast, SeedLeaves
  <2>4. ~ PublishSeeds
    <3>1. seed_at # "transit" /\ PublishSeeds => seed_by = "signer"
      BY <2>2 DEF PublishSeeds, PathNode, PathLevel, SeedInvariant, Whose
    <3> QED
      BY <2>1, <3>1, PublishSeedsPhase
  <2>5. RebuildSeeds => seed_by = "verifier"
    BY <2>2, RebuildSeedsPhase
  <2> QED
    BY <2>3, <2>4, <2>5
<1>3. UNCHANGED <<chall_2, intact>> /\ round_seeds'["signer"] = round_seeds["signer"]
  <2>1. UNCHANGED round_seeds \/ seed_at = "seed_leaves"
    BY SeedStep
  <2> QED
    BY <1>1, <1>2, <2>1, SeedStep DEF SeedReceived
<1>4. seed_by' = "verifier"
  BY <1>2, RebuildSeedsPhase DEF SeedReceived
<1>5. path' = path /\ SignerSeedTree' = SignerSeedTree /\ SignerFlagTree' = SignerFlagTree
  <2>1. CASE SeedReceived
    BY <2>1 DEF SeedReceived, SignerSeedTree, SignerFlagTree
  <2>2. CASE seed_by = "verifier" /\ Computing
    <3>1. path' = path /\ seed_tree' = seed_tree
      BY <2>2 DEF Computing, LabelLeaves, ComputeEight, ComputePair, ComputeLevel
    <3>2. flags_tree' = flags_tree \/ \E f : flags_tree' = [flags_tree EXCEPT !["verifier"] = f]
      BY <2>2 DEF Computing, LabelLeaves, ComputeEight, ComputePair, ComputeLevel
    <3> QED
      BY <1>1, <3>1, <3>2 DEF SignerSeedTree, SignerFlagTree
  <2>3. CASE SeedLeaves \/ RebuildLevel
    BY <2>3 DEF SeedLeaves, RebuildLevel, SignerSeedTree, SignerFlagTree
  <2>4. CASE RebuildPair
    <3>1. path' = path /\ flags_tree' = flags_tree
      BY <2>4 DEF RebuildPair
    <3>2. \E t : seed_tree' = [seed_tree EXCEPT !["verifier"] = t]
      BY <2>4 DEF RebuildPair
    <3> QED
      BY <1>1, <3>1, <3>2 DEF SignerSeedTree, SignerFlagTree
  <2> QED
    BY <1>2, <2>1, <2>2, <2>3, <2>4 DEF RebuildSeeds
<1>6. UNCHANGED <<rd_at, mk_at, proof, resp_0, resp_1>> /\ STree' = STree /\ SFlags' = SFlags
  BY DEF mkVars, mkResults, rdVars, STree, SFlags
<1>7. AsSent' <=> AsSent
  BY <1>3, <1>5, <1>6, SentStays
<1> QED
  BY <1>3, <1>4, <1>6, <1>7 DEF Onward, UnderWay

LEMMA MerkleOnward ==
  ASSUME MerkleInvariant, UnderWay, TreeRoot \/ TreeProof \/ RecomputeRoot,
         UNCHANGED <<seedVars, rdVars>>
  PROVE  Onward
<1>1. /\ "signer" \in Party /\ "signer" # "verifier"
      /\ merkle_tree = [p \in Party |-> merkle_tree[p]]
      /\ computed = [p \in Party |-> computed[p]]
  BY DEF MerkleInvariant, MerkleShape, Party
<1>2. RecomputeRoot /\ mk_at' \in AtSent
  BY MerklePhase DEF UnderWay, AtSent, AtVerifying
<1>3. UNCHANGED <<chall_2, intact, round_seeds>>
  BY MerkleStep DEF sharedVars
<1>4. proof' = proof /\ STree' = STree /\ SFlags' = SFlags
  <2>1. CASE RecomputePlace
    <3>1. /\ \E t : merkle_tree' = [merkle_tree EXCEPT !["verifier"] = t]
          /\ \E f : computed' = [computed EXCEPT !["verifier"] = f]
          /\ proof' = proof
      BY <2>1 DEF RecomputePlace, mkResults
    <3> QED
      BY <1>1, <3>1 DEF STree, SFlags
  <2>2. CASE RecomputeTwoPairs
    <3>1. /\ \E a, b, d, e : merkle_tree' = [merkle_tree EXCEPT !["verifier"][a] = b,
                                                                !["verifier"][d] = e]
          /\ \E a, d : computed' = [computed EXCEPT !["verifier"][a] = 1,
                                                    !["verifier"][d] = 1]
          /\ proof' = proof
      BY <2>2 DEF RecomputeTwoPairs
    <3> QED
      BY <1>1, <3>1 DEF STree, SFlags
  <2>3. CASE RecomputeOnePair
    <3>1. /\ \/ merkle_tree' = merkle_tree
             \/ \E a, b : merkle_tree' = [merkle_tree EXCEPT !["verifier"][a] = b]
          /\ \/ computed' = computed
             \/ \E a : computed' = [computed EXCEPT !["verifier"][a] = 1]
          /\ proof' = proof
      BY <2>3 DEF RecomputeOnePair
    <3> QED
      BY <1>1, <3>1 DEF STree, SFlags
  <2>4. CASE RecomputeLevel
    BY <2>4 DEF RecomputeLevel, STree, SFlags
  <2> QED
    BY <1>2, <2>1, <2>2, <2>3, <2>4 DEF RecomputeRoot
<1>5. /\ UNCHANGED <<rd_at, seed_at, seed_by, path, resp_0, resp_1>>
      /\ SignerSeedTree' = SignerSeedTree /\ SignerFlagTree' = SignerFlagTree
  BY DEF seedVars, rdVars, SignerSeedTree, SignerFlagTree
<1>6. AsSent' <=> AsSent
  BY <1>3, <1>4, <1>5, SentStays
<1> QED
  BY <1>2, <1>3, <1>5, <1>6 DEF Onward, UnderWay

LEMMA RoundsOnward ==
  ASSUME UnderWay, RoundsBegin \/ SignerRounds \/ VerifyRounds,
         UNCHANGED <<seedVars, mkVars>>
  PROVE  Onward
<1>1. VerifyRounds /\ rd_at' \in {"verify", "verified"}
  BY RoundsPhase DEF UnderWay, SignerRounds
<1>2. UNCHANGED <<chall_2, intact, round_seeds>>
  BY RoundsStep
<1>3. UNCHANGED <<resp_0, resp_1>>
  BY <1>1 DEF VerifyRounds, VerifyBegin, VerifyPublished, VerifyAnswered, VerifierHashes
<1>4. /\ UNCHANGED <<mk_at, seed_at, seed_by, path, proof>>
      /\ SignerSeedTree' = SignerSeedTree /\ SignerFlagTree' = SignerFlagTree
      /\ STree' = STree /\ SFlags' = SFlags
  BY DEF seedVars, mkVars, mkResults, SignerSeedTree, SignerFlagTree, STree, SFlags
<1>5. AsSent' <=> AsSent
  BY <1>2, <1>3, <1>4, SentStays
<1> QED
  BY <1>1, <1>2, <1>4, <1>5 DEF Onward, UnderWay

LEMMA NothingOnward ==
  ASSUME UnderWay, UNCHANGED <<seedVars, mkVars, rdVars, sharedVars>>
  PROVE  Onward
<1>1. /\ UNCHANGED <<chall_2, intact, round_seeds, path, proof, resp_0, resp_1, rd_at,
                     mk_at, seed_at, seed_by>>
      /\ SignerSeedTree' = SignerSeedTree /\ SignerFlagTree' = SignerFlagTree
      /\ STree' = STree /\ SFlags' = SFlags
  BY DEF seedVars, mkVars, mkResults, rdVars, sharedVars, SignerSeedTree, SignerFlagTree,
         STree, SFlags
<1>2. AsSent' <=> AsSent
  BY <1>1, SentStays
<1> QED
  BY <1>1, <1>2 DEF Onward, UnderWay

\* Until it is damaged a signature stays intact.
LEMMA IntactStays ==
  ASSUME [Next]_vars, ~ Transit
  PROVE  intact' = intact
<1>1. CASE Sign
  <2>1. CASE InSeeds(SignerSeeds) \/ InSeeds(PublishSeeds)
    BY <2>1, SeedStep DEF InSeeds
  <2>2. CASE InMerkle(TreeRoot) \/ InMerkle(TreeProof)
    BY <2>2, MerkleStep DEF InMerkle, sharedVars
  <2>3. CASE InRounds(RoundsBegin) \/ InRounds(CommitRound) \/ InRounds(RespondRound)
    BY <2>3, RoundsStep DEF InRounds, SignerRounds
  <2>4. CASE SignDigests
    BY <2>4, RoundsStep DEF SignDigests, SignerRounds
  <2>5. CASE SignChallenge
    BY <2>5 DEF SignChallenge, sharedVars
  <2> QED
    BY <1>1, <2>1, <2>2, <2>3, <2>4, <2>5 DEF Sign
<1>2. CASE Verify
  <2>1. CASE InSeeds(SeedReceived) \/ InSeeds(RebuildSeeds)
    BY <2>1, SeedStep DEF InSeeds
  <2>2. CASE InMerkle(RecomputeRoot)
    BY <2>2, MerkleStep DEF InMerkle, sharedVars
  <2>3. CASE InRounds(VerifyRounds)
    BY <2>3, RoundsStep DEF InRounds
  <2>4. CASE Verdict
    BY <2>4 DEF Verdict, sharedVars
  <2> QED
    BY <1>2, <2>1, <2>2, <2>3, <2>4 DEF Verify
<1>3. CASE Returned \/ UNCHANGED vars
  BY <1>3 DEF Returned, vars, sharedVars
<1> QED
  BY <1>1, <1>2, <1>3 DEF Next

LEMMA AnyOnward ==
  ASSUME SeedInvariant, MerkleInvariant, UnderWay, [Next]_vars, ~ Transit
  PROVE  Onward
<1>1. CASE Sign
  <2>1. CASE InSeeds(SignerSeeds) \/ InSeeds(PublishSeeds)
    BY <2>1, SeedsOnward DEF InSeeds
  <2>2. CASE InMerkle(TreeRoot) \/ InMerkle(TreeProof)
    BY <2>2, MerkleOnward DEF InMerkle
  <2>3. CASE InRounds(RoundsBegin) \/ InRounds(CommitRound) \/ InRounds(RespondRound)
    BY <2>3, RoundsOnward DEF InRounds, SignerRounds
  <2>4. CASE SignDigests
    BY <2>4, RoundsOnward DEF SignDigests, SignerRounds
  <2>5. CASE Expand /\ UNCHANGED <<seedVars, mkVars, rdVars, sharedVars, sigVars>>
    BY <2>5, NothingOnward
  <2>6. ~ RoundsChallenge
    BY RoundsPhase DEF UnderWay
  <2> QED
    BY <1>1, <2>1, <2>2, <2>3, <2>4, <2>5, <2>6 DEF Sign, SignChallenge
<1>2. CASE Verify
  <2>1. CASE InSeeds(SeedReceived) \/ InSeeds(RebuildSeeds)
    BY <2>1, SeedsOnward DEF InSeeds
  <2>2. CASE InMerkle(RecomputeRoot)
    BY <2>2, MerkleOnward DEF InMerkle
  <2>3. CASE InRounds(VerifyRounds)
    BY <2>3, RoundsOnward DEF InRounds
  <2>4. CASE Verdict
    BY <2>4, NothingOnward DEF Verdict
  <2> QED
    BY <1>2, <2>1, <2>2, <2>3, <2>4 DEF Verify
<1>3. CASE Returned \/ UNCHANGED vars
  <2>1. UNCHANGED vars
    BY <1>3 DEF Returned
  <2>2. UNCHANGED <<seedVars, mkVars, rdVars, sharedVars>>
    BY <2>1 DEF vars
  <2> QED
    BY <2>2, NothingOnward
<1> QED
  BY <1>1, <1>2, <1>3 DEF Next

LEMMA TransitDamages ==
  ASSUME SignatureInvariant, SeedInvariant, MerkleInvariant, RoundsInvariant, Transit
  PROVE  Damaged'
<1>1. seed_at = "transit" /\ rd_at = "transit" /\ mk_at = "transit"
  BY DEF Transit, InTransit, SignatureInvariant, Phases
<1>2. intact
  BY DEF Transit, InSeeds, InMerkle, InRounds, PathDamaged, ProofDamaged, ResponseDamaged
<1>3. AsSent
  BY <1>1, <1>2, SentAsMade DEF OnItsWay, AtSent
<1>4. ~ AsSent'
  BY <1>3, PathDamages, ProofDamages, ResponseDamages
     DEF Transit, InSeeds, InMerkle, InRounds
<1>5. UNCHANGED <<seed_at, rd_at, mk_at>>
  <2>1. CASE InSeeds(PathDamaged)
    BY <2>1 DEF InSeeds, PathDamaged, mkVars, rdVars
  <2>2. CASE InMerkle(ProofDamaged)
    BY <2>2 DEF InMerkle, ProofDamaged, seedVars, rdVars
  <2>3. CASE InRounds(ResponseDamaged)
    BY <2>3 DEF InRounds, ResponseDamaged, seedVars, mkVars
  <2> QED
    BY <2>1, <2>2, <2>3 DEF Transit
<1>6. UnderWay'
  BY <1>1, <1>5 DEF UnderWay, AtSent
<1> QED
  BY <1>4, <1>6 DEF Damaged

LEMMA DamagedHolds == Spec => []Damaged
<1>1. Init => Damaged
  BY DEF Init, Damaged
<1>2. SignatureInvariant /\ SeedInvariant /\ MerkleInvariant /\ RoundsInvariant
      /\ Damaged /\ [Next]_vars => Damaged'
  <2>1. SUFFICES ASSUME SignatureInvariant, SeedInvariant, MerkleInvariant, RoundsInvariant,
                        Damaged, [Next]_vars
                 PROVE  Damaged'
    OBVIOUS
  <2>2. CASE Transit
    BY <2>1, <2>2, TransitDamages
  <2>3. CASE ~ Transit /\ intact
    BY <2>1, <2>3, IntactStays DEF Damaged
  <2>4. CASE ~ Transit /\ ~ intact
    <3>1. UnderWay /\ ~ AsSent
      BY <2>1, <2>4 DEF Damaged
    <3>2. Onward
      BY <2>1, <2>4, <3>1, AnyOnward
    <3> QED
      BY <3>1, <3>2 DEF Damaged, Onward
  <2> QED
    BY <2>2, <2>3, <2>4
<1> QED
  BY <1>1, <1>2, SignatureInvariantHolds, SignatureImplementsParts, SeedInvariantHolds,
     MerkleInvariantHolds, RoundsInvariantHolds, PTL DEF Spec, ImplementsParts

\* After the verdict nothing happens any more.
LEMMA VerdictIsLast ==
  ASSUME Parts, Ended, verdict # "none", [Next]_vars
  PROVE  UNCHANGED vars
<1>1. mk_at = "recomputed" /\ rd_at = "verified" /\ seed_at = "rebuilt"
  BY DEF Ended, Parts, SignatureInvariant, Phases
<1>2. ~ Sign
  <2>1. ~ InSeeds(SignerSeeds) /\ ~ InSeeds(PublishSeeds)
    BY <1>1, PublishSeedsPhase DEF InSeeds, SignerSeeds, GenPair, GenLast, SeedLeaves
  <2>2. ~ InMerkle(TreeRoot) /\ ~ InMerkle(TreeProof)
    BY <1>1, MerklePhase DEF InMerkle
  <2>3. ~ RoundsBegin /\ ~ CommitRound /\ ~ RespondRound /\ ~ RoundsChallenge /\ ~ Respond1
    BY <1>1, RoundsPhase
  <2> QED
    BY <1>1, <2>1, <2>2, <2>3 DEF Sign, InRounds, SignDigests, SignChallenge
<1>3. ~ Transit
  BY <1>1 DEF Transit, InTransit
<1>4. ~ Verify
  <2>1. ~ InSeeds(RebuildSeeds)
    BY <1>1, RebuildSeedsPhase DEF InSeeds
  <2>2. ~ InMerkle(RecomputeRoot)
    BY <1>1, MerklePhase DEF InMerkle
  <2>3. ~ InRounds(VerifyRounds)
    BY <1>1, RoundsPhase DEF InRounds
  <2> QED
    BY <1>1, <2>1, <2>2, <2>3 DEF Verify, Verdict, InTransit
<1> QED
  BY <1>2, <1>3, <1>4 DEF Next, Returned

LEMMA JudgedHolds == Spec => []Judged
<1>1. Init => Judged
  BY DEF Init, Judged
<1>2. Parts /\ Ended /\ Judged /\ [Next]_vars => Judged'
  <2>1. SUFFICES ASSUME Parts, Ended, Judged, [Next]_vars
                 PROVE  Judged'
    OBVIOUS
  <2>2. CASE verdict # "none"
    <3>1. UNCHANGED vars
      BY <2>1, <2>2, VerdictIsLast
    <3>2. UNCHANGED <<verdict, digest_cmt, digest_chall_2, root, cmt_1, y,
                      is_mtree_padding_ok, is_stree_padding_ok, is_packed_padd_ok>>
      BY <3>1 DEF vars, seedVars, countVars, mkVars, mkResults, rdVars, rdOk, sigVars
    <3> QED
      BY <2>1, <3>2 DEF Judged, DigestCmt
  <2>3. CASE Verdict
    <3>1. UNCHANGED <<seedVars, mkVars, rdVars, digest_cmt, digest_chall_2>>
      BY <2>3 DEF Verdict
    <3>2. UNCHANGED <<digest_cmt, digest_chall_2, root, cmt_1, y,
                      is_mtree_padding_ok, is_stree_padding_ok, is_packed_padd_ok>>
      BY <3>1 DEF seedVars, countVars, mkVars, mkResults, rdVars, rdOk
    <3>3. \/ verdict' = "rejected"
          \/ /\ verdict' = "ok"
             /\ DigestCmt("verifier") = digest_cmt /\ y["verifier"] = digest_chall_2
             /\ is_mtree_padding_ok /\ is_stree_padding_ok /\ is_packed_padd_ok
      BY <2>3 DEF Verdict
    <3>4. DigestCmt("verifier")' = DigestCmt("verifier")
      BY <3>2 DEF DigestCmt
    <3>5. CASE verdict' = "rejected"
      BY <3>5 DEF Judged
    <3>6. CASE verdict' = "ok"
      BY <3>2, <3>3, <3>4, <3>6 DEF Judged
    <3> QED
      BY <3>3, <3>5, <3>6
  <2>4. CASE verdict = "none" /\ ~ Verdict
    <3>1. verdict' = verdict
      <4>1. CASE Sign
        BY <4>1 DEF Sign, InSeeds, InMerkle, InRounds, SignDigests, SignChallenge, sigVars
      <4>2. CASE Transit \/ Verify
        BY <2>4, <4>2 DEF Transit, Verify, InSeeds, InMerkle, InRounds, sigVars
      <4>3. CASE Returned \/ UNCHANGED vars
        BY <4>3 DEF Returned, vars, sigVars
      <4> QED
        BY <2>1, <4>1, <4>2, <4>3 DEF Next
    <3> QED
      BY <2>4, <3>1 DEF Judged
  <2> QED
    BY <2>2, <2>3, <2>4
<1> QED
  BY <1>1, <1>2, PartsHold, EndedHolds, PTL DEF Spec

\* What CROSS_verify accepts is, for want of collisions, what CROSS_sign made:
\* from the root down the proof and the commitments, from those the answers
\* and the published seeds, from those the path.
LEMMA OkMeansSent ==
  ASSUME Parts, MerkleInvariant, Ended, Judged, NoCollisions, verdict = "ok"
  PROVE  AsSent
<1>1. /\ mk_at = "recomputed" /\ rd_at = "verified"
      /\ seed_at = "rebuilt" /\ seed_by = "verifier"
  <2>1. mk_at = "recomputed" /\ rd_at = "verified" /\ seed_at = "rebuilt"
    BY DEF Ended, Parts, SignatureInvariant, Phases
  <2> QED
    BY <2>1 DEF Parts, SeedInvariant, Whose
<1>2. /\ root["verifier"] = root["signer"] /\ cmt_1["verifier"] = cmt_1["signer"]
      /\ y["verifier"] = y["signer"]
      /\ is_mtree_padding_ok /\ is_stree_padding_ok /\ is_packed_padd_ok
  <2>1. DigestCmt("verifier") = DigestCmt("signer")
    BY <1>1 DEF Judged, Ended, Digested
  <2> QED
    BY <1>1, <2>1 DEF Judged, Ended, Digested, DigestCmt
<1>3. /\ cmt_0["signer"] = OwnCmt0 /\ cmt_1["signer"] = OwnCmt1 /\ y["signer"] = OwnY
      /\ \A r \in Round : chall_2[r] \in 0..1
  BY <1>1 DEF Parts, RoundsInvariant, Committed, Answering, Challenges
<1>4. /\ PadsOk(T)
      /\ \A r \in Round : y["verifier"][r] = SeenY[r] /\ cmt_1["verifier"][r] = SeenCmt1[r]
      /\ \A r \in AnsweredBefore(chall_2, T) : cmt_0["verifier"][r] = SeenCmt0[r]
  <2>1. VerifiedTo(T) /\ queue_0.to_hash = 0 /\ queue_1.to_hash = 0
    BY <1>1 DEF Parts, RoundsInvariant, Verifying
  <2> QED
    BY <1>2, <2>1 DEF VerifiedTo, Holds, Round
\* The proof.
<1>5. /\ Stored(SFlags, STree, proof, 0)
      /\ \A r \in Round : chall_2[r] = 0 => cmt_0["verifier"][r] = cmt_0["signer"][r]
  <2>1. SFlags \in Flags
    BY DEF MerkleInvariant, MerkleShape, SFlags, Party
  <2>2. LeafFlags(SFlags) /\ OrFrom(SFlags, 0) /\ SFlags[0] = 1
    BY <1>1 DEF MerkleInvariant, Made, AtSent, AtVerifying
  <2>3. Leaves(STree, Cmt) /\ HashedFrom(STree, 0) /\ root["signer"] = STree[0]
    BY <1>1 DEF MerkleInvariant, Rooted
  <2>4. /\ Leaves(VTree, cmt_0["verifier"]) /\ Rehashed(SFlags, VTree, proof, 0)
        /\ root["verifier"] = VTree[0]
    BY <1>1 DEF MerkleInvariant, Recomputed
  <2>5. HashesApart(SFlags, VTree, STree, proof) /\ VTree[0] = STree[0]
    BY <1>2, <2>3, <2>4 DEF NoCollisions
  <2>6. /\ Stored(SFlags, STree, proof, 0)
        /\ \A r \in Round : chall_2[r] = 0 => VTree[LeafNode[r]] = STree[LeafNode[r]]
    BY <2>1, <2>2, <2>3, <2>4, <2>5, DigestsMatch
  <2> QED
    BY <2>3, <2>4, <2>6 DEF Leaves, Cmt
<1>6. ProofSent
  BY <1>1, <1>2, <1>5 DEF MerkleInvariant, Recomputed, ProofSent
\* The answers.
<1>7. AnswersSent
  <2>1. SUFFICES ASSUME NEW r \in AnsweredBefore(chall_2, T)
                 PROVE  /\ Got(r).y = OwnY[r] /\ Got(r).y_pad = 0
                        /\ Got(r).v = V(Seed(r)) /\ Got(r).v_pad = 0
                        /\ resp_1[Count(chall_2, r)] = OwnCmt1[r]
    BY DEF AnswersSent
  <2>2. r \in Round /\ chall_2[r] = 0
    BY DEF AnsweredBefore, Round
  <2>3. Got(r).y_pad = 0 /\ Got(r).v_pad = 0
    BY <1>4 DEF PadsOk
  <2>4. Got(r).y = OwnY[r]
    BY <1>2, <1>3, <1>4, <2>2 DEF SeenY
  <2>5. resp_1[Count(chall_2, r)] = OwnCmt1[r]
    BY <1>2, <1>3, <1>4, <2>2 DEF SeenCmt1
  <2>6. Got(r).v = V(Seed(r))
    <3> DEFINE got  == <<Syndrome(Got(r).y, Got(r).v), Got(r).v, Got(r).v_pad>>
               sent == Input0(Y(Seed(r)), V(Seed(r)), 0)
    <3>1. SeenCmt0[r] = OwnCmt0[r]
      BY <1>3, <1>4, <1>5, <2>2
    <3>2. Hash(got, HashDsc(r)) = Hash(sent, HashDsc(r))
      BY <2>2, <3>1 DEF SeenCmt0, OwnCmt0
    <3>3. got = sent
      BY <2>2, <3>2 DEF NoCollisions, RoundsApart
    <3> QED
      BY <3>3 DEF Input0
  <2> QED
    BY <2>3, <2>4, <2>5, <2>6
\* The path.
<1>8. ASSUME NEW r \in Round, chall_2[r] = 1
      PROVE  VerifierSeedTree[LeafNode[r]] = SignerSeedTree[LeafNode[r]]
  <2> DEFINE seed == round_seeds["verifier"][r]
  <2>1. SeenCmt1[r] = OwnCmt1[r]
    BY <1>2, <1>3, <1>4
  <2>2. Hash(Input1(seed), HashDsc(r)) = Hash(Input1(Seed(r)), HashDsc(r))
    BY <1>8, <2>1 DEF SeenCmt1, OwnCmt1
  <2>3. Input1(seed) = Input1(Seed(r))
    BY <1>8, <2>2 DEF NoCollisions, RoundsApart
  <2>4. seed = Seed(r)
    BY <2>3 DEF Input1
  <2>5. /\ round_seeds["verifier"] = [q \in Round |-> VerifierSeedTree[LeafNode[q]]]
        /\ round_seeds["signer"] = [q \in Round |-> SignerSeedTree[LeafNode[q]]]
    BY <1>1 DEF Parts, SeedInvariant, Rebuilding, Growing
  <2> QED
    BY <2>4, <2>5 DEF Seed
<1>9. PathSent
  <2>1. SignerFlagTree \in FlagArrays
    BY DEF Parts, SeedInvariant, SeedShape, SignerFlagTree, Party
  <2>2. /\ AndOn(SignerFlagTree, InnerNode) /\ LeavesFlagged(SignerFlagTree)
        /\ ExpandedTo(SignerSeedTree, 2*T-1)
    BY <1>1 DEF Parts, SeedInvariant, Marked, Published, Growing, AllNodes
  <2>3. /\ Grown(SignerFlagTree, VerifierSeedTree, path, 2*T-1, 2*T-1)
        /\ EmptyFrom(SignerFlagTree, path, AllNodes)
    BY <1>1, <1>2 DEF Parts, SeedInvariant, Rebuilding, Rebuilt, AllNodes
  <2>4. SeedsApart(VerifierSeedTree, SignerSeedTree)
    BY DEF NoCollisions
  <2>5. StoredTo(SignerFlagTree, SignerSeedTree, path, 2*T-1)
    BY <1>8, <2>1, <2>2, <2>3, <2>4, SeedsMatch
  <2> QED
    BY <2>3, <2>5 DEF PathSent, AllNodes
<1> QED
  BY <1>6, <1>7, <1>9 DEF AsSent

\* Soundness: CROSS_verify accepts no signature of which a slot of the path, of
\* the proof or of the responses, in use or not, or a padding was changed on
\* the way, unless the CSPRNG or a hash collides.
THEOREM SignatureRejected == Spec => [](NoCollisions /\ verdict = "ok" => intact)
<1>1. Parts /\ MerkleInvariant /\ Ended /\ Judged /\ Damaged =>
        (NoCollisions /\ verdict = "ok" => intact)
  BY OkMeansSent DEF Damaged
<1> QED
  BY <1>1, PartsHold, SignatureImplementsParts, MerkleInvariantHolds, EndedHolds,
     JudgedHolds, DamagedHolds, PTL DEF ImplementsParts

\* CROSS_verify accepts a signature exactly when it arrives as CROSS_sign made
\* it, for every number of rounds, every tree and every challenge, when the
\* nodes of the worst challenge fit the buffers and is_fz_vec_in_restr_group_m
\* knows the signer's own v_G_bar, unless the CSPRNG or a hash collides.
THEOREM SignatureVerdictRight ==
  ASSUME \A s : Restricted(V(s)) = TRUE,
         NEW row, WorstRows(row), row[<<0, 0>>][T-W] <= NodesToStore
  PROVE  Spec => [](NoCollisions => VerdictRight)
<1>1. Spec => []Accepted
  BY SignatureAccepted
<1>2. Spec => [](PathFits /\ ProofFits)
  BY SignatureBuffersSuffice
<1>3. /\ Accepted /\ PathFits /\ ProofFits /\ Judged /\ SeedInvariant
      /\ (NoCollisions /\ verdict = "ok" => intact)
      => (NoCollisions => VerdictRight)
  BY DEF Accepted, Judged, SeedInvariant, SeedShape, VerdictRight
<1> QED
  BY <1>1, <1>2, <1>3, SignatureRejected, JudgedHolds, SignatureImplementsParts,
     SeedInvariantHolds, PTL DEF ImplementsParts
================================================================================
