---------------------------- MODULE CrossSignature ----------------------------
(***************************************************************************)
(* One signature of CROSS from CROSS_sign to CROSS_verify: the seed tree,  *)
(* the rounds, the Merkle tree and the challenge composed in the order in  *)
(* which CROSS.c calls them.  On its way the signature may be damaged in   *)
(* one place.  The keys and the message are the same on both sides, and    *)
(* so are the first challenge and the second, which both sides derive from *)
(* the digests in the signature.                                           *)
(***************************************************************************)
EXTENDS CrossSeedTree, CrossMerkle, CrossRounds, CrossChallenge

VARIABLES
  digest_cmt,     \* sig->digest_cmt: the hash of the two digests d_0 and d_1
  digest_chall_2, \* sig->digest_chall_2: the hash of all first responses
  verdict         \* what CROSS_verify returns

sigVars == <<digest_cmt, digest_chall_2, verdict>>
vars    == <<seedVars, mkVars, rdVars, fwVars, sharedVars, sigVars>>

Init ==
  /\ SeedInit /\ MerkleInit /\ RoundsInit /\ ChallengeInit
  /\ chall_2 = [r \in Round |-> 0] /\ intact = TRUE
  /\ digest_cmt = <<>> /\ digest_chall_2 = <<>> /\ verdict = "none"

-----------------------------------------------------------------------------
(* A step of one part, called where CROSS.c calls it.                      *)

InSeeds(A)  == A /\ UNCHANGED <<mkVars, rdVars, fwVars, sigVars>>
InMerkle(A) == A /\ UNCHANGED <<seedVars, rdVars, fwVars, sigVars>>
InRounds(A) == A /\ UNCHANGED <<seedVars, mkVars, fwVars, sigVars>>

\* d_0 is the root over cmt_0 and d_1 the hash of cmt_1.
DigestCmt(p) == <<root[p], cmt_1[p]>>

\* The first challenge hangs on digest_cmt, and the second on all y.
SignDigests ==
  /\ mk_at = "challenge" /\ Respond1
  /\ digest_cmt' = DigestCmt("signer")
  /\ digest_chall_2' = y'["signer"]
  /\ UNCHANGED <<seedVars, mkVars, fwVars, verdict>>

SignChallenge ==
  \/ /\ rd_at = "challenge" /\ Expand
     /\ UNCHANGED <<seedVars, mkVars, rdVars, sharedVars, sigVars>>
  \/ /\ fw_at = "returned" /\ SeedChallenge /\ MerkleChallenge /\ RoundsChallenge
     /\ chall_2' = fixed_weight_string
     /\ UNCHANGED <<round_seeds, cmt_0, intact, fwVars, sigVars>>

Sign ==
  \/ InSeeds(SignerSeeds)
  \/ seed_at = "challenge" /\ InRounds(RoundsBegin)
  \/ InRounds(CommitRound)
  \/ rd_at = "committed" /\ InMerkle(TreeRoot)
  \/ SignDigests
  \/ SignChallenge
  \/ InMerkle(TreeProof)
  \/ mk_at = "transit" /\ InSeeds(PublishSeeds)
  \/ seed_at = "transit" /\ InRounds(RespondRound)

InTransit == seed_at = "transit" /\ rd_at = "transit"

Transit ==
  /\ InTransit
  /\ InSeeds(PathDamaged) \/ InMerkle(ProofDamaged) \/ InRounds(ResponseDamaged)

\* Mutant: the rest of the proof is not looked at.
VerdictWithoutPadding ==
  /\ mk_at = "recomputed" /\ verdict = "none"
  /\ verdict' = IF /\ is_signature_ok
                   /\ DigestCmt("verifier") = digest_cmt
                   /\ y["verifier"] = digest_chall_2
                   /\ is_stree_padding_ok /\ is_packed_padd_ok
                THEN "ok" ELSE "rejected"
  /\ UNCHANGED <<seedVars, mkVars, rdVars, fwVars, sharedVars, digest_cmt,
                 digest_chall_2>>

Verdict ==
  /\ mk_at = "recomputed" /\ verdict = "none"
  /\ verdict' = IF /\ is_signature_ok
                   /\ DigestCmt("verifier") = digest_cmt
                   /\ y["verifier"] = digest_chall_2
                   /\ is_mtree_padding_ok /\ is_stree_padding_ok
                   /\ is_packed_padd_ok
                THEN "ok" ELSE "rejected"
  /\ UNCHANGED <<seedVars, mkVars, rdVars, fwVars, sharedVars, digest_cmt,
                 digest_chall_2>>

\* Mutant: the root is recomputed while rounds are still verified.
VerifyRootEarly ==
  \/ InTransit /\ InSeeds(SeedReceived)
  \/ InSeeds(RebuildSeeds)
  \/ seed_at = "rebuilt" /\ InRounds(VerifyRounds)
  \/ rd_at = "verify" /\ InMerkle(RecomputeRoot)
  \/ Verdict

Verify ==
  \/ InTransit /\ InSeeds(SeedReceived)
  \/ InSeeds(RebuildSeeds)
  \/ seed_at = "rebuilt" /\ InRounds(VerifyRounds)
  \/ rd_at = "verified" /\ InMerkle(RecomputeRoot)
  \/ Verdict

\* CROSS_verify has returned.
Returned == verdict # "none" /\ UNCHANGED vars

Next == Sign \/ Transit \/ Verify \/ Returned

Spec == Init /\ [][Next]_vars

\* Both functions run until they return; a damage may or may not happen.
FairSpec == Spec /\ WF_vars(Sign \/ Verify)

-----------------------------------------------------------------------------
(* Properties.                                                             *)

TypeOK == SeedTypeOK /\ MerkleTypeOK /\ RoundsTypeOK

\* The composition is made of its parts: seen from seedtree.c, merkle.c and
\* the loops over the rounds, CROSS_sign and CROSS_verify are callers as
\* each of them expects; none hands its data on before it is complete, and
\* none touches what another is working on.
ImplementsParts == SeedTreeSpec /\ MerkleTreeSpec /\ RoundsSpec

\* CROSS_verify accepts a signature that arrives as CROSS_sign made it, for
\* every challenge, and rejects it when any one slot of the path, of the
\* proof or of the responses, in use or not, or any padding was changed.
\* That holds although a wrong padding leaves y and v_G_bar uninitialised.
VerdictRight == verdict # "none" => (verdict = "ok" <=> intact)

\* Path and proof use equally many slots, which is why one TREE_NODES_TO_STORE
\* does for both buffers.
SameNumber ==
  rd_at = "transit" => num_seeds_published = published["signer"]

\* CROSS_sign and CROSS_verify return: the shuffle rejects draws only as long
\* as it has random bits.
Completes == <>(verdict # "none")
===============================================================================
