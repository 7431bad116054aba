----------------------------- MODULE CrossMerkle -----------------------------
(***************************************************************************)
(* merkle.c of CROSS with OQS_ENABLE_SVE2.  The signer hashes the          *)
(* commitments cmt_0 of all rounds into a root (tree_root) and later sends *)
(* the nodes the verifier cannot compute (tree_proof); the verifier knows  *)
(* cmt_0 of the rounds whose challenge is 0 and computes the root from     *)
(* those and the proof (recompute_root).  As on the seed path, a node of   *)
(* the proof is known by its place only: the two sides must meet the nodes *)
(* in the same order, from the leaves up and from right to left, although  *)
(* tree_root and recompute_root take two pairs of siblings at a time when  *)
(* they can.                                                               *)
(***************************************************************************)
EXTENDS CrossTree

CONSTANTS
  Hash2(_, _),  \* hash of two digests under HASH_DOMAIN_SEP_CONST
  NoDigest,     \* the slot of a cleared buffer
  Unset,        \* what a node of the uninitialised array "tree" holds
  AlteredDigest \* what a slot may hold when it was changed on the way

VARIABLES
  mk_at,         \* the function that runs, or what CROSS waits for
  mk_level, mk_i, mk_start,
  merkle_tree,   \* the array "tree" of each side
  computed,      \* flag_tree of tree_proof and of recompute_root
  root,          \* what tree_root and recompute_root return
  proof,         \* sig->proof
  published,     \* how many slots of it each side has gone through
  is_mtree_padding_ok

mkLoop    == <<mk_level, mk_i, mk_start>>
mkResults == <<root, proof, published, is_mtree_padding_ok>>
mkVars    == <<mk_at, mkLoop, merkle_tree, computed, mkResults>>

-----------------------------------------------------------------------------
(* Helpers.  mk_start + mk_i is the left node of the pair at hand.         *)

MerkleInit ==
  /\ mk_at = "commitments"
  /\ mk_level = 0 /\ mk_i = 0 /\ mk_start = 0
  /\ merkle_tree = [p \in Party |-> [n \in Node |-> Unset]]
  /\ computed = [p \in Party |-> [n \in Node |-> 0]]
  /\ root = [p \in Party |-> NoDigest]
  /\ proof = [s \in Slot |-> NoDigest]
  /\ published = [p \in Party |-> 0]
  /\ is_mtree_padding_ok = FALSE

\* place_cmt_on_leaves, on an array nothing was written to.
Placed(cmt) ==
  [n \in Node |-> IF \E r \in Round : LeafNode[r] = n
                  THEN cmt[CHOOSE r \in Round : LeafNode[r] = n] ELSE Unset]

\* label_leaves: the leaves whose challenge is CHALLENGE_PROOF_VALUE.
Labelled ==
  [n \in Node |-> IF \E r \in Round : LeafNode[r] = n /\ chall_2[r] = 0
                  THEN 1 ELSE 0]

\* Every loop starts at the right end of the lowest level ...
FromTheLeaves ==
  /\ mk_level' = LOG2T /\ mk_i' = npl[LOG2T] - 2 /\ mk_start' = LeafStart[1]

\* ... and goes on at the right end of the next one.
NextLevelUp ==
  /\ mk_level' = mk_level - 1
  /\ mk_i' = npl[mk_level - 1] - 2
  /\ mk_start' = mk_start - npl[mk_level - 1]

\* The father of the pair whose left node is n becomes its hash; the two
\* lie next to each other and are hashed in one piece.
Hashed(tree, n) ==
  [tree EXCEPT ![Father(mk_level, n)] = Hash2(tree[n], tree[n + 1])]

\* One of the two siblings at least is computed.
Needed(flags, n) == flags[n] = 1 \/ flags[SIBLING(n)] = 1

\* One half of the input of a hash: the node if it is computed, otherwise
\* the next digest of the proof.
Taken(st, n) ==
  IF computed["verifier"][n] = 1
  THEN [input |-> Append(st.input, merkle_tree["verifier"][n]), used |-> st.used]
  ELSE [input |-> Append(st.input, proof[st.used]), used |-> st.used + 1]

\* Both halves of the input for the father of n, after "used" slots.
Input(n, used) == Taken(Taken([input |-> <<>>, used |-> used], n), SIBLING(n))

-----------------------------------------------------------------------------
(* tree_root.  Its array is the one tree_proof reads.                      *)

RootPlace ==
  /\ mk_at = "commitments"
  /\ mk_at' = "tree_root"
  /\ merkle_tree' = [merkle_tree EXCEPT !["signer"] = Placed(cmt_0["signer"])]
  /\ FromTheLeaves
  /\ UNCHANGED <<computed, mkResults, sharedVars>>

RootTwoPairs ==
  /\ mk_at = "tree_root" /\ mk_i >= 2
  /\ merkle_tree' = [merkle_tree EXCEPT !["signer"] =
       Hashed(Hashed(@, mk_start + mk_i), mk_start + (mk_i - 2))]
  /\ mk_i' = mk_i - 4
  /\ UNCHANGED <<mk_at, mk_level, mk_start, computed, mkResults, sharedVars>>

\* Mutant: the pair that is left is forgotten.
RootLastPairForgotten ==
  /\ mk_at = "tree_root" /\ mk_i < 2
  /\ IF mk_level > 1
     THEN UNCHANGED <<mk_at, root>>
     ELSE /\ mk_at' = "challenge"
          /\ root' = [root EXCEPT !["signer"] = merkle_tree["signer"][0]]
  /\ NextLevelUp
  /\ UNCHANGED <<merkle_tree, computed, proof, published, is_mtree_padding_ok,
                 sharedVars>>

\* The pair that is left at the left end, if any, and the next level up.
RootLastPair ==
  /\ mk_at = "tree_root" /\ mk_i < 2
  /\ LET tree == IF mk_i = 0 THEN Hashed(merkle_tree["signer"], mk_start)
                             ELSE merkle_tree["signer"]
     IN  /\ merkle_tree' = [merkle_tree EXCEPT !["signer"] = tree]
         /\ IF mk_level > 1
            THEN UNCHANGED <<mk_at, root>>
            ELSE mk_at' = "challenge" /\ root' = [root EXCEPT !["signer"] = tree[0]]
  /\ NextLevelUp
  /\ UNCHANGED <<computed, proof, published, is_mtree_padding_ok, sharedVars>>

\* Between the functions: CROSS_sign has the second challenge.
MerkleChallenge ==
  /\ mk_at = "challenge"
  /\ mk_at' = "label_proof"
  /\ UNCHANGED <<mkLoop, merkle_tree, computed, mkResults>>

-----------------------------------------------------------------------------
(* tree_proof.                                                             *)

ProofLabel ==
  /\ mk_at = "label_proof"
  /\ computed' = [computed EXCEPT !["signer"] = Labelled]
  /\ FromTheLeaves
  /\ mk_at' = "tree_proof"
  /\ UNCHANGED <<merkle_tree, mkResults, sharedVars>>

ProofPair ==
  /\ mk_at = "tree_proof" /\ mk_i >= 0
  /\ LET n    == mk_start + mk_i
         flag == computed["signer"]
         m    == IF flag[n] = 0 THEN n ELSE SIBLING(n)
     IN  /\ computed' = [computed EXCEPT !["signer"][Father(mk_level, n)] =
                           IF Needed(flag, n) THEN 1 ELSE 0]
         /\ IF flag[n] # flag[SIBLING(n)]
            THEN /\ proof' = [proof EXCEPT ![published["signer"]] =
                                merkle_tree["signer"][m]]
                 /\ published' = [published EXCEPT !["signer"] = @ + 1]
            ELSE UNCHANGED <<proof, published>>
  /\ mk_i' = mk_i - 2
  /\ UNCHANGED <<mk_at, mk_level, mk_start, merkle_tree, root,
                 is_mtree_padding_ok, sharedVars>>

ProofLevel ==
  /\ mk_at = "tree_proof" /\ mk_i < 0
  /\ NextLevelUp
  /\ mk_at' = IF mk_level > 1 THEN mk_at ELSE "transit"
  /\ UNCHANGED <<merkle_tree, computed, mkResults, sharedVars>>

-----------------------------------------------------------------------------
(* The signature on its way, and recompute_root.                           *)

\* A slot of the proof, used or not, arrives with another value.
ProofDamaged ==
  /\ mk_at = "transit" /\ intact
  /\ \E s \in Slot, v \in AlteredDigest :
       v # proof[s] /\ proof' = [proof EXCEPT ![s] = v]
  /\ intact' = FALSE
  /\ UNCHANGED <<mk_at, mkLoop, merkle_tree, computed, root, published,
                 is_mtree_padding_ok, chall_2, round_seeds, cmt_0>>

\* CROSS_verify calls recompute_root.
RecomputePlace ==
  /\ mk_at = "transit"
  /\ mk_at' = "recompute_root"
  /\ merkle_tree' = [merkle_tree EXCEPT !["verifier"] = Placed(cmt_0["verifier"])]
  /\ computed' = [computed EXCEPT !["verifier"] = Labelled]
  /\ FromTheLeaves
  /\ UNCHANGED <<mkResults, sharedVars>>

BothNeeded ==
  /\ mk_i >= 2
  /\ Needed(computed["verifier"], mk_start + mk_i)
  /\ Needed(computed["verifier"], mk_start + (mk_i - 2))

\* Mutant: the left pair goes through the proof first.
RecomputeTwoPairsLeftFirst ==
  /\ mk_at = "recompute_root" /\ mk_i >= 0 /\ BothNeeded
  /\ LET n1  == mk_start + mk_i
         n2  == mk_start + (mk_i - 2)
         st2 == Input(n2, published["verifier"])
         st1 == Input(n1, st2.used)
     IN  /\ merkle_tree' = [merkle_tree EXCEPT
              !["verifier"][Father(mk_level, n1)] = Hash2(st1.input[1], st1.input[2]),
              !["verifier"][Father(mk_level, n2)] = Hash2(st2.input[1], st2.input[2])]
         /\ computed' = [computed EXCEPT !["verifier"][Father(mk_level, n1)] = 1,
                                         !["verifier"][Father(mk_level, n2)] = 1]
         /\ published' = [published EXCEPT !["verifier"] = st1.used]
  /\ mk_i' = mk_i - 4
  /\ UNCHANGED <<mk_at, mk_level, mk_start, root, proof, is_mtree_padding_ok,
                 sharedVars>>

\* Two pairs that both have a computed node: the halves of the right pair
\* are taken first, then those of the left one.
RecomputeTwoPairs ==
  /\ mk_at = "recompute_root" /\ mk_i >= 0 /\ BothNeeded
  /\ LET n1  == mk_start + mk_i
         n2  == mk_start + (mk_i - 2)
         st1 == Input(n1, published["verifier"])
         st2 == Input(n2, st1.used)
     IN  /\ merkle_tree' = [merkle_tree EXCEPT
              !["verifier"][Father(mk_level, n1)] = Hash2(st1.input[1], st1.input[2]),
              !["verifier"][Father(mk_level, n2)] = Hash2(st2.input[1], st2.input[2])]
         /\ computed' = [computed EXCEPT !["verifier"][Father(mk_level, n1)] = 1,
                                         !["verifier"][Father(mk_level, n2)] = 1]
         /\ published' = [published EXCEPT !["verifier"] = st2.used]
  /\ mk_i' = mk_i - 4
  /\ UNCHANGED <<mk_at, mk_level, mk_start, root, proof, is_mtree_padding_ok,
                 sharedVars>>

\* handle_single, and the loop for what is left at the left end: one pair,
\* which is passed over when neither node is computed.
RecomputeOnePair ==
  /\ mk_at = "recompute_root" /\ mk_i >= 0 /\ ~ BothNeeded
  /\ LET n  == mk_start + mk_i
         st == Input(n, published["verifier"])
     IN  IF Needed(computed["verifier"], n)
         THEN /\ merkle_tree' = [merkle_tree EXCEPT
                   !["verifier"][Father(mk_level, n)] = Hash2(st.input[1], st.input[2])]
              /\ computed' = [computed EXCEPT !["verifier"][Father(mk_level, n)] = 1]
              /\ published' = [published EXCEPT !["verifier"] = st.used]
         ELSE UNCHANGED <<merkle_tree, computed, published>>
  /\ mk_i' = mk_i - 2
  /\ UNCHANGED <<mk_at, mk_level, mk_start, root, proof, is_mtree_padding_ok,
                 sharedVars>>

\* Mutant: the check of the padding begins at the last digest.
RecomputeLevelOffByOne ==
  /\ mk_at = "recompute_root" /\ mk_i < 0
  /\ NextLevelUp
  /\ IF mk_level > 1
     THEN UNCHANGED <<mk_at, root, is_mtree_padding_ok>>
     ELSE /\ mk_at' = "recomputed"
          /\ root' = [root EXCEPT !["verifier"] = merkle_tree["verifier"][0]]
          /\ is_mtree_padding_ok' =
               \A s \in Slot : s >= published["verifier"] - 1 => proof[s] = NoDigest
  /\ UNCHANGED <<merkle_tree, computed, proof, published, sharedVars>>

\* The next level up, or the root and the check of the rest of the proof.
RecomputeLevel ==
  /\ mk_at = "recompute_root" /\ mk_i < 0
  /\ NextLevelUp
  /\ IF mk_level > 1
     THEN UNCHANGED <<mk_at, root, is_mtree_padding_ok>>
     ELSE /\ mk_at' = "recomputed"
          /\ root' = [root EXCEPT !["verifier"] = merkle_tree["verifier"][0]]
          /\ is_mtree_padding_ok' =
               \A s \in Slot : s >= published["verifier"] => proof[s] = NoDigest
  /\ UNCHANGED <<merkle_tree, computed, proof, published, sharedVars>>

-----------------------------------------------------------------------------
TreeRoot      == RootPlace \/ RootTwoPairs \/ RootLastPair
TreeProof     == ProofLabel \/ ProofPair \/ ProofLevel
RecomputeRoot == RecomputePlace \/ RecomputeTwoPairs \/ RecomputeOnePair
                 \/ RecomputeLevel

\* What the rest of CROSS does meanwhile: it fills in the commitments that
\* merkle.c is about to read, and other parts of the signature get damaged.
OutsideMerkle ==
  /\ mk_at \in {"commitments", "transit"}
  /\ mk_at = "transit" => cmt_0'["signer"] = cmt_0["signer"]
  /\ intact' \in {intact, FALSE}
  /\ UNCHANGED <<mkVars, chall_2>>

\* The component by itself: the challenge is any string of weight W.
MerkleTreeInit == MerkleInit /\ chall_2 \in [Round -> 0..1] /\ intact = TRUE

MerkleTreeNext ==
  \/ TreeRoot
  \/ MerkleChallenge /\ chall_2' \in Challenges /\ UNCHANGED <<cmt_0, intact>>
  \/ TreeProof
  \/ ProofDamaged
  \/ RecomputeRoot
  \/ OutsideMerkle

MerkleTreeSpec == MerkleTreeInit /\ [][MerkleTreeNext]_<<mkVars, chall_2, cmt_0, intact>>

-----------------------------------------------------------------------------
(* Properties.                                                             *)

\* Digests are opaque: of the buffers only the shape is typed.
MerkleTypeOK ==
  /\ mk_at \in {"commitments", "tree_root", "challenge", "label_proof",
                "tree_proof", "transit", "recompute_root", "recomputed"}
  /\ mk_level \in Level /\ mk_i \in -2 .. 2*T /\ mk_start \in 0 .. 2*T-1
  /\ merkle_tree = [p \in Party |-> [n \in Node |-> merkle_tree[p][n]]]
  /\ computed \in [Party -> [Node -> 0..1]]
  /\ root = [p \in Party |-> root[p]]
  /\ proof = [s \in Slot |-> proof[s]]
  /\ published \in [Party -> Nat]
  /\ is_mtree_padding_ok \in BOOLEAN

\* sig->proof holds the digests that tree_proof sends: it copies them without
\* looking at the size of the buffer.
ProofFits == published["signer"] <= NodesToStore

\* tree_root leaves no gap: every leaf is the commitment of its round and
\* every inner node is the hash of its two children, so that the root commits
\* the signer to all rounds.
TreeComplete ==
  mk_at = "challenge" =>
    LET tree == merkle_tree["signer"]
    IN  /\ root["signer"] = tree[0]
        /\ \A r \in Round : tree[LeafNode[r]] = cmt_0["signer"][r]
        /\ \A l \in 0 .. LOG2T-1 : \A k \in 0 .. Inner(l)-1 :
             LET n == First[l] + k
             IN  tree[n] = Hash2(tree[LeftChild(l, n)], tree[LeftChild(l, n) + 1])

\* The verifier knows the commitments of the rounds it checked.
SameCommitments ==
  \A r \in Round : chall_2[r] = 0 => cmt_0["verifier"][r] = cmt_0["signer"][r]

\* recompute_root comes to the signer's root from those commitments and the
\* proof, whatever the challenge and the shape of the tree.
RecomputedRoot ==
  mk_at = "recomputed" /\ intact /\ ProofFits /\ SameCommitments =>
    root["verifier"] = root["signer"]

\* recompute_root uses up exactly what tree_proof has stored, so that the
\* check of the padding accepts a signature that arrived as it was sent.
ProofUsedUp ==
  mk_at = "recomputed" /\ ProofFits =>
    /\ published["verifier"] = published["signer"]
    /\ intact => is_mtree_padding_ok
===============================================================================
