---------------------------- MODULE CrossSeedTree ----------------------------
(***************************************************************************)
(* seedtree.c of CROSS with OQS_ENABLE_SVE2.  The signer expands a root    *)
(* seed into one seed per round (gen_seed_tree, seed_leaves); when the     *)
(* challenge is known it publishes the roots of the subtrees all of whose  *)
(* rounds are published (seed_path); the verifier expands those again      *)
(* (rebuild_tree).  Nothing in the signature says which node a published   *)
(* seed belongs to: both sides must walk the tree in the same order, and   *)
(* the loops that handle two or eight nodes at a time must not disturb it. *)
(*                                                                         *)
(* One action is one round of a loop, with what the function does before   *)
(* the next one.                                                           *)
(***************************************************************************)
EXTENDS CrossTree

CONSTANTS
  RootSeed,    \* what randombytes gives the signer
  Zero,        \* the slot of a cleared buffer
  Altered,     \* what a slot may hold when it was changed on the way
  Xof(_, _, _) \* Xof(seed, dsc, h): half h of what the CSPRNG expands the
               \* seed and the domain separator to (the salt is the same
               \* everywhere)

VARIABLES
  seed_at,        \* the function that runs, or what CROSS waits for
  seed_by,        \* who runs it
  level, i,       \* its loops; i is also called node_in_level
  start_node,
  seed_tree, flags_tree,
  path,           \* sig->path
  num_seeds_published, nodes_used,
  is_stree_padding_ok

loopVars  == <<level, i, start_node>>
countVars == <<num_seeds_published, nodes_used, is_stree_padding_ok>>
seedVars  == <<seed_at, seed_by, loopVars, seed_tree, flags_tree,
               path, countVars>>

-----------------------------------------------------------------------------
(* Helpers.                                                                *)

\* The children of n, written next to each other.
Expanded(tree, l, n) ==
  [tree EXCEPT ![LeftChild(l, n)]     = Xof(tree[n], n, 0),
               ![LeftChild(l, n) + 1] = Xof(tree[n], n, 1)]

\* Mutant: every published node is sent, its father notwithstanding.
SentEvery(flags, l, n) == flags[n] = 1

\* A published node whose father is not published: its seed is sent.
Sent(flags, l, n) == flags[n] = 1 /\ flags[Father(l, n)] = 0

\* Mutant: the sibling is not looked at.
CombinedLeft(flags, l, left) ==
  [n \in Node |->
     IF \E c \in left : n = Father(l, c)
     THEN flags[CHOOSE c \in left : n = Father(l, c)]
     ELSE flags[n]]

\* The fathers of the pairs that start at the nodes of "left".
Combined(flags, l, left) ==
  [n \in Node |->
     IF \E c \in left : n = Father(l, c)
     THEN LET c == CHOOSE c \in left : n = Father(l, c)
          IN  IF flags[c] = 1 /\ flags[SIBLING(c)] = 1 THEN 1 ELSE 0
     ELSE flags[n]]

\* rebuild_tree: take the next stored seed for n, when n was sent.
Loaded(st, l, n) ==
  IF Sent(flags_tree["verifier"], l, n)
  THEN [tree |-> [st.tree EXCEPT ![n] = path[st.used]], used |-> st.used + 1]
  ELSE st

\* Mutant: only pairs are expanded, the branch for a single node is missing.
RegrownPairs(tree, l, k) ==
  LET n == start_node + k
  IN  IF /\ flags_tree["verifier"][n] = 1 /\ flags_tree["verifier"][SIBLING(n)] = 1
         /\ k < Inner(l)
      THEN Expanded(tree, l, n) ELSE tree

\* rebuild_tree: expand the node at place k of its level, when it is
\* published and no leaf.
Regrown(tree, l, k) ==
  LET n == start_node + k
  IN  IF flags_tree["verifier"][n] = 1 /\ k < Inner(l)
      THEN Expanded(tree, l, n) ELSE tree

-----------------------------------------------------------------------------
(* gen_seed_tree and seed_leaves.                                          *)

SeedInit ==
  /\ seed_at = "gen_seed_tree" /\ seed_by = "signer"
  /\ level = 0 /\ i = 0 /\ start_node = 0
  /\ seed_tree = [p \in Party |->
       [n \in Node |-> IF p = "signer" /\ n = 0 THEN RootSeed ELSE Zero]]
  /\ round_seeds = [p \in Party |-> [r \in Round |-> Zero]]
  /\ flags_tree = [p \in Party |-> [n \in Node |-> 0]]
  /\ path = [s \in Slot |-> Zero]
  /\ num_seeds_published = 0 /\ nodes_used = 0 /\ is_stree_padding_ok = FALSE

NextLevelDown ==
  /\ level' = level + 1 /\ i' = 0 /\ start_node' = start_node + npl[level]

GenPair ==
  /\ seed_at = "gen_seed_tree" /\ i <= Inner(level) - 2
  /\ seed_tree' = [seed_tree EXCEPT !["signer"] =
       Expanded(Expanded(@, level, start_node + i), level, start_node + i + 1)]
  /\ i' = i + 2
  /\ UNCHANGED <<seed_at, seed_by, level, start_node, flags_tree,
                 path, countVars, sharedVars>>

\* Mutant: the odd father is forgotten.
GenLastForgotten ==
  /\ seed_at = "gen_seed_tree" /\ i > Inner(level) - 2
  /\ NextLevelDown
  /\ seed_at' = IF level + 1 < LOG2T THEN seed_at ELSE "seed_leaves"
  /\ UNCHANGED <<seed_by, seed_tree, flags_tree, path, countVars, sharedVars>>

\* The odd father of a level, if any, and the next level.
GenLast ==
  /\ seed_at = "gen_seed_tree" /\ i > Inner(level) - 2
  /\ seed_tree' = IF i < Inner(level)
                  THEN [seed_tree EXCEPT !["signer"] =
                          Expanded(@, level, start_node + i)]
                  ELSE seed_tree
  /\ NextLevelDown
  /\ seed_at' = IF level + 1 < LOG2T THEN seed_at ELSE "seed_leaves"
  /\ UNCHANGED <<seed_by, flags_tree, path, countVars, sharedVars>>

SeedLeaves ==
  /\ seed_at = "seed_leaves"
  /\ round_seeds' = [round_seeds EXCEPT ![seed_by] =
                       [r \in Round |-> seed_tree[seed_by][LeafNode[r]]]]
  /\ seed_at' = IF seed_by = "signer" THEN "challenge" ELSE "rebuilt"
  /\ UNCHANGED <<seed_by, loopVars, seed_tree, flags_tree, path, countVars,
                 chall_2, cmt_0, intact>>

\* Between the functions: CROSS_sign has the second challenge.
SeedChallenge ==
  /\ seed_at = "challenge"
  /\ seed_at' = "label_leaves"
  /\ UNCHANGED <<seed_by, loopVars, seed_tree, flags_tree, path,
                 countVars>>

-----------------------------------------------------------------------------
(* compute_seeds_to_publish, called by seed_path and by rebuild_tree.      *)

LabelLeaves ==
  /\ seed_at = "label_leaves"
  /\ flags_tree' = [flags_tree EXCEPT ![seed_by] =
       [n \in Node |-> IF \E r \in Round : LeafNode[r] = n /\ chall_2[r] = 1
                       THEN 1 ELSE 0]]
  /\ level' = LOG2T /\ i' = 0 /\ start_node' = LeafStart[1]
  /\ seed_at' = "compute_seeds"
  /\ UNCHANGED <<seed_by, seed_tree, path, countVars, sharedVars>>

\* Four pairs in one round of the unrolled loop.
ComputeEight ==
  /\ seed_at = "compute_seeds" /\ i <= npl[level] - 8
  /\ flags_tree' = [flags_tree EXCEPT ![seed_by] =
       Combined(@, level, {start_node + i + k : k \in {0, 2, 4, 6}})]
  /\ i' = i + 8
  /\ UNCHANGED <<seed_at, seed_by, level, start_node, seed_tree,
                 path, countVars, sharedVars>>

ComputePair ==
  /\ seed_at = "compute_seeds"
  /\ i > npl[level] - 8 /\ i <= npl[level] - 2
  /\ flags_tree' = [flags_tree EXCEPT ![seed_by] =
       Combined(@, level, {start_node + i})]
  /\ i' = i + 2
  /\ UNCHANGED <<seed_at, seed_by, level, start_node, seed_tree,
                 path, countVars, sharedVars>>

\* The next level up, or the loop of the caller, from level 1 down.
ComputeLevel ==
  /\ seed_at = "compute_seeds" /\ i > npl[level] - 2
  /\ i' = 0
  /\ IF level > 1
     THEN /\ level' = level - 1 /\ start_node' = start_node - npl[level-1]
          /\ UNCHANGED seed_at
     ELSE /\ level' = 1 /\ start_node' = 1
          /\ seed_at' = IF seed_by = "signer" THEN "seed_path" ELSE "rebuild_tree"
  /\ UNCHANGED <<seed_by, seed_tree, flags_tree, path, countVars,
                 sharedVars>>

-----------------------------------------------------------------------------
(* seed_path.                                                              *)

PathNode ==
  /\ seed_at = "seed_path" /\ i < npl[level]
  /\ LET n == start_node + i
     IN  IF Sent(flags_tree["signer"], level, n)
         THEN /\ path' = [path EXCEPT ![num_seeds_published] =
                            seed_tree["signer"][n]]
              /\ num_seeds_published' = num_seeds_published + 1
         ELSE UNCHANGED <<path, num_seeds_published>>
  /\ i' = i + 1
  /\ UNCHANGED <<seed_at, seed_by, level, start_node, seed_tree,
                 flags_tree, nodes_used, is_stree_padding_ok, sharedVars>>

PathLevel ==
  /\ seed_at = "seed_path" /\ i >= npl[level]
  /\ NextLevelDown
  /\ seed_at' = IF level < LOG2T THEN seed_at ELSE "transit"
  /\ UNCHANGED <<seed_by, seed_tree, flags_tree, path, countVars,
                 sharedVars>>

-----------------------------------------------------------------------------
(* The signature on its way, and rebuild_tree.  The branch for the last    *)
(* node of an odd level is never taken: below the root all levels are even *)
(* (TableAssumption).                                                      *)

\* A slot of the path, used or not, arrives with another value.
PathDamaged ==
  /\ seed_at = "transit" /\ intact
  /\ \E s \in Slot, v \in Altered : v # path[s] /\ path' = [path EXCEPT ![s] = v]
  /\ intact' = FALSE
  /\ UNCHANGED <<seed_at, seed_by, loopVars, seed_tree, flags_tree,
                 countVars, chall_2, round_seeds, cmt_0>>

\* CROSS_verify calls rebuild_tree.
SeedReceived ==
  /\ seed_at = "transit"
  /\ seed_at' = "label_leaves" /\ seed_by' = "verifier"
  /\ UNCHANGED <<loopVars, seed_tree, flags_tree, path, countVars,
                 sharedVars>>

\* Both nodes are loaded before either is expanded.
RebuildPair ==
  /\ seed_at = "rebuild_tree" /\ i <= npl[level] - 2
  /\ LET st == Loaded(Loaded([tree |-> seed_tree["verifier"], used |-> nodes_used],
                             level, start_node + i),
                      level, start_node + i + 1)
     IN  /\ seed_tree' = [seed_tree EXCEPT !["verifier"] =
                            Regrown(Regrown(st.tree, level, i), level, i + 1)]
         /\ nodes_used' = st.used
  /\ i' = i + 2
  /\ UNCHANGED <<seed_at, seed_by, level, start_node, flags_tree,
                 path, num_seeds_published, is_stree_padding_ok, sharedVars>>

\* Mutant: the check of the padding begins at the last seed.
RebuildLevelOffByOne ==
  /\ seed_at = "rebuild_tree" /\ i > npl[level] - 2
  /\ NextLevelDown
  /\ IF level < LOG2T
     THEN UNCHANGED <<seed_at, is_stree_padding_ok>>
     ELSE /\ seed_at' = "seed_leaves"
          /\ is_stree_padding_ok' =
               \A s \in Slot : s >= nodes_used - 1 => path[s] = Zero
  /\ UNCHANGED <<seed_by, seed_tree, flags_tree, path,
                 num_seeds_published, nodes_used, sharedVars>>

\* The next level, or the check of the rest of the stored seeds.
RebuildLevel ==
  /\ seed_at = "rebuild_tree" /\ i > npl[level] - 2
  /\ NextLevelDown
  /\ IF level < LOG2T
     THEN UNCHANGED <<seed_at, is_stree_padding_ok>>
     ELSE /\ seed_at' = "seed_leaves"
          /\ is_stree_padding_ok' = \A s \in Slot : s >= nodes_used => path[s] = Zero
  /\ UNCHANGED <<seed_by, seed_tree, flags_tree, path,
                 num_seeds_published, nodes_used, sharedVars>>

-----------------------------------------------------------------------------
SignerSeeds  == GenPair \/ GenLast \/ (seed_by = "signer" /\ SeedLeaves)
Computing    == LabelLeaves \/ ComputeEight \/ ComputePair \/ ComputeLevel
PublishSeeds == (seed_by = "signer" /\ Computing) \/ PathNode \/ PathLevel
RebuildSeeds ==
  \/ seed_by = "verifier" /\ (Computing \/ SeedLeaves)
  \/ RebuildPair
  \/ RebuildLevel

\* What the rest of CROSS does meanwhile: it fills in commitments, and other
\* parts of the signature get damaged.
OutsideSeeds == intact' \in {intact, FALSE} /\ UNCHANGED <<seedVars, chall_2, round_seeds>>

\* The component by itself: the challenge is any string of weight W.
SeedTreeInit == SeedInit /\ chall_2 \in [Round -> 0..1] /\ intact = TRUE

SeedTreeNext ==
  \/ SignerSeeds
  \/ SeedChallenge /\ chall_2' \in Challenges /\ UNCHANGED <<round_seeds, intact>>
  \/ PublishSeeds
  \/ PathDamaged
  \/ SeedReceived
  \/ RebuildSeeds
  \/ OutsideSeeds

SeedTreeSpec == SeedTreeInit /\ [][SeedTreeNext]_<<seedVars, chall_2, round_seeds, intact>>

-----------------------------------------------------------------------------
(* Properties.                                                             *)

\* Seeds are opaque: of the buffers only the shape is typed.
SeedTypeOK ==
  /\ seed_at \in {"gen_seed_tree", "seed_leaves", "challenge", "label_leaves",
                  "compute_seeds", "seed_path", "transit", "rebuild_tree", "rebuilt"}
  /\ seed_by \in Party
  /\ level \in 0 .. LOG2T+1 /\ i \in Nat /\ start_node \in 0 .. 2*T-1
  /\ seed_tree = [p \in Party |-> [n \in Node |-> seed_tree[p][n]]]
  /\ round_seeds = [p \in Party |-> [r \in Round |-> round_seeds[p][r]]]
  /\ flags_tree \in [Party -> [Node -> 0..1]]
  /\ path = [s \in Slot |-> path[s]]
  /\ num_seeds_published \in Nat /\ nodes_used \in Nat
  /\ is_stree_padding_ok \in BOOLEAN
  /\ chall_2 \in [Round -> 0..1] /\ intact \in BOOLEAN

\* sig->path holds the seeds that seed_path sends: it copies them without
\* looking at the size of the buffer.
PathFits == num_seeds_published <= NodesToStore

\* rebuild_tree and seed_leaves give the verifier the signer's seed of every
\* published round, whatever the challenge and the shape of the tree.
RebuiltSeeds ==
  seed_at = "rebuilt" /\ intact /\ PathFits =>
    \A r \in Round : chall_2[r] = 1 =>
      round_seeds["verifier"][r] = round_seeds["signer"][r]

\* The nodes n is expanded into, and the rounds whose seeds its seed leads to.
Children(n) ==
  {c \in Node : \E l \in 0 .. LOG2T-1 :
     n - First[l] \in 0 .. Inner(l)-1 /\ c \in {LeftChild(l, n), LeftChild(l, n) + 1}}

RoundsOf[n \in Node] ==
  {r \in Round : LeafNode[r] = n} \cup UNION {RoundsOf[c] : c \in Children(n)}

\* From the moment seed_path begins, sig->path gives away no seed of a round
\* that stays hidden: every slot that is filled holds the seed of a node from
\* which only published rounds can be expanded, and the other slots hold none.
HiddenSeeds ==
  intact => \A s \in Slot :
    IF s < num_seeds_published
    THEN \E n \in Node : /\ path[s] = seed_tree["signer"][n]
                         /\ \A r \in RoundsOf[n] : chall_2[r] = 1
    ELSE path[s] = Zero

\* rebuild_tree uses up exactly what seed_path has stored, so that the check
\* of the padding accepts a signature that arrived as it was sent.
PathUsedUp ==
  seed_at \in {"seed_leaves", "rebuilt"} /\ seed_by = "verifier" /\ PathFits =>
    /\ nodes_used = num_seeds_published
    /\ intact => is_stree_padding_ok

\* gen_seed_tree reaches every node once, and no two nodes get one seed.
SeedsDistinct ==
  seed_at = "seed_leaves" /\ seed_by = "signer" =>
    \A n \in Node :
      /\ seed_tree["signer"][n] # Zero
      /\ \A m \in 0 .. n-1 : seed_tree["signer"][m] # seed_tree["signer"][n]
===============================================================================
