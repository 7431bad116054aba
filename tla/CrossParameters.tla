--------------------------- MODULE CrossParameters ---------------------------
(***************************************************************************)
(* The three parameter sets of CROSS-RSDPG "balanced" that the repository  *)
(* vectorises: the trees of their parameters.h.                            *)
(***************************************************************************)
EXTENDS CrossShape

Tree128 ==
  [t      |-> 256, w |-> 220, log2 |-> 8,
   off    |-> <<0, 0, 0, 0, 0, 0, 0, 0, 0>>,
   npl    |-> <<1, 2, 4, 8, 16, 32, 64, 128, 256>>,
   lpl    |-> <<0, 0, 0, 0, 0, 0, 0, 0, 256>>,
   start  |-> <<255>>,
   leaves |-> <<256>>,
   store  |-> 101]

\* Mutant: the offsets of the next level.
Tree192Shifted ==
  [t      |-> 268, w |-> 196, log2 |-> 9,
   off    |-> <<0, 0, 0, 0, 8, 24, 24, 24, 24, 24>>,
   npl    |-> <<1, 2, 4, 8, 16, 24, 32, 64, 128, 256>>,
   lpl    |-> <<0, 0, 0, 0, 4, 8, 0, 0, 0, 256>>,
   start  |-> <<279, 47, 27>>,
   leaves |-> <<256, 8, 4>>,
   store  |-> 138]

Tree192 ==
  [t      |-> 268, w |-> 196, log2 |-> 9,
   off    |-> <<0, 0, 0, 0, 0, 8, 24, 24, 24, 24>>,
   npl    |-> <<1, 2, 4, 8, 16, 24, 32, 64, 128, 256>>,
   lpl    |-> <<0, 0, 0, 0, 4, 8, 0, 0, 0, 256>>,
   start  |-> <<279, 47, 27>>,
   leaves |-> <<256, 8, 4>>,
   store  |-> 138]

\* Mutant: fewer slots than a challenge can need.
Tree256Smaller ==
  [t      |-> 356, w |-> 258, log2 |-> 9,
   off    |-> <<0, 0, 0, 0, 0, 0, 8, 8, 8, 200>>,
   npl    |-> <<1, 2, 4, 8, 16, 32, 56, 112, 224, 256>>,
   lpl    |-> <<0, 0, 0, 0, 0, 4, 0, 0, 96, 256>>,
   start  |-> <<455, 359, 59>>,
   leaves |-> <<256, 96, 4>>,
   store  |-> 177]

Tree256 ==
  [t      |-> 356, w |-> 258, log2 |-> 9,
   off    |-> <<0, 0, 0, 0, 0, 0, 8, 8, 8, 200>>,
   npl    |-> <<1, 2, 4, 8, 16, 32, 56, 112, 224, 256>>,
   lpl    |-> <<0, 0, 0, 0, 0, 4, 0, 0, 96, 256>>,
   start  |-> <<455, 359, 59>>,
   leaves |-> <<256, 96, 4>>,
   store  |-> 185]

Trees == {Tree128, Tree192, Tree256}

\* The tree that the library is built with, if it is one of these.
VARIABLE tree

NoTree == [t |-> 0]

\* The tables of each parameter set describe a binary tree, and the blocks of
\* leaves that label_leaves, seed_leaves and place_cmt_on_leaves go through
\* are all its leaves, each once.
TreeFits == tree # NoTree => LevelsFit(tree) /\ BlocksFit(tree)

\* TREE_NODES_TO_STORE is enough for every challenge: seed_path and
\* tree_proof copy without looking at the size of the buffer.
StoreSuffices == tree # NoTree => MostSent(tree) <= tree.store
===============================================================================
