------------------------------ MODULE CrossTree ------------------------------
(***************************************************************************)
(* The binary tree over which CROSS derives the seeds of its rounds        *)
(* (seedtree.c) and commits to them (merkle.c): the tables of parameters.h *)
(* that describe it, the index arithmetic of both files, and the state     *)
(* that CROSS_sign and CROSS_verify hand from one file to the other.       *)
(*                                                                         *)
(* The nodes are numbered from the root to the leaves and from left to     *)
(* right.  T is in general no power of two, so that some levels end in     *)
(* leaves and the levels below them are shorter: "off" says by how much    *)
(* the usual heap numbering is to be corrected on each level.              *)
(***************************************************************************)
EXTENDS Integers, Sequences, FiniteSets, Functions

CONSTANTS
  T,            \* rounds, and leaves
  W,            \* rounds whose seed is published
  LOG2T,        \* LOG2(T), the lowest level
  off,          \* TREE_OFFSETS
  npl,          \* TREE_NODES_PER_LEVEL
  lpl,          \* TREE_LEAVES_PER_LEVEL
  First,        \* first node of each level: the partial sums of npl
  LeafStart,    \* TREE_LEAVES_START_INDICES
  ConsLeaves,   \* TREE_CONSECUTIVE_LEAVES
  NodesToStore  \* TREE_NODES_TO_STORE

Round == 0 .. T-1
Node  == 0 .. 2*T-2
Level == 0 .. LOG2T
Slot  == 0 .. NodesToStore-1
Party == {"signer", "verifier"}

-----------------------------------------------------------------------------
(* The macros of seedtree.c and merkle.c, and the way every loop corrects  *)
(* them on the level it works on.                                          *)

LEFT_CHILD(i) == 2*i + 1
PARENT(i)     == IF i % 2 = 1 THEN (i-1) \div 2 ELSE (i-2) \div 2
SIBLING(i)    == IF i % 2 = 1 THEN i+1 ELSE i-1

LeftChild(level, n) == LEFT_CHILD(n) - off[level]
Father(level, n)    == PARENT(n) + off[level-1] \div 2

\* How many nodes of a level have children; they are its leftmost ones.
Inner(level) == npl[level] - lpl[level]

-----------------------------------------------------------------------------
(* The leaves, subtree by subtree in the order of LeafStart: round cnt has *)
(* the leaf that label_leaves, seed_leaves and place_cmt_on_leaves reach   *)
(* when they have counted cnt.                                             *)

LeavesBefore(s) == FoldFunctionOnSet(+, 0, ConsLeaves, 1 .. s-1)

LeafNode ==
  [cnt \in Round |->
     CHOOSE n \in Node : \E s \in DOMAIN LeafStart :
       LET j == cnt - LeavesBefore(s)
       IN  j \in 0 .. ConsLeaves[s]-1 /\ n = LeafStart[s] + j]

IsLeaf(n) == \E l \in Level : n - First[l] \in Inner(l) .. npl[l]-1

-----------------------------------------------------------------------------
(* What makes the tables those of a tree with T leaves.                    *)

ASSUME RoundAssumption ==
  /\ T \in Nat \ {0} /\ W \in 1 .. T-1
  /\ LOG2T \in Nat \ {0} /\ NodesToStore \in Nat
  /\ 2*T-1 < 32768   \* node numbers and their doubles fit uint16_t

ASSUME TableAssumption ==
  /\ off \in [Level -> Nat] /\ npl \in [Level -> Nat] /\ lpl \in [Level -> Nat]
  /\ First \in [0 .. LOG2T+1 -> Nat]
  /\ First[0] = 0 /\ npl[0] = 1 /\ First[LOG2T+1] = 2*T-1
  /\ lpl[LOG2T] = npl[LOG2T]
  /\ \A l \in Level : lpl[l] <= npl[l] /\ npl[l] > 0
                      /\ off[l] % 2 = 0 /\ First[l+1] = First[l] + npl[l]
  /\ \A l \in 0 .. LOG2T-1 : npl[l+1] = 2 * Inner(l)
                             /\ First[l+1] = 2*First[l] + 1 - off[l]
  /\ \A l, m \in 0 .. LOG2T+1 : l < m => First[l] < First[m]

ASSUME LeafAssumption ==
  /\ LeafStart[1] = First[LOG2T]
  /\ LeafNode \in [Round -> {n \in Node : IsLeaf(n)}]
  /\ \A n \in Node : IsLeaf(n) => \E r \in Round : LeafNode[r] = n
  /\ \A r, q \in Round : LeafNode[r] = LeafNode[q] => r = q

-----------------------------------------------------------------------------
(* The second challenge says of each round whether its seed is published;  *)
(* expand_digest_to_fixed_weight makes it a string of weight W.            *)

Challenges == {c \in [Round -> 0..1] : Cardinality({r \in Round : c[r] = 1}) = W}

VARIABLES
  chall_2,     \* the second challenge
  round_seeds, \* seeds of the rounds, the leaves of the seed tree
  cmt_0,       \* commitments of the rounds, the leaves of the Merkle tree
  intact       \* FALSE when a slot of the signature was changed on the way

sharedVars == <<chall_2, round_seeds, cmt_0, intact>>
===============================================================================
