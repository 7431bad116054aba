--------------------------- MODULE CrossTreeProofs ---------------------------
(***************************************************************************)
(* Theorems about the two trees of CROSS and their proofs.                 *)
(*                                                                         *)
(* First the numbering they share (CrossTree): levels, pairs, fathers.     *)
(*                                                                         *)
(* Then the seed tree (CrossSeedTree).  seed_path and rebuild_tree visit   *)
(* the nodes in the order of rising numbers: the invariant says what is    *)
(* loaded, expanded and sent before some node on.  Between them            *)
(* compute_seeds_to_publish goes from the leaves up, but from left to      *)
(* right on each level: there it is a set of fathers that is done.         *)
(*                                                                         *)
(* Then the Merkle tree (CrossMerkle).  Its fathers are visited in the     *)
(* order of falling numbers by all three functions: the invariant says     *)
(* what is done from some father on.                                       *)
(*                                                                         *)
(* Last what both trees have in common: which nodes they send, and that    *)
(* the buffers hold them when those of the worst challenge (CrossShape)    *)
(* fit.                                                                    *)
(***************************************************************************)
EXTENDS CrossSeedTree, CrossMerkle, CrossShape, FiniteSetTheorems, SequenceTheorems,
        WellFoundedInduction, TLAPS

-----------------------------------------------------------------------------
(* Levels.                                                                 *)

LEMMA LevelFacts ==
  ASSUME NEW l \in Level
  PROVE  /\ l \in Nat /\ l <= LOG2T /\ LOG2T \in Nat /\ LOG2T > 0
         /\ First[l] \in Nat /\ npl[l] \in Nat /\ npl[l] > 0
         /\ First[l+1] = First[l] + npl[l]
         /\ Inner(l) \in Nat /\ Inner(l) <= npl[l]
<1>1. l \in 0 .. LOG2T /\ LOG2T \in Nat /\ LOG2T > 0
  BY RoundAssumption DEF Level
<1>2. l \in 0 .. LOG2T+1 /\ l+1 \in 0 .. LOG2T+1
  BY <1>1
<1>3. First \in [0 .. LOG2T+1 -> Nat]
  BY TableAssumption
<1>4. First[l] \in Nat /\ First[l+1] \in Nat
  BY <1>2, <1>3
<1>5. npl[l] \in Nat /\ lpl[l] \in Nat
  BY TableAssumption
<1>6. lpl[l] <= npl[l] /\ npl[l] > 0 /\ First[l+1] = First[l] + npl[l]
  BY TableAssumption
<1> QED
  BY <1>1, <1>4, <1>5, <1>6 DEF Inner

LEMMA LevelOrder ==
  ASSUME NEW l \in 0 .. LOG2T+1, NEW m \in 0 .. LOG2T+1, l <= m
  PROVE  First[l] \in Nat /\ First[m] \in Nat /\ First[l] <= First[m]
<1>1. First[l] \in Nat /\ First[m] \in Nat /\ l \in Int /\ m \in Int
  <2>1. First \in [0 .. LOG2T+1 -> Nat]
    BY TableAssumption
  <2> QED
    BY <2>1
<1>2. l < m => First[l] < First[m]
  BY TableAssumption
<1> QED
  BY <1>1, <1>2

LEMMA LevelBelow ==
  ASSUME NEW l \in 0 .. LOG2T-1
  PROVE  /\ l \in Level /\ l+1 \in Level
         /\ npl[l+1] = 2 * Inner(l)
         /\ First[l+1] = 2 * First[l] + 1 - off[l]
         /\ \E h \in Nat : off[l] = 2 * h
<1>1. l \in Level /\ l+1 \in Level
  BY RoundAssumption DEF Level
<1>2. off[l] \in Nat /\ off[l] % 2 = 0
  BY <1>1, TableAssumption
<1>3. off[l] \div 2 \in Nat /\ off[l] = 2 * (off[l] \div 2)
  BY <1>2
<1> QED
  BY <1>1, <1>3, TableAssumption

LEMMA LowestLevel == LOG2T \in Level /\ Inner(LOG2T) = 0
<1>1. LOG2T \in Level
  BY RoundAssumption DEF Level
<1> QED
  BY <1>1, LevelFacts, TableAssumption DEF Inner

LEMMA FirstNode == First[0] = 0 /\ npl[0] = 1 /\ First[1] = 1
<1>1. 0 \in Level /\ 0 + 1 = 1
  BY RoundAssumption DEF Level
<1> QED
  BY <1>1, TableAssumption

\* The nodes of a level are nodes.
LEMMA NodeOfLevel ==
  ASSUME NEW l \in Level, NEW k \in 0 .. npl[l]-1
  PROVE  First[l] + k \in Node /\ First[l] + k < First[l+1]
<1>1. l+1 \in 0 .. LOG2T+1 /\ LOG2T+1 \in 0 .. LOG2T+1 /\ l+1 <= LOG2T+1
  BY LevelFacts
<1>2. First[l+1] <= First[LOG2T+1]
  BY <1>1, LevelOrder
<1>3. First[LOG2T+1] = 2*T-1 /\ T \in Nat
  BY TableAssumption, RoundAssumption
<1>4. First[l] \in Nat /\ npl[l] \in Nat /\ First[l+1] = First[l] + npl[l]
  BY LevelFacts
<1> QED
  BY <1>2, <1>3, <1>4 DEF Node

\* No node is on two levels.
LEMMA LevelsApart ==
  ASSUME NEW l \in Level, NEW j \in 0 .. npl[l]-1,
         NEW m \in Level, NEW k \in 0 .. npl[m]-1,
         l < m
  PROVE  First[l] + j < First[m] + k
<1>1. l+1 \in 0 .. LOG2T+1 /\ m \in 0 .. LOG2T+1 /\ l+1 <= m
  BY LevelFacts
<1>2. First[l+1] <= First[m]
  BY <1>1, LevelOrder
<1>3. First[l] + j < First[l+1]
  BY NodeOfLevel
<1> QED
  BY <1>2, <1>3, LevelFacts

LEMMA OneLevel ==
  ASSUME NEW l \in Level, NEW j \in 0 .. npl[l]-1,
         NEW m \in Level, NEW k \in 0 .. npl[m]-1,
         First[l] + j = First[m] + k
  PROVE  l = m /\ j = k
<1>1. l \in Nat /\ m \in Nat /\ First[l] \in Nat /\ First[m] \in Nat
  BY LevelFacts
<1>2. ~ (l < m) /\ ~ (m < l)
  BY <1>1, LevelsApart
<1> QED
  BY <1>1, <1>2

-----------------------------------------------------------------------------
(* Fathers and their children.                                             *)

\* The nodes with children, and the left one of a node's children.
InnerNode == {n \in Node : \E l \in 0 .. LOG2T-1 : n - First[l] \in 0 .. Inner(l)-1}
Kid(f)    == CHOOSE c : \E l \in 0 .. LOG2T-1 :
                f - First[l] \in 0 .. Inner(l)-1 /\ c = LeftChild(l, f)

\* Where the loops look: the pair at place 2*k of a level has its father at
\* place k of the level above.
LEMMA PairOf ==
  ASSUME NEW l \in 0 .. LOG2T-1, NEW k \in 0 .. Inner(l)-1
  PROVE  /\ LeftChild(l, First[l] + k) = First[l+1] + 2*k
         /\ Father(l+1, First[l+1] + 2*k) = First[l] + k
         /\ Father(l+1, First[l+1] + 2*k + 1) = First[l] + k
         /\ SIBLING(First[l+1] + 2*k) = First[l+1] + 2*k + 1
         /\ SIBLING(First[l+1] + 2*k + 1) = First[l+1] + 2*k
<1>1. PICK h \in Nat : off[l] = 2 * h
  BY LevelBelow
<1>2. /\ First[l] \in Nat /\ First[l+1] \in Nat /\ k \in Nat
      /\ First[l+1] = 2 * First[l] + 1 - 2*h
  BY <1>1, LevelBelow, LevelFacts
<1>3. l \in Int /\ (l+1)-1 = l /\ off[l] \div 2 = h
  BY <1>1, LevelBelow DEF Level
<1> DEFINE p == First[l] + k - h
           c == First[l+1] + 2*k
<1>4. p \in Int /\ c = 2*p + 1 /\ First[l] + k = p + h
  BY <1>2
<1>5. LeftChild(l, First[l] + k) = c
  BY <1>1, <1>2 DEF LeftChild, LEFT_CHILD
<1> HIDE DEF p, c
<1>6. c \in Int /\ c % 2 = 1 /\ (c+1) % 2 = 0
      /\ (c-1) \div 2 = p /\ (c+1-2) \div 2 = p
  BY <1>4
<1>7. PARENT(c) = p /\ PARENT(c+1) = p
  BY <1>6 DEF PARENT
<1>8. Father(l+1, c) = p + h /\ Father(l+1, c+1) = p + h
  BY <1>3, <1>7 DEF Father
<1>9. SIBLING(c) = c+1 /\ SIBLING(c+1) = c
  BY <1>6 DEF SIBLING
<1> QED
  BY <1>4, <1>5, <1>8, <1>9 DEF c

LEMMA KidIs ==
  ASSUME NEW l \in 0 .. LOG2T-1, NEW k \in 0 .. Inner(l)-1
  PROVE  /\ First[l] + k \in InnerNode
         /\ Kid(First[l] + k) = First[l+1] + 2*k
         /\ 2*k \in 0 .. npl[l+1]-1 /\ 2*k+1 \in 0 .. npl[l+1]-1
<1> DEFINE f == First[l] + k
<1>1. /\ l \in Level /\ l+1 \in Level /\ npl[l+1] = 2 * Inner(l)
      /\ First[l] \in Nat /\ Inner(l) \in Nat /\ k \in 0 .. npl[l]-1
  BY LevelBelow, LevelFacts
<1>2. f \in Node /\ f - First[l] = k
  BY <1>1, NodeOfLevel
<1>3. ASSUME NEW m \in 0 .. LOG2T-1, f - First[m] \in 0 .. Inner(m)-1
      PROVE  m = l
  <2>1. /\ m \in Level /\ First[m] \in Nat
        /\ f - First[m] \in 0 .. npl[m]-1 /\ First[m] + (f - First[m]) = f
    BY <1>2, <1>3, LevelBelow, LevelFacts DEF Node
  <2> QED
    BY <1>1, <2>1, OneLevel
<1>4. LeftChild(l, f) = First[l+1] + 2*k
  BY PairOf
<1>5. \A c : (\E m \in 0 .. LOG2T-1 :
                 f - First[m] \in 0 .. Inner(m)-1 /\ c = LeftChild(m, f))
              <=> c = LeftChild(l, f)
  BY <1>2, <1>3
<1>6. Kid(f) = LeftChild(l, f)
  BY <1>5 DEF Kid
<1>7. f \in InnerNode
  BY <1>2 DEF InnerNode
<1> QED
  BY <1>1, <1>4, <1>6, <1>7

\* Every father is at some place of some level but the lowest.
LEMMA PlaceOf ==
  ASSUME NEW f \in InnerNode
  PROVE  \E l \in 0 .. LOG2T-1, k \in Nat : k \in 0 .. Inner(l)-1 /\ f = First[l] + k
<1>1. PICK l \in 0 .. LOG2T-1 : f - First[l] \in 0 .. Inner(l)-1
  BY DEF InnerNode
<1>2. f \in Int /\ First[l] \in Nat /\ Inner(l) \in Nat
  BY LevelBelow, LevelFacts, RoundAssumption DEF InnerNode, Node
<1>3. f = First[l] + (f - First[l]) /\ f - First[l] \in Nat
  BY <1>1, <1>2
<1> QED
  BY <1>1, <1>3

\* Children are nodes, behind their father, next to each other.
LEMMA KidFacts ==
  ASSUME NEW f \in InnerNode
  PROVE  /\ f \in Nat /\ f \in Node
         /\ Kid(f) \in Node /\ Kid(f) + 1 \in Node
         /\ Kid(f) \in Nat /\ f < Kid(f)
         /\ SIBLING(Kid(f)) = Kid(f) + 1 /\ SIBLING(Kid(f) + 1) = Kid(f)
<1>1. PICK l \in 0 .. LOG2T-1, k \in Nat : k \in 0 .. Inner(l)-1 /\ f = First[l] + k
  BY PlaceOf
<1>2. /\ Kid(f) = First[l+1] + 2*k
      /\ 2*k \in 0 .. npl[l+1]-1 /\ 2*k+1 \in 0 .. npl[l+1]-1
  BY <1>1, KidIs
<1>3. /\ l \in Level /\ l+1 \in Level
      /\ First[l] \in Nat /\ First[l+1] \in Nat /\ k \in 0 .. npl[l]-1
  BY <1>1, LevelBelow, LevelFacts
<1>4. f \in Node /\ f < First[l+1]
  BY <1>1, <1>3, NodeOfLevel
<1>5. First[l+1] + 2*k \in Node /\ First[l+1] + (2*k+1) \in Node
  BY <1>2, <1>3, NodeOfLevel
<1>6. SIBLING(First[l+1] + 2*k) = First[l+1] + 2*k + 1
      /\ SIBLING(First[l+1] + 2*k + 1) = First[l+1] + 2*k
  BY <1>1, PairOf
<1> QED
  BY <1>1, <1>2, <1>3, <1>4, <1>5, <1>6

\* The children of a later father come later.
LEMMA KidsInOrder ==
  ASSUME NEW f \in InnerNode, NEW g \in InnerNode, f < g
  PROVE  Kid(f) + 1 < Kid(g)
<1>1. PICK l \in 0 .. LOG2T-1, j \in Nat : j \in 0 .. Inner(l)-1 /\ f = First[l] + j
  BY PlaceOf
<1>2. PICK m \in 0 .. LOG2T-1, k \in Nat : k \in 0 .. Inner(m)-1 /\ g = First[m] + k
  BY PlaceOf
<1>3. /\ l+1 \in Level /\ m+1 \in Level /\ l \in Level /\ m \in Level
      /\ j \in 0 .. npl[l]-1 /\ k \in 0 .. npl[m]-1
  BY <1>1, <1>2, LevelBelow, LevelFacts
<1>4. /\ Kid(f) = First[l+1] + 2*j /\ 2*j+1 \in 0 .. npl[l+1]-1
      /\ Kid(g) = First[m+1] + 2*k /\ 2*k \in 0 .. npl[m+1]-1
  BY <1>1, <1>2, KidIs
<1>5. /\ l \in Nat /\ m \in Nat /\ First[l] \in Nat /\ First[m] \in Nat
      /\ First[l+1] \in Nat /\ First[m+1] \in Nat
  BY <1>3, LevelFacts
<1>6. ~ (m < l)
  BY <1>1, <1>2, <1>3, <1>5, LevelsApart
<1>7. CASE l = m
  BY <1>1, <1>2, <1>4, <1>5, <1>7
<1>8. CASE l < m
  <2>1. l+1 < m+1
    BY <1>5, <1>8
  <2>2. First[l+1] + (2*j+1) < First[m+1] + 2*k
    BY <1>3, <1>4, <2>1, LevelsApart
  <2> QED
    BY <1>4, <1>5, <2>2
<1> QED
  BY <1>5, <1>6, <1>7, <1>8

\* A leaf has no children.
LEMMA LeavesApart ==
  ASSUME NEW r \in Round
  PROVE  LeafNode[r] \in Node /\ LeafNode[r] \notin InnerNode
<1> DEFINE n == LeafNode[r]
<1>1. n \in Node /\ IsLeaf(n)
  BY LeafAssumption
<1>2. PICK l \in Level : n - First[l] \in Inner(l) .. npl[l]-1
  BY <1>1 DEF IsLeaf
<1>3. SUFFICES ASSUME NEW m \in 0 .. LOG2T-1, NEW k \in Nat,
                      k \in 0 .. Inner(m)-1, n = First[m] + k
               PROVE  FALSE
  BY <1>1, PlaceOf
<1>4. /\ First[l] \in Nat /\ Inner(l) \in Nat /\ npl[l] \in Nat
      /\ m \in Level /\ k \in 0 .. npl[m]-1 /\ First[m] \in Nat
  BY <1>3, LevelBelow, LevelFacts
<1>5. n - First[l] \in 0 .. npl[l]-1 /\ First[l] + (n - First[l]) = n
  BY <1>1, <1>2, <1>4 DEF Node
<1>6. l = m /\ n - First[l] = k
  BY <1>3, <1>4, <1>5, OneLevel
<1> QED
  BY <1>2, <1>3, <1>4, <1>6

\* What has a level has children or belongs to a round.
Known(n) == n \in InnerNode \/ \E r \in Round : LeafNode[r] = n

LEMMA KnownOfLevel ==
  ASSUME NEW l \in Level, NEW k \in 0 .. npl[l]-1
  PROVE  Known(First[l] + k)
<1>1. First[l] \in Nat /\ Inner(l) \in Nat /\ npl[l] \in Nat /\ l \in Nat /\ l <= LOG2T
      /\ LOG2T \in Nat
  BY LevelFacts
<1>2. First[l] + k \in Node
  BY NodeOfLevel
<1>3. CASE k < Inner(l)
  <2>1. l # LOG2T
    BY <1>1, <1>3, LowestLevel
  <2>2. l \in 0 .. LOG2T-1 /\ k \in 0 .. Inner(l)-1
    BY <1>1, <1>3, <2>1
  <2> QED
    BY <2>2, KidIs DEF Known
<1>4. CASE Inner(l) <= k
  <2>1. (First[l] + k) - First[l] \in Inner(l) .. npl[l]-1
    BY <1>1, <1>4
  <2>2. IsLeaf(First[l] + k)
    BY <2>1 DEF IsLeaf
  <2> QED
    BY <1>2, <2>2, LeafAssumption DEF Known
<1> QED
  BY <1>1, <1>3, <1>4

LEMMA KidsKnown ==
  ASSUME NEW f \in InnerNode
  PROVE  Known(Kid(f)) /\ Known(Kid(f) + 1)
<1>1. PICK l \in 0 .. LOG2T-1, k \in Nat : k \in 0 .. Inner(l)-1 /\ f = First[l] + k
  BY PlaceOf
<1>2. /\ Kid(f) = First[l+1] + 2*k
      /\ 2*k \in 0 .. npl[l+1]-1 /\ 2*k+1 \in 0 .. npl[l+1]-1
      /\ l+1 \in Level /\ First[l+1] \in Nat
  BY <1>1, KidIs, LevelBelow, LevelFacts
<1>3. Known(First[l+1] + 2*k) /\ Known(First[l+1] + (2*k+1))
  BY <1>2, KnownOfLevel
<1> QED
  BY <1>2, <1>3

\* All but the root have a father.
LEMMA HasFather ==
  ASSUME NEW n, Known(n), n # 0
  PROVE  \E f \in InnerNode : n = Kid(f) \/ n = Kid(f) + 1
<1>1. \E l \in Level, k \in Nat : k \in 0 .. npl[l]-1 /\ n = First[l] + k
  <2>1. CASE n \in InnerNode
    <3>1. PICK l \in 0 .. LOG2T-1, k \in Nat : k \in 0 .. Inner(l)-1 /\ n = First[l] + k
      BY <2>1, PlaceOf
    <3>2. l \in Level /\ k \in 0 .. npl[l]-1
      BY <3>1, LevelBelow, LevelFacts
    <3> QED
      BY <3>1, <3>2
  <2>2. CASE \E r \in Round : LeafNode[r] = n
    <3>1. n \in Node /\ IsLeaf(n)
      BY <2>2, LeafAssumption
    <3>2. PICK l \in Level : n - First[l] \in Inner(l) .. npl[l]-1
      BY <3>1 DEF IsLeaf
    <3>3. First[l] \in Nat /\ Inner(l) \in Nat /\ n \in Int
      BY <3>1, LevelFacts, RoundAssumption DEF Node
    <3>4. n - First[l] \in 0 .. npl[l]-1 /\ n = First[l] + (n - First[l])
      BY <3>2, <3>3, LevelFacts
    <3> QED
      BY <3>4
  <2> QED
    BY <2>1, <2>2 DEF Known
<1>2. PICK l \in Level, k \in Nat : k \in 0 .. npl[l]-1 /\ n = First[l] + k
  BY <1>1
<1>3. l # 0
  BY <1>2, FirstNode
<1> DEFINE u == l - 1
           h == k \div 2
<1>4. u \in 0 .. LOG2T-1 /\ u + 1 = l /\ npl[l] = 2 * Inner(u) /\ Inner(u) \in Nat
  <2>1. u \in 0 .. LOG2T-1 /\ u + 1 = l
    BY <1>3, LevelFacts
  <2> QED
    BY <2>1, LevelBelow, LevelFacts
<1>5. h \in 0 .. Inner(u)-1 /\ (k = 2*h \/ k = 2*h + 1)
  BY <1>2, <1>4
<1> HIDE DEF u, h
<1>6. First[u] + h \in InnerNode /\ Kid(First[u] + h) = First[l] + 2*h
  BY <1>4, <1>5, KidIs
<1>7. First[l] \in Nat /\ h \in Nat
  BY <1>4, <1>5, LevelFacts
<1>8. n = Kid(First[u] + h) \/ n = Kid(First[u] + h) + 1
  BY <1>2, <1>5, <1>6, <1>7
<1> QED
  BY <1>6, <1>8

\* Between the last father of a level and the next level there is none.
LEMMA NoFatherBetween ==
  ASSUME NEW l \in 0 .. LOG2T-1, NEW f \in InnerNode, f >= First[l] + Inner(l)
  PROVE  f >= First[l+1]
<1>1. PICK m \in 0 .. LOG2T-1, k \in Nat : k \in 0 .. Inner(m)-1 /\ f = First[m] + k
  BY PlaceOf
<1>2. /\ m \in Level /\ l \in Level /\ l+1 \in Level /\ m \in Nat /\ l \in Nat
      /\ First[m] \in Nat /\ First[l] \in Nat /\ First[l+1] \in Nat
      /\ Inner(l) \in Nat /\ Inner(m) \in Nat
      /\ k \in 0 .. npl[m]-1 /\ 0 \in 0 .. npl[l]-1
  BY <1>1, LevelBelow, LevelFacts
<1>3. ~ (m < l)
  <2>1. m < l => First[m] + k < First[l] + 0
    BY <1>2, LevelsApart
  <2> QED
    BY <1>1, <1>2, <2>1
<1>4. m # l
  BY <1>1, <1>2
<1>5. l+1 \in 0 .. LOG2T+1 /\ m \in 0 .. LOG2T+1 /\ l+1 <= m
  BY <1>2, <1>3, <1>4, LevelFacts
<1>6. First[l+1] <= First[m]
  BY <1>5, LevelOrder
<1> QED
  BY <1>1, <1>2, <1>6

LEMMA NoFatherBelow ==
  ASSUME NEW f \in InnerNode
  PROVE  f < First[LOG2T]
<1>1. PICK m \in 0 .. LOG2T-1, k \in Nat : k \in 0 .. Inner(m)-1 /\ f = First[m] + k
  BY PlaceOf
<1>2. /\ m \in Level /\ k \in 0 .. npl[m]-1 /\ m < LOG2T
      /\ LOG2T \in Level /\ 0 \in 0 .. npl[LOG2T]-1 /\ First[LOG2T] \in Nat
  BY <1>1, LevelBelow, LevelFacts, LowestLevel
<1>3. First[m] + k < First[LOG2T] + 0
  BY <1>2, LevelsApart
<1> QED
  BY <1>1, <1>2, <1>3

\* Sets of nodes have a size.
LEMMA NodesFinite ==
  ASSUME NEW S \in SUBSET Node
  PROVE  IsFiniteSet(S) /\ Cardinality(S) \in Nat
<1>1. IsFiniteSet(Node)
  BY FS_Interval, RoundAssumption DEF Node
<1>2. IsFiniteSet(S)
  BY <1>1, FS_Subset
<1> QED
  BY <1>2, FS_CardinalityType

\* A set of numbers has a least one.
LEMMA LeastOf ==
  ASSUME NEW S \in SUBSET Nat, S # {}
  PROVE  \E x \in S : \A z \in S : x <= z
<1> DEFINE R == OpToRel(<, Nat)
<1>1. IsWellFoundedOn(R, Nat)
  BY NatLessThanWellFounded, Zenon
<1>2. ASSUME NEW x \in Nat, NEW z \in Nat, z < x
      PROVE  <<z, x>> \in R
  BY <1>2 DEF OpToRel
<1> HIDE DEF R
<1>3. PICK x \in S : \A z \in S : <<z, x>> \notin R
  BY <1>1, WFMin
<1>4. \A z \in S : z \in Nat /\ x \in Nat /\ ~ (z < x)
  BY <1>2, <1>3
<1>5. \A z \in S : x <= z
  BY <1>4
<1> QED
  BY <1>5

\* A set of nodes has a last one.
LEMMA LastNode ==
  ASSUME NEW S \in SUBSET Node, S # {}
  PROVE  \E n \in S : \A m \in S : m <= n
<1> DEFINE last == 2*T-2
           D    == {last - n : n \in S}
<1>1. last \in Nat /\ \A n \in S : n \in Nat /\ n <= last
  BY RoundAssumption DEF Node
<1> HIDE DEF last
<1>2. D \in SUBSET Nat /\ D # {}
  BY <1>1
<1>3. PICK d \in D : \A e \in D : d <= e
  BY <1>2, LeastOf
<1>4. PICK n \in S : d = last - n
  BY <1>3
<1>5. ASSUME NEW m \in S
      PROVE  m <= n
  <2>1. last - m \in D
    BY <1>5
  <2>2. last - n <= last - m
    BY <1>3, <1>4, <2>1
  <2> QED
    BY <1>1, <1>4, <1>5, <2>2
<1> QED
  BY <1>5

-----------------------------------------------------------------------------
(* The seed tree.                                                          *)

-----------------------------------------------------------------------------
(* Places in the loops.                                                    *)

\* n is a child of f.
KidOf(n, f) == n = Kid(f) \/ n = Kid(f) + 1

LEMMA NodeAt ==
  ASSUME NEW l \in Level, NEW k \in 0 .. npl[l]-1
  PROVE  LET n == First[l] + k
         IN  /\ n \in Node /\ n \in Nat /\ Known(n)
             /\ k < Inner(l) <=> n \in InnerNode
             /\ k < Inner(l) => LeftChild(l, n) = Kid(n)
<1> DEFINE n == First[l] + k
<1>1. n \in Node /\ Known(n) /\ l \in Nat /\ First[l] \in Nat /\ k \in Nat
      /\ l <= LOG2T /\ LOG2T \in Nat /\ Inner(l) \in Nat
  BY NodeOfLevel, KnownOfLevel, LevelFacts
<1>2. ASSUME k < Inner(l)
      PROVE  n \in InnerNode /\ LeftChild(l, n) = Kid(n)
  <2>1. l # LOG2T
    BY <1>1, <1>2, LowestLevel
  <2>2. l \in 0 .. LOG2T-1 /\ k \in 0 .. Inner(l)-1
    BY <1>1, <1>2, <2>1
  <2> QED
    BY <2>2, KidIs, PairOf
<1>3. ASSUME n \in InnerNode
      PROVE  k < Inner(l)
  <2>1. PICK m \in 0 .. LOG2T-1, j \in Nat : j \in 0 .. Inner(m)-1 /\ n = First[m] + j
    BY <1>3, PlaceOf
  <2>2. m \in Level /\ Inner(m) <= npl[m] /\ Inner(m) \in Nat /\ npl[m] \in Nat
    BY LevelBelow, LevelFacts
  <2>3. j \in 0 .. npl[m]-1
    BY <2>1, <2>2
  <2>4. l = m /\ k = j
    BY <2>1, <2>2, <2>3, OneLevel
  <2> QED
    BY <2>1, <2>2, <2>4
<1> QED
  BY <1>1, <1>2, <1>3

LEMMA FatherAt ==
  ASSUME NEW l \in Level, NEW k \in 0 .. npl[l]-1, l > 0
  PROVE  Father(l, First[l] + k) \in InnerNode /\ KidOf(First[l] + k, Father(l, First[l] + k))
<1> DEFINE m == l - 1
           h == k \div 2
<1>1. m \in 0 .. LOG2T-1 /\ m+1 = l
  BY LevelFacts
<1>2. npl[m+1] = 2 * Inner(m) /\ Inner(m) \in Nat /\ First[m+1] \in Nat
  BY <1>1, LevelBelow, LevelFacts
<1> HIDE DEF m
<1>3. h \in 0 .. Inner(m)-1 /\ (k = 2*h \/ k = 2*h + 1)
  BY <1>1, <1>2
<1> HIDE DEF h
<1>4. /\ First[m] + h \in InnerNode /\ Kid(First[m] + h) = First[m+1] + 2*h
      /\ Father(m+1, First[m+1] + 2*h) = First[m] + h
      /\ Father(m+1, First[m+1] + 2*h + 1) = First[m] + h
  BY <1>1, <1>3, KidIs, PairOf
<1>5. CASE k = 2*h
  BY <1>1, <1>4, <1>5 DEF KidOf
<1>6. CASE k = 2*h + 1
  <2>1. First[l] + k = First[m+1] + 2*h + 1
    BY <1>1, <1>2, <1>3, <1>6
  <2> QED
    BY <1>1, <1>4, <2>1 DEF KidOf
<1> QED
  BY <1>3, <1>5, <1>6

\* A node has one father.
LEMMA OneFather ==
  ASSUME NEW f \in InnerNode, NEW g \in InnerNode, NEW n, KidOf(n, f), KidOf(n, g)
  PROVE  f = g
<1>1. f \in Nat /\ g \in Nat /\ Kid(f) \in Nat /\ Kid(g) \in Nat
  BY KidFacts
<1>2. ~ (f < g) /\ ~ (g < f)
  BY <1>1, KidsInOrder DEF KidOf
<1> QED
  BY <1>1, <1>2

-----------------------------------------------------------------------------
(* gen_seed_tree.                                                          *)

Seeds(t) == t = [n \in Node |-> t[n]]

\* The children of all fathers before a are expanded from them.
ExpandedTo(t, a) ==
  \A f \in InnerNode : f < a =>
    t[Kid(f)] = Xof(t[f], f, 0) /\ t[Kid(f) + 1] = Xof(t[f], f, 1)

LEMMA ExpandFacts ==
  ASSUME NEW l \in Level, NEW k \in 0 .. npl[l]-1, k < Inner(l), NEW t, Seeds(t)
  PROVE  LET f == First[l] + k
             u == Expanded(t, l, f)
         IN  /\ f \in InnerNode /\ Seeds(u)
             /\ u[Kid(f)] = Xof(t[f], f, 0) /\ u[Kid(f) + 1] = Xof(t[f], f, 1)
             /\ \A n \in Node : ~ KidOf(n, f) => u[n] = t[n]
<1> DEFINE f == First[l] + k
<1>1. f \in InnerNode /\ LeftChild(l, f) = Kid(f)
  BY NodeAt
<1> HIDE DEF f
<1> DEFINE c == Kid(f)
           x == Xof(t[f], f, 0)
           z == Xof(t[f], f, 1)
           u == [t EXCEPT ![c] = x, ![c + 1] = z]
<1>2. c \in Node /\ c + 1 \in Node /\ c \in Nat
  BY <1>1, KidFacts
<1>3. Expanded(t, l, f) = u
  BY <1>1 DEF Expanded
<1> HIDE DEF c, x, z
<1>4. Seeds(u) /\ u[c] = x /\ u[c + 1] = z /\ \A n \in Node : n # c /\ n # c + 1 => u[n] = t[n]
  <2>1. c # c + 1 /\ t = [n \in Node |-> t[n]]
    BY <1>2 DEF Seeds
  <2>2. u = [n \in Node |-> IF n = c + 1 THEN z ELSE IF n = c THEN x ELSE t[n]]
    BY <1>2, <2>1
  <2> HIDE DEF u
  <2>3. u[c] = x /\ u[c + 1] = z /\ \A n \in Node : n # c /\ n # c + 1 => u[n] = t[n]
    BY <1>2, <2>1, <2>2
  <2>4. Seeds(u)
    BY <2>2 DEF Seeds
  <2> QED
    BY <2>3, <2>4
<1> HIDE DEF u
<1> QED
  BY <1>1, <1>3, <1>4 DEF KidOf, c, x, z, f

LEMMA GenNext ==
  ASSUME NEW l \in Level, NEW k \in 0 .. npl[l]-1, k < Inner(l), NEW t, Seeds(t),
         ExpandedTo(t, First[l] + k)
  PROVE  LET u == Expanded(t, l, First[l] + k)
         IN  Seeds(u) /\ ExpandedTo(u, First[l] + k + 1)
<1> DEFINE f == First[l] + k
           u == Expanded(t, l, f)
<1>1. /\ f \in InnerNode /\ Seeds(u)
      /\ u[Kid(f)] = Xof(t[f], f, 0) /\ u[Kid(f) + 1] = Xof(t[f], f, 1)
      /\ \A n \in Node : ~ KidOf(n, f) => u[n] = t[n]
  BY ExpandFacts
<1> HIDE DEF u, f
<1>2. /\ f \in Nat /\ f \in Node /\ Kid(f) \in Nat /\ f < Kid(f)
  BY <1>1, KidFacts
<1>3. ~ KidOf(f, f)
  BY <1>2 DEF KidOf
<1>4. ASSUME NEW g \in InnerNode, g < f+1
      PROVE  u[Kid(g)] = Xof(u[g], g, 0) /\ u[Kid(g) + 1] = Xof(u[g], g, 1)
  <2>1. /\ g \in Nat /\ g \in Node /\ Kid(g) \in Nat /\ g < Kid(g)
        /\ Kid(g) \in Node /\ Kid(g) + 1 \in Node
    BY KidFacts
  <2>2. CASE g = f
    BY <1>1, <1>2, <1>3, <2>2
  <2>3. CASE g # f
    <3>1. g < f
      BY <1>2, <1>4, <2>1, <2>3
    <3>2. Kid(g) + 1 < Kid(f)
      BY <1>1, <3>1, KidsInOrder
    <3>3. ~ KidOf(g, f) /\ ~ KidOf(Kid(g), f) /\ ~ KidOf(Kid(g) + 1, f)
      BY <1>2, <2>1, <3>1, <3>2 DEF KidOf
    <3>4. t[Kid(g)] = Xof(t[g], g, 0) /\ t[Kid(g) + 1] = Xof(t[g], g, 1)
      BY <3>1 DEF ExpandedTo, f
    <3> QED
      BY <1>1, <2>1, <3>3, <3>4
  <2> QED
    BY <2>2, <2>3
<1>5. Seeds(u) /\ ExpandedTo(u, f + 1)
  BY <1>1, <1>4 DEF ExpandedTo
<1> QED
  BY <1>5 DEF u, f

-----------------------------------------------------------------------------
(* compute_seeds_to_publish.                                               *)

FlagArrays == [Node -> 0..1]

\* The fathers that are done before the pair at place 2*h of level l.
DoneAt(l, h) ==
  {f \in InnerNode : f >= First[l] \/ (f >= First[l-1] /\ f < First[l-1] + h)}

LeavesFlagged(s) == \A r \in Round : s[LeafNode[r]] = chall_2[r]
BothSet(s, f)    == s[Kid(f)] = 1 /\ s[Kid(f) + 1] = 1
AndOn(s, D)      == \A f \in D : s[f] = IF BothSet(s, f) THEN 1 ELSE 0
AgreeOn(v, s, D) == \A f \in D : v[f] = s[f]

\* A flag that is not set, on its way to the root.
Settled(n, D)    == n \in D \/ \E r \in Round : LeafNode[r] = n
ClearOn(s, D)    ==
  \E n \in Node : Settled(n, D) /\ s[n] = 0 /\ \A f \in D : ~ KidOf(n, f)

LEMMA KidsBelow ==
  ASSUME NEW m \in 0 .. LOG2T-1, NEW g \in InnerNode, g >= First[m]
  PROVE  Kid(g) >= First[m+1] /\ Kid(g) + 1 >= First[m+1] /\ First[m+1] \in Nat
<1>1. PICK l \in 0 .. LOG2T-1, k \in Nat : k \in 0 .. Inner(l)-1 /\ g = First[l] + k
  BY PlaceOf
<1>2. /\ l \in Level /\ l+1 \in Level /\ m \in Level /\ m+1 \in Level
      /\ Inner(l) <= npl[l] /\ Inner(l) \in Nat /\ npl[l] \in Nat
      /\ First[l+1] = First[l] + npl[l] /\ First[l] \in Nat /\ First[m] \in Nat
      /\ First[m+1] \in Nat /\ First[l+1] \in Nat
  BY LevelBelow, LevelFacts
<1>3. g < First[l+1]
  BY <1>1, <1>2
<1>4. m <= l
  <2>1. SUFFICES ASSUME l+1 <= m
                 PROVE  FALSE
    BY <1>2, RoundAssumption
  <2>2. l+1 \in 0 .. LOG2T+1 /\ m \in 0 .. LOG2T+1
    BY RoundAssumption
  <2>3. First[l+1] <= First[m]
    BY <2>1, <2>2, LevelOrder
  <2> QED
    BY <1>2, <1>3, <2>3, KidFacts
<1>5. First[m+1] <= First[l+1]
  <2>1. l+1 \in 0 .. LOG2T+1 /\ m+1 \in 0 .. LOG2T+1 /\ m+1 <= l+1
    BY <1>4, RoundAssumption
  <2> QED
    BY <2>1, LevelOrder
<1>6. Kid(g) = First[l+1] + 2*k
  BY <1>1, KidIs
<1> QED
  BY <1>1, <1>2, <1>5, <1>6

\* Pairs j to m-1 of level l = b+1 are combined.
FathersOf(b, j, m) == {f \in InnerNode : f >= First[b] + j /\ f < First[b] + m}

LEMMA CombineFacts ==
  ASSUME NEW b \in 0 .. LOG2T-1, NEW s \in FlagArrays,
         NEW j \in Nat, NEW m \in Nat, m <= Inner(b),
         NEW left, left = {First[b+1] + 2*h : h \in j .. m-1}
  PROVE  LET u == Combined(s, b+1, left)
         IN  /\ u \in FlagArrays
             /\ \A n \in Node : n \notin FathersOf(b, j, m) => u[n] = s[n]
             /\ \A f \in FathersOf(b, j, m) : u[f] = IF BothSet(s, f) THEN 1 ELSE 0
<1> DEFINE u == Combined(s, b+1, left)
<1>1. First[b] \in Nat /\ First[b+1] \in Nat /\ Inner(b) \in Nat
  BY LevelBelow, LevelFacts
<1>2. ASSUME NEW c \in left
      PROVE  /\ Father(b+1, c) \in FathersOf(b, j, m)
             /\ Kid(Father(b+1, c)) = c /\ SIBLING(c) = c + 1
  <2>1. PICK h \in j .. m-1 : c = First[b+1] + 2*h
    OBVIOUS
  <2>2. h \in 0 .. Inner(b)-1
    BY <1>1, <2>1
  <2>3. /\ Father(b+1, c) = First[b] + h /\ First[b] + h \in InnerNode
        /\ Kid(First[b] + h) = c /\ SIBLING(c) = c + 1
    BY <2>1, <2>2, PairOf, KidIs
  <2> QED
    BY <1>1, <2>1, <2>3 DEF FathersOf
<1>3. ASSUME NEW f \in FathersOf(b, j, m)
      PROVE  Kid(f) \in left /\ Father(b+1, Kid(f)) = f /\ f \in Node
  <2> DEFINE h == f - First[b]
  <2>1. f \in InnerNode /\ f \in Nat /\ f \in Node /\ f >= First[b] + j /\ f < First[b] + m
    BY KidFacts DEF FathersOf
  <2>2. h \in 0 .. Inner(b)-1 /\ h \in j .. m-1 /\ First[b] + h = f
    BY <1>1, <2>1
  <2> HIDE DEF h
  <2>3. Kid(f) = First[b+1] + 2*h /\ Father(b+1, First[b+1] + 2*h) = f
    BY <2>2, KidIs, PairOf
  <2> QED
    BY <2>1, <2>2, <2>3
<1>4. ASSUME NEW n \in Node, n \notin FathersOf(b, j, m)
      PROVE  u[n] = s[n]
  <2>1. ~ \E c \in left : n = Father(b+1, c)
    BY <1>2, <1>4
  <2> QED
    BY <2>1 DEF Combined
<1>5. ASSUME NEW f \in FathersOf(b, j, m)
      PROVE  u[f] = IF BothSet(s, f) THEN 1 ELSE 0
  <2> DEFINE d == CHOOSE c \in left : f = Father(b+1, c)
  <2>1. \E c \in left : f = Father(b+1, c)
    BY <1>3
  <2>2. d \in left /\ f = Father(b+1, d)
    BY <2>1
  <2>3. u[f] = IF s[d] = 1 /\ s[SIBLING(d)] = 1 THEN 1 ELSE 0
    BY <1>3, <2>1 DEF Combined
  <2> HIDE DEF d, u
  <2>4. Kid(f) = d /\ SIBLING(d) = d + 1
    BY <1>2, <2>2
  <2> QED
    BY <2>3, <2>4 DEF BothSet
<1>6. u \in FlagArrays
  <2>1. \A n \in Node : u[n] \in 0..1
    <3>1. \A n \in Node : s[n] \in 0..1
      BY DEF FlagArrays
    <3> HIDE DEF u
    <3> QED
      BY <1>4, <1>5, <3>1
  <2>2. u = [n \in Node |-> u[n]]
    BY DEF Combined
  <2> HIDE DEF u
  <2> QED
    BY <2>1, <2>2 DEF FlagArrays
<1> QED
  BY <1>4, <1>5, <1>6

LEMMA DoneNext ==
  ASSUME NEW b \in 0 .. LOG2T-1, NEW j \in Nat, NEW m \in Nat, j <= m, m <= Inner(b)
  PROVE  /\ DoneAt(b+1, m) = DoneAt(b+1, j) \cup FathersOf(b, j, m)
         /\ DoneAt(b+1, j) \cap FathersOf(b, j, m) = {}
         /\ \A f \in DoneAt(b+1, m) : \A g \in FathersOf(b, j, m) : ~ KidOf(g, f)
         /\ \A f \in FathersOf(b, j, m) : \A n \in {Kid(f), Kid(f) + 1} :
              Settled(n, DoneAt(b+1, j)) /\ n \in Node
<1>1. /\ First[b] \in Nat /\ First[b+1] \in Nat /\ Inner(b) \in Nat /\ npl[b] \in Nat
      /\ First[b+1] = First[b] + npl[b] /\ Inner(b) <= npl[b] /\ (b+1) - 1 = b
  BY LevelBelow, LevelFacts
<1>2. \A f \in InnerNode : f \in Nat
  BY KidFacts
<1>3. \A f \in FathersOf(b, j, m) : f < First[b+1] /\ f \in InnerNode
  BY <1>1, <1>2 DEF FathersOf
<1>4. DoneAt(b+1, m) = DoneAt(b+1, j) \cup FathersOf(b, j, m)
  BY <1>1, <1>2 DEF DoneAt, FathersOf
<1>5. DoneAt(b+1, j) \cap FathersOf(b, j, m) = {}
  BY <1>1, <1>2 DEF DoneAt, FathersOf
<1>6. ASSUME NEW f \in DoneAt(b+1, m), NEW g \in FathersOf(b, j, m)
      PROVE  ~ KidOf(g, f)
  <2>1. f \in InnerNode /\ f >= First[b]
    BY <1>1, <1>2 DEF DoneAt
  <2>2. Kid(f) >= First[b+1] /\ Kid(f) + 1 >= First[b+1] /\ Kid(f) \in Nat
    BY <2>1, KidsBelow, KidFacts
  <2>3. g < First[b+1] /\ g \in Nat
    BY <1>2, <1>3
  <2> QED
    BY <1>1, <2>2, <2>3 DEF KidOf
<1>7. ASSUME NEW f \in FathersOf(b, j, m), NEW n \in {Kid(f), Kid(f) + 1}
      PROVE  Settled(n, DoneAt(b+1, j)) /\ n \in Node
  <2>1. f \in InnerNode /\ f >= First[b]
    BY <1>1, <1>2 DEF FathersOf
  <2>2. n >= First[b+1]
    BY <2>1, KidsBelow
  <2>3. Known(n) /\ n \in Node
    BY <2>1, KidsKnown, KidFacts
  <2> QED
    BY <2>2, <2>3 DEF Known, Settled, DoneAt
<1> QED
  BY <1>4, <1>5, <1>6, <1>7

\* What a round of the loop keeps, for as many pairs as it combines.
LEMMA ComputeNext ==
  ASSUME NEW b \in 0 .. LOG2T-1, NEW j \in Nat, NEW m \in Nat, j <= m, m <= Inner(b),
         NEW s \in FlagArrays, LeavesFlagged(s), AndOn(s, DoneAt(b+1, j)),
         ClearOn(s, DoneAt(b+1, j)),
         NEW left, left = {First[b+1] + 2*h : h \in j .. m-1},
         NEW u, u = Combined(s, b+1, left)
  PROVE  /\ u \in FlagArrays /\ LeavesFlagged(u) /\ AndOn(u, DoneAt(b+1, m))
         /\ ClearOn(u, DoneAt(b+1, m))
         /\ \A t : LeavesFlagged(t) /\ AndOn(t, InnerNode) /\ AgreeOn(s, t, DoneAt(b+1, j))
                     => AgreeOn(u, t, DoneAt(b+1, m))
<1> DEFINE C == DoneAt(b+1, j)
           D == DoneAt(b+1, m)
           F == FathersOf(b, j, m)
<1>1. /\ D = C \cup F /\ C \cap F = {} /\ C \in SUBSET InnerNode /\ F \in SUBSET InnerNode
      /\ \A f \in D : \A g \in F : ~ KidOf(g, f)
      /\ \A f \in F : \A n \in {Kid(f), Kid(f) + 1} : Settled(n, C) /\ n \in Node
  BY DoneNext DEF DoneAt, FathersOf
<1>2. /\ u \in FlagArrays
      /\ \A n \in Node : n \notin F => u[n] = s[n]
      /\ \A f \in F : u[f] = IF BothSet(s, f) THEN 1 ELSE 0
  BY CombineFacts
<1> HIDE DEF C, D, F
<1>3. LeavesFlagged(u)
  BY <1>1, <1>2, LeavesApart DEF LeavesFlagged
<1>4. ASSUME NEW f \in D
      PROVE  BothSet(u, f) = BothSet(s, f)
  <2>1. Kid(f) \in Node /\ Kid(f) + 1 \in Node
    BY <1>1, KidFacts
  <2>2. Kid(f) \notin F /\ Kid(f) + 1 \notin F
    BY <1>1 DEF KidOf
  <2> QED
    BY <1>2, <2>1, <2>2 DEF BothSet
<1>5. \A f \in C : u[f] = s[f]
  BY <1>1, <1>2, KidFacts
<1>6. AndOn(u, D)
  BY <1>1, <1>2, <1>4, <1>5 DEF AndOn, C
<1>7. ClearOn(u, D)
  <2>1. PICK n \in Node : Settled(n, C) /\ s[n] = 0 /\ \A f \in C : ~ KidOf(n, f)
    BY DEF ClearOn, C
  <2>2. n \notin F
    BY <1>1, <2>1, LeavesApart DEF Settled
  <2>3. u[n] = 0 /\ Settled(n, D)
    BY <1>1, <1>2, <2>1, <2>2 DEF Settled
  <2>4. CASE \A f \in F : ~ KidOf(n, f)
    BY <1>1, <2>1, <2>3, <2>4 DEF ClearOn
  <2>5. CASE \E f \in F : KidOf(n, f)
    <3>1. PICK f \in F : KidOf(n, f)
      BY <2>5
    <3>2. u[f] = 0
      BY <1>2, <2>1, <3>1 DEF BothSet, KidOf
    <3>3. f \in Node /\ Settled(f, D)
      BY <1>1, KidFacts DEF Settled
    <3> QED
      BY <1>1, <3>2, <3>3 DEF ClearOn
  <2> QED
    BY <2>4, <2>5
<1>8. ASSUME NEW t, LeavesFlagged(t), AndOn(t, InnerNode), AgreeOn(s, t, C)
      PROVE  AgreeOn(u, t, D)
  <2>1. ASSUME NEW f \in F
        PROVE  u[f] = t[f]
    <3>1. \A n \in {Kid(f), Kid(f) + 1} : s[n] = t[n]
      BY <1>1, <1>8 DEF Settled, AgreeOn, LeavesFlagged
    <3>2. BothSet(s, f) = BothSet(t, f)
      BY <3>1 DEF BothSet
    <3>3. t[f] = IF BothSet(t, f) THEN 1 ELSE 0
      BY <1>1, <1>8 DEF AndOn
    <3> QED
      BY <1>2, <3>2, <3>3
  <2> QED
    BY <1>1, <1>5, <1>8, <2>1 DEF AgreeOn
<1> QED
  BY <1>2, <1>3, <1>6, <1>7, <1>8 DEF C, D

\* The next level up, the first one, and the last one.
LEMMA DoneLevel ==
  ASSUME NEW b \in 0 .. LOG2T-1
  PROVE  /\ b > 0 => DoneAt(b+1, Inner(b)) = DoneAt(b, 0)
         /\ b = 0 => DoneAt(b+1, Inner(b)) = InnerNode
<1>1. /\ First[b] \in Nat /\ First[b+1] \in Nat /\ Inner(b) \in Nat /\ npl[b] \in Nat
      /\ First[b+1] = First[b] + npl[b] /\ Inner(b) <= npl[b] /\ (b+1) - 1 = b /\ b \in Nat
  BY LevelBelow, LevelFacts
<1>2. \A f \in InnerNode : f \in Nat
  BY KidFacts
<1>3. \A f \in InnerNode : f >= First[b] + Inner(b) => f >= First[b+1]
  BY NoFatherBetween
<1>4. DoneAt(b+1, Inner(b)) = {f \in InnerNode : f >= First[b]}
  BY <1>1, <1>2, <1>3 DEF DoneAt
<1>5. ASSUME b > 0
      PROVE  DoneAt(b+1, Inner(b)) = DoneAt(b, 0)
  <2>1. b-1 \in Level
    BY <1>1, <1>5, LevelBelow, LevelFacts DEF Level
  <2>2. First[b-1] \in Nat
    BY <2>1, LevelFacts
  <2>3. DoneAt(b, 0) = {f \in InnerNode : f >= First[b]}
    BY <1>1, <1>2, <2>2 DEF DoneAt
  <2> QED
    BY <1>4, <1>5, <2>3
<1>6. ASSUME b = 0
      PROVE  DoneAt(b+1, Inner(b)) = InnerNode
  <2>1. First[b] = 0
    BY <1>6, FirstNode
  <2>2. {f \in InnerNode : f >= First[b]} = InnerNode
    BY <1>2, <2>1
  <2> QED
    BY <1>4, <2>2, Zenon
<1> QED
  BY <1>5, <1>6, Zenon

LEMMA DoneFirst == DoneAt(LOG2T, 0) = {}
<1>1. LOG2T-1 \in Level /\ LOG2T \in Level
  BY RoundAssumption DEF Level
<1>2. First[LOG2T] \in Nat /\ First[LOG2T-1] \in Nat
  BY <1>1, LevelFacts
<1>3. \A f \in InnerNode : f \in Nat /\ f < First[LOG2T]
  BY KidFacts, NoFatherBelow
<1> QED
  BY <1>2, <1>3 DEF DoneAt

\* What is done in the end: a flag that is not set has reached the root.
LEMMA RootClear ==
  ASSUME NEW s, ClearOn(s, InnerNode)
  PROVE  s[0] = 0
<1>1. PICK n \in Node : Settled(n, InnerNode) /\ s[n] = 0 /\ \A f \in InnerNode : ~ KidOf(n, f)
  BY DEF ClearOn
<1>2. Known(n)
  BY <1>1 DEF Settled, Known
<1> QED
  BY <1>1, <1>2, HasFather DEF KidOf

\* label_leaves, on an array nothing was written to.
Labels == [n \in Node |-> IF \E r \in Round : LeafNode[r] = n /\ chall_2[r] = 1
                          THEN 1 ELSE 0]

LEMMA LabelsFacts ==
  ASSUME chall_2 \in Challenges
  PROVE  Labels \in FlagArrays /\ LeavesFlagged(Labels) /\ ClearOn(Labels, {})
<1>1. Labels \in FlagArrays
  BY DEF Labels, FlagArrays
<1>2. ASSUME NEW r \in Round
      PROVE  Labels[LeafNode[r]] = chall_2[r] /\ LeafNode[r] \in Node
  <2>1. LeafNode[r] \in Node
    BY LeavesApart
  <2>2. \A q \in Round : LeafNode[q] = LeafNode[r] => q = r
    BY LeafAssumption
  <2>3. chall_2[r] \in 0..1
    BY DEF Challenges
  <2> QED
    BY <2>1, <2>2, <2>3 DEF Labels
<1>3. \E r \in Round : chall_2[r] = 0
  <2>1. SUFFICES ASSUME \A r \in Round : chall_2[r] = 1
                 PROVE  FALSE
    BY DEF Challenges
  <2>2. {r \in Round : chall_2[r] = 1} = Round
    BY <2>1
  <2>3. Cardinality(Round) = W
    BY <2>2 DEF Challenges
  <2>4. Cardinality(0 .. T-1) = T
    BY FS_Interval, RoundAssumption
  <2> QED
    BY <2>3, <2>4, RoundAssumption DEF Round
<1>4. ClearOn(Labels, {})
  BY <1>2, <1>3 DEF ClearOn, Settled
<1> QED
  BY <1>1, <1>2, <1>4 DEF LeavesFlagged

-----------------------------------------------------------------------------
(* seed_path.                                                              *)

\* The nodes before p that seed_path sends.
SentTo(s, p) ==
  {n \in Node : n < p /\ s[n] = 1 /\ \E f \in InnerNode : KidOf(n, f) /\ s[f] = 0}
CountTo(s, p) == Cardinality(SentTo(s, p))

StoredTo(s, t, pa, p) ==
  \A n \in SentTo(s, p) : CountTo(s, n) \in Slot => pa[CountTo(s, n)] = t[n]
EmptyFrom(s, pa, p)   == \A k \in Slot : k >= CountTo(s, p) => pa[k] = Zero

LEMMA SentFinite ==
  ASSUME NEW s, NEW p
  PROVE  IsFiniteSet(SentTo(s, p)) /\ CountTo(s, p) \in Nat
<1>1. SentTo(s, p) \in SUBSET Node
  BY DEF SentTo
<1> QED
  BY <1>1, NodesFinite DEF CountTo

\* What one more node does to the count.
LEMMA SentNext ==
  ASSUME NEW s, NEW p \in Node
  PROVE  /\ p \in SentTo(s, p+1) => SentTo(s, p+1) = SentTo(s, p) \cup {p}
                                    /\ CountTo(s, p+1) = CountTo(s, p) + 1
         /\ p \notin SentTo(s, p+1) => SentTo(s, p+1) = SentTo(s, p)
                                       /\ CountTo(s, p+1) = CountTo(s, p)
<1>1. p \in Int /\ \A n \in Node : n \in Int
  BY RoundAssumption DEF Node
<1>2. \A n \in Node : n < p+1 <=> n < p \/ n = p
  BY <1>1
<1>3. p \notin SentTo(s, p)
  BY <1>1 DEF SentTo
<1>4. CASE p \in SentTo(s, p+1)
  <2>1. SentTo(s, p+1) = SentTo(s, p) \cup {p}
    BY <1>2, <1>4 DEF SentTo
  <2>2. Cardinality(SentTo(s, p) \cup {p}) = Cardinality(SentTo(s, p)) + 1
    BY <1>3, SentFinite, FS_AddElement
  <2> QED
    BY <1>4, <2>1, <2>2 DEF CountTo
<1>5. CASE p \notin SentTo(s, p+1)
  <2>1. SentTo(s, p+1) = SentTo(s, p)
    BY <1>2, <1>5 DEF SentTo
  <2> QED
    BY <1>5, <2>1 DEF CountTo
<1> QED
  BY <1>4, <1>5

LEMMA SentGrows ==
  ASSUME NEW s, NEW p \in Int, NEW n \in SentTo(s, p)
  PROVE  CountTo(s, n) < CountTo(s, p)
<1>1. n \in Node /\ n \in Int /\ n < p
  BY RoundAssumption DEF SentTo, Node
<1>2. n \in SentTo(s, n+1)
  BY <1>1 DEF SentTo
<1>3. CountTo(s, n+1) = CountTo(s, n) + 1
  BY <1>1, <1>2, SentNext
<1>4. SentTo(s, n+1) \in SUBSET SentTo(s, p)
  <2>1. \A m \in Node : m \in Int
    BY RoundAssumption DEF Node
  <2>2. \A m \in Node : m < n+1 => m < p
    BY <1>1, <2>1
  <2> QED
    BY <2>2 DEF SentTo
<1>5. CountTo(s, n+1) <= CountTo(s, p)
  BY <1>4, SentFinite, FS_Subset DEF CountTo
<1> QED
  BY <1>3, <1>5, SentFinite

\* Sent, as seed_path and rebuild_tree compute it.
LEMMA SentIs ==
  ASSUME NEW l \in Level, NEW k \in 0 .. npl[l]-1, l > 0, NEW s \in FlagArrays
  PROVE  Sent(s, l, First[l] + k) <=> First[l] + k \in SentTo(s, First[l] + k + 1)
<1> DEFINE n == First[l] + k
           f == Father(l, n)
<1>1. f \in InnerNode /\ KidOf(n, f) /\ n \in Node /\ n \in Nat
  BY FatherAt, NodeAt
<1>2. \A g \in InnerNode : KidOf(n, g) => g = f
  BY <1>1, OneFather
<1>3. Sent(s, l, n) <=> s[n] = 1 /\ s[f] = 0
  BY DEF Sent
<1>4. n < n + 1
  BY <1>1
<1> HIDE DEF n, f
<1>5. Sent(s, l, n) <=> n \in SentTo(s, n + 1)
  BY <1>1, <1>2, <1>3, <1>4 DEF SentTo
<1> QED
  BY <1>5 DEF n

LEMMA PathNext ==
  ASSUME NEW s, NEW t, NEW pa, pa = [k \in Slot |-> pa[k]], NEW p \in Node,
         StoredTo(s, t, pa, p), EmptyFrom(s, pa, p),
         NEW qa, qa = IF p \in SentTo(s, p+1)
                      THEN [pa EXCEPT ![CountTo(s, p)] = t[p]] ELSE pa
  PROVE  qa = [k \in Slot |-> qa[k]] /\ StoredTo(s, t, qa, p+1) /\ EmptyFrom(s, qa, p+1)
<1> DEFINE c == CountTo(s, p)
<1>1. p \in Int /\ p+1 \in Int /\ \A n \in Node : n \in Int
  BY RoundAssumption DEF Node
<1>2. CASE p \notin SentTo(s, p+1)
  <2>1. qa = pa /\ SentTo(s, p+1) = SentTo(s, p) /\ CountTo(s, p+1) = CountTo(s, p)
    BY <1>2, SentNext
  <2> QED
    BY <2>1 DEF StoredTo, EmptyFrom
<1>3. CASE p \in SentTo(s, p+1)
  <2>1. /\ SentTo(s, p+1) = SentTo(s, p) \cup {p} /\ CountTo(s, p+1) = c + 1
        /\ c \in Nat
    BY <1>3, SentNext, SentFinite
  <2>2. qa = [pa EXCEPT ![c] = t[p]]
    BY <1>3
  <2> HIDE DEF c
  <2>3. /\ qa = [k \in Slot |-> qa[k]] /\ (c \in Slot => qa[c] = t[p])
        /\ \A k \in Slot : k # c => qa[k] = pa[k]
    BY <2>2
  <2>4. ASSUME NEW n \in SentTo(s, p+1), CountTo(s, n) \in Slot
        PROVE  qa[CountTo(s, n)] = t[n]
    <3>1. CASE n = p
      BY <2>3, <2>4, <3>1 DEF c
    <3>2. CASE n # p
      <4>1. n \in SentTo(s, p)
        BY <2>1, <2>4, <3>2
      <4>2. CountTo(s, n) < c /\ CountTo(s, n) \in Nat
        BY <1>1, <4>1, SentGrows, SentFinite DEF c
      <4>3. CountTo(s, n) # c
        BY <2>1, <4>2
      <4> QED
        BY <2>3, <2>4, <4>1, <4>3 DEF StoredTo
    <3> QED
      BY <3>1, <3>2
  <2>5. ASSUME NEW k \in Slot, k >= CountTo(s, p+1)
        PROVE  qa[k] = Zero
    <3>1. k >= c /\ k # c
      BY <2>1, <2>5, RoundAssumption DEF Slot
    <3> QED
      BY <2>3, <3>1 DEF EmptyFrom, c
  <2> QED
    BY <2>3, <2>4, <2>5 DEF StoredTo, EmptyFrom
<1> QED
  BY <1>2, <1>3

-----------------------------------------------------------------------------
(* rebuild_tree.                                                           *)

\* What rebuild_tree has made of the path, whether it arrived as it was sent or
\* not: the sent nodes before a are loaded, in their order, and the published
\* fathers before b are expanded ...
Grown(s, t, pa, a, b) ==
  /\ \A n \in SentTo(s, a) : t[n] = pa[CountTo(s, n)]
  /\ \A f \in InnerNode : f < b /\ s[f] = 1 =>
       t[Kid(f)] = Xof(t[f], f, 0) /\ t[Kid(f) + 1] = Xof(t[f], f, 1)

\* ... and nothing at all at those that are not published.
Blank(s, t) == \A n \in Node : Known(n) /\ s[n] = 0 => t[n] = Zero

\* All slots of the path are there, as they were sent.
Arrived(s, ts, pa) == StoredTo(s, ts, pa, 2*T-1) /\ CountTo(s, 2*T-1) <= NodesToStore

LEMMA SlotArrived ==
  ASSUME NEW s, NEW ts, NEW pa, Arrived(s, ts, pa), NEW p \in Node, p \in SentTo(s, p+1)
  PROVE  pa[CountTo(s, p)] = ts[p]
<1>1. p \in Int /\ p < 2*T-1 /\ 2*T-1 \in Int
  BY RoundAssumption DEF Node
<1>2. p \in SentTo(s, 2*T-1)
  BY <1>1 DEF SentTo
<1>3. CountTo(s, p) < CountTo(s, 2*T-1) /\ CountTo(s, p) \in Nat /\ CountTo(s, 2*T-1) \in Nat
  BY <1>1, <1>2, SentGrows, SentFinite
<1>4. CountTo(s, p) \in Slot
  BY <1>3, RoundAssumption DEF Slot, Arrived
<1> QED
  BY <1>2, <1>4 DEF Arrived, StoredTo

\* A node that is sent has no published father.
LEMMA NoPublishedFather ==
  ASSUME NEW s, NEW a, NEW n \in SentTo(s, a), NEW f \in InnerNode, s[f] = 1
  PROVE  ~ KidOf(n, f)
<1>1. PICK g \in InnerNode : KidOf(n, g) /\ s[g] = 0
  BY DEF SentTo
<1>2. g # f
  BY <1>1
<1> QED
  BY <1>1, <1>2, OneFather

LEMMA LoadNext ==
  ASSUME NEW s \in FlagArrays, NEW pa, NEW p \in Node, NEW b \in Int, b <= p,
         NEW t, Seeds(t), Blank(s, t),
         NEW u, u = IF p \in SentTo(s, p+1) THEN [t EXCEPT ![p] = pa[CountTo(s, p)]] ELSE t
  PROVE  /\ Seeds(u) /\ Blank(s, u)
         /\ Grown(s, t, pa, p, b) => Grown(s, u, pa, p+1, b)
<1>1. CASE p \notin SentTo(s, p+1)
  <2>1. u = t /\ SentTo(s, p+1) = SentTo(s, p)
    BY <1>1, SentNext
  <2> QED
    BY <2>1 DEF Grown
<1>2. CASE p \in SentTo(s, p+1)
  <2>1. SentTo(s, p+1) = SentTo(s, p) \cup {p} /\ s[p] = 1
    BY <1>2, SentNext DEF SentTo
  <2>2. /\ Seeds(u) /\ u[p] = pa[CountTo(s, p)]
        /\ \A n \in Node : n # p => u[n] = t[n]
    BY <1>2 DEF Seeds
  <2>3. Blank(s, u)
    BY <2>1, <2>2 DEF Blank
  <2>4. ASSUME Grown(s, t, pa, p, b)
        PROVE  Grown(s, u, pa, p+1, b)
    <3>1. ASSUME NEW n \in SentTo(s, p+1)
          PROVE  u[n] = pa[CountTo(s, n)]
      <4>1. CASE n = p
        BY <2>2, <4>1
      <4>2. CASE n # p
        <5>1. n \in SentTo(s, p) /\ n \in Node
          BY <2>1, <3>1, <4>2 DEF SentTo
        <5> QED
          BY <2>2, <2>4, <4>2, <5>1 DEF Grown
      <4> QED
        BY <4>1, <4>2
    <3>2. ASSUME NEW f \in InnerNode, f < b, s[f] = 1
          PROVE  u[Kid(f)] = Xof(u[f], f, 0) /\ u[Kid(f) + 1] = Xof(u[f], f, 1)
      <4>1. f \in Node /\ f \in Nat /\ Kid(f) \in Node /\ Kid(f) + 1 \in Node
        BY KidFacts
      <4>2. f # p
        BY <3>2, <4>1, RoundAssumption DEF Node
      <4>3. Kid(f) # p /\ Kid(f) + 1 # p
        BY <1>2, <3>2, NoPublishedFather DEF KidOf
      <4> QED
        BY <2>2, <2>4, <3>2, <4>1, <4>2, <4>3 DEF Grown
    <3> QED
      BY <3>1, <3>2 DEF Grown
  <2> QED
    BY <2>2, <2>3, <2>4
<1> QED
  BY <1>1, <1>2

\* A node that is not expanded.
LEMMA NotExpanded ==
  ASSUME NEW s, NEW t, NEW pa, NEW a, NEW g \in Nat, g \notin InnerNode \/ s[g] # 1,
         Grown(s, t, pa, a, g)
  PROVE  Grown(s, t, pa, a, g+1)
<1>1. \A f \in InnerNode : f < g+1 /\ s[f] = 1 => f < g
  BY KidFacts
<1> QED
  BY <1>1 DEF Grown

LEMMA ExpandNext ==
  ASSUME NEW s \in FlagArrays, AndOn(s, InnerNode), NEW pa, NEW a,
         NEW t, Seeds(t), Blank(s, t),
         NEW l \in Level, NEW k \in 0 .. npl[l]-1, k < Inner(l),
         NEW g, g = First[l] + k, s[g] = 1,
         NEW u, u = Expanded(t, l, g)
  PROVE  /\ Seeds(u) /\ Blank(s, u)
         /\ Grown(s, t, pa, a, g) => Grown(s, u, pa, a, g+1)
<1>1. /\ g \in InnerNode /\ Seeds(u)
      /\ u[Kid(g)] = Xof(t[g], g, 0) /\ u[Kid(g) + 1] = Xof(t[g], g, 1)
      /\ \A n \in Node : ~ KidOf(n, g) => u[n] = t[n]
  BY ExpandFacts
<1>2. g \in Nat /\ g \in Node /\ Kid(g) \in Nat /\ g < Kid(g)
  BY <1>1, KidFacts
<1>3. s[Kid(g)] = 1 /\ s[Kid(g) + 1] = 1
  BY <1>1 DEF AndOn, BothSet
<1>4. Blank(s, u)
  BY <1>1, <1>3 DEF Blank, KidOf
<1>5. ASSUME Grown(s, t, pa, a, g)
      PROVE  Grown(s, u, pa, a, g+1)
  <2>1. ASSUME NEW n \in SentTo(s, a)
        PROVE  u[n] = pa[CountTo(s, n)]
    <3>1. n \in Node /\ ~ KidOf(n, g)
      BY <1>1, <2>1, NoPublishedFather DEF SentTo
    <3> QED
      BY <1>1, <1>5, <3>1 DEF Grown
  <2>2. ASSUME NEW f \in InnerNode, f < g+1, s[f] = 1
        PROVE  u[Kid(f)] = Xof(u[f], f, 0) /\ u[Kid(f) + 1] = Xof(u[f], f, 1)
    <3>1. f \in Node /\ f \in Nat /\ Kid(f) \in Node /\ Kid(f) + 1 \in Node
      BY KidFacts
    <3>2. u[f] = t[f]
      BY <1>1, <1>2, <2>2, <3>1 DEF KidOf
    <3>3. CASE f = g
      BY <1>1, <3>2, <3>3
    <3>4. CASE f # g
      <4>1. f < g
        BY <1>2, <2>2, <3>1, <3>4
      <4>2. ~ KidOf(Kid(f), g) /\ ~ KidOf(Kid(f) + 1, g)
        BY <1>1, <3>4, OneFather DEF KidOf
      <4> QED
        BY <1>1, <1>5, <2>2, <3>1, <3>2, <4>1, <4>2 DEF Grown
    <3> QED
      BY <3>3, <3>4
  <2> QED
    BY <2>1, <2>2 DEF Grown
<1> QED
  BY <1>1, <1>4, <1>5

\* From a path that arrived as it was sent the published nodes get the
\* signer's seeds.
LEMMA SeedsArrive ==
  ASSUME NEW s \in FlagArrays, s[0] = 0, NEW ts, ExpandedTo(ts, 2*T-1),
         NEW pa, Arrived(s, ts, pa), NEW t, Grown(s, t, pa, 2*T-1, 2*T-1),
         NEW n, Known(n), s[n] = 1
  PROVE  t[n] = ts[n]
<1> DEFINE D == {m \in Node : Known(m) /\ s[m] = 1 /\ t[m] # ts[m]}
<1>1. SUFFICES ASSUME t[n] # ts[n]
               PROVE  FALSE
  OBVIOUS
<1>2. n \in Node
  BY KidFacts, LeavesApart DEF Known
<1>3. n \in D /\ D \in SUBSET Nat
  BY <1>1, <1>2, RoundAssumption DEF Node
<1> HIDE DEF D
<1>4. PICK x \in D : \A z \in D : x <= z
  BY <1>3, LeastOf
<1>5. x \in Node /\ Known(x) /\ s[x] = 1 /\ t[x] # ts[x] /\ x \in Nat
  BY <1>4, RoundAssumption DEF D, Node
<1>6. PICK f \in InnerNode : KidOf(x, f)
  BY <1>5, HasFather DEF KidOf
<1>7. f \in Node /\ f \in Nat /\ Kid(f) \in Nat /\ f < Kid(f) /\ s[f] \in 0..1
      /\ Known(f) /\ f < 2*T-1
  BY KidFacts, RoundAssumption DEF FlagArrays, Known, Node
<1>8. CASE s[f] = 0
  <2>1. x < x+1 /\ x < 2*T-1
    BY <1>5, RoundAssumption DEF Node
  <2>2. x \in SentTo(s, x+1) /\ x \in SentTo(s, 2*T-1)
    BY <1>5, <1>6, <1>8, <2>1 DEF SentTo
  <2>3. pa[CountTo(s, x)] = ts[x]
    BY <1>5, <2>2, SlotArrived
  <2> QED
    BY <1>5, <2>2, <2>3 DEF Grown
<1>9. CASE s[f] = 1
  <2>1. t[f] = ts[f]
    <3>1. f < x
      BY <1>6, <1>7 DEF KidOf
    <3>2. f \notin D
      BY <1>4, <1>5, <1>7, <3>1
    <3> QED
      BY <1>7, <1>9, <3>2 DEF D
  <2> QED
    BY <1>5, <1>6, <1>7, <1>9, <2>1 DEF Grown, ExpandedTo, KidOf
<1> QED
  BY <1>7, <1>8, <1>9

\* No two seeds of a node are expanded to the same two seeds.
SeedsApart(t, u) ==
  \A f \in InnerNode :
    Xof(t[f], f, 0) = Xof(u[f], f, 0) /\ Xof(t[f], f, 1) = Xof(u[f], f, 1) => t[f] = u[f]

\* The other way round: when the verifier has the signer's seeds of the
\* published rounds, then the path holds what was sent.
LEMMA SeedsMatch ==
  ASSUME NEW s \in FlagArrays, AndOn(s, InnerNode), LeavesFlagged(s),
         NEW ts, ExpandedTo(ts, 2*T-1), NEW pa, NEW t, Grown(s, t, pa, 2*T-1, 2*T-1),
         SeedsApart(t, ts),
         \A r \in Round : chall_2[r] = 1 => t[LeafNode[r]] = ts[LeafNode[r]]
  PROVE  StoredTo(s, ts, pa, 2*T-1)
<1> DEFINE D == {m \in Node : Known(m) /\ s[m] = 1 /\ t[m] # ts[m]}
<1>1. D = {}
  <2>1. SUFFICES ASSUME D # {}
                 PROVE  FALSE
    OBVIOUS
  <2>2. D \in SUBSET Node
    OBVIOUS
  <2> HIDE DEF D
  <2>3. PICK x \in D : \A z \in D : z <= x
    BY <2>1, <2>2, LastNode
  <2>4. x \in Node /\ Known(x) /\ s[x] = 1 /\ t[x] # ts[x]
    BY <2>3 DEF D
  <2>5. x \in InnerNode
    BY <2>4 DEF Known, LeavesFlagged
  <2>6. /\ x \in Nat /\ Kid(x) \in Nat /\ x < Kid(x) /\ x < 2*T-1
        /\ Kid(x) \in Node /\ Kid(x) + 1 \in Node
    BY <2>4, <2>5, KidFacts, RoundAssumption DEF Node
  <2>7. /\ Known(Kid(x)) /\ Known(Kid(x) + 1)
        /\ s[Kid(x)] = 1 /\ s[Kid(x) + 1] = 1
    BY <2>4, <2>5, KidsKnown DEF AndOn, BothSet
  <2>8. Kid(x) \notin D /\ Kid(x) + 1 \notin D
    BY <2>3, <2>6
  <2>9. t[Kid(x)] = ts[Kid(x)] /\ t[Kid(x) + 1] = ts[Kid(x) + 1]
    BY <2>6, <2>7, <2>8 DEF D
  <2>10. Xof(t[x], x, 0) = Xof(ts[x], x, 0) /\ Xof(t[x], x, 1) = Xof(ts[x], x, 1)
    BY <2>4, <2>5, <2>6, <2>9 DEF Grown, ExpandedTo
  <2> QED
    BY <2>4, <2>5, <2>10 DEF SeedsApart
<1>2. ASSUME NEW n \in SentTo(s, 2*T-1)
      PROVE  pa[CountTo(s, n)] = ts[n]
  <2>1. n \in Node /\ Known(n) /\ s[n] = 1
    <3>1. PICK f \in InnerNode : KidOf(n, f)
      BY DEF SentTo
    <3> QED
      BY <3>1, KidsKnown DEF SentTo, KidOf
  <2>2. t[n] = ts[n]
    BY <1>1, <2>1
  <2> QED
    BY <2>2 DEF Grown
<1> QED
  BY <1>2 DEF StoredTo

\* Every slot in use belongs to a node that is sent.
LEMMA SlotOfSent ==
  ASSUME NEW s, NEW last \in 0 .. 2*T-1, NEW k \in Nat, k < CountTo(s, last)
  PROVE  \E n \in SentTo(s, last) : CountTo(s, n) = k
<1> DEFINE S == {p \in 0 .. last : k < CountTo(s, p)}
<1>1. last \in S /\ S \in SUBSET Nat /\ \A p \in S : p \in 0 .. last /\ k < CountTo(s, p)
  BY RoundAssumption
<1>2. \A p \in 0 .. last : p \notin S => CountTo(s, p) <= k
  <2>1. \A p \in 0 .. last : p \notin S => ~ (k < CountTo(s, p))
    OBVIOUS
  <2>2. \A p : CountTo(s, p) \in Nat
    BY SentFinite
  <2> QED
    BY <2>1, <2>2
<1> HIDE DEF S
<1>3. PICK p \in S : \A q \in S : p <= q
  BY <1>1, LeastOf
<1>4. p # 0
  <2>1. SentTo(s, 0) = {}
    BY RoundAssumption DEF SentTo, Node
  <2>2. CountTo(s, 0) = 0
    BY <2>1, FS_EmptySet DEF CountTo
  <2> QED
    BY <1>1, <2>2
<1> DEFINE n == p - 1
<1>5. n \in Node /\ n \in 0 .. last /\ n + 1 = p /\ n < p /\ n < last
  BY <1>1, <1>4, RoundAssumption DEF Node
<1> HIDE DEF n
<1>6. CountTo(s, n) <= k /\ k < CountTo(s, n+1)
  <2>1. n \notin S
    BY <1>1, <1>3, <1>5
  <2> QED
    BY <1>1, <1>2, <1>5, <2>1
<1>7. n \in SentTo(s, n+1) /\ CountTo(s, n+1) = CountTo(s, n) + 1
  BY <1>5, <1>6, SentNext, SentFinite
<1>8. CountTo(s, n) = k
  BY <1>6, <1>7, SentFinite
<1>9. n \in SentTo(s, last)
  BY <1>5, <1>7 DEF SentTo
<1> QED
  BY <1>8, <1>9

\* One path only holds what was sent, and nothing behind it.
LEMMA OnePath ==
  ASSUME NEW s, NEW ts, NEW pa, NEW qa,
         StoredTo(s, ts, pa, 2*T-1), EmptyFrom(s, pa, 2*T-1),
         StoredTo(s, ts, qa, 2*T-1), EmptyFrom(s, qa, 2*T-1)
  PROVE  \A k \in Slot : pa[k] = qa[k]
<1> SUFFICES ASSUME NEW k \in Slot
             PROVE  pa[k] = qa[k]
  OBVIOUS
<1>1. k \in Nat /\ CountTo(s, 2*T-1) \in Nat
  BY SentFinite, RoundAssumption DEF Slot
<1>2. CASE k >= CountTo(s, 2*T-1)
  BY <1>2 DEF EmptyFrom
<1>3. CASE k < CountTo(s, 2*T-1)
  <2>1. PICK n \in SentTo(s, 2*T-1) : CountTo(s, n) = k
    BY <1>1, <1>3, SlotOfSent, RoundAssumption
  <2> QED
    BY <2>1 DEF StoredTo
<1> QED
  BY <1>1, <1>2, <1>3

-----------------------------------------------------------------------------
(* The inductive invariant.                                                *)

SignerSeedTree   == seed_tree["signer"]
VerifierSeedTree == seed_tree["verifier"]
SignerFlagTree   == flags_tree["signer"]
VerifierFlagTree == flags_tree["verifier"]
NextNode         == start_node + i
AllNodes         == 2*T-1

\* Places in the three kinds of loops.
GenPlace  == level \in 0 .. LOG2T-1 /\ start_node = First[level] /\ i \in 0 .. Inner(level)
PairPlace ==
  /\ level \in 1 .. LOG2T /\ start_node = First[level]
  /\ \E h \in 0 .. Inner(level-1) : i = 2*h
NodePlace == level \in 1 .. LOG2T /\ start_node = First[level] /\ i \in 0 .. npl[level]
DonePairs == DoneAt(level, i \div 2)

\* Where a signature is.
Early     == \/ seed_at \in {"gen_seed_tree", "challenge"}
             \/ seed_at = "seed_leaves" /\ seed_by = "signer"
Unpublished == \/ Early
               \/ seed_by = "signer" /\ seed_at \in {"label_leaves", "compute_seeds"}
Published == seed_by = "verifier" \/ seed_at \in {"seed_path", "transit"}
OnItsWay  == seed_by = "verifier" \/ seed_at = "transit"
Untouched == seed_by = "signer" \/ seed_at \in {"label_leaves", "compute_seeds"}
Rebuilt   == seed_by = "verifier" /\ seed_at \in {"seed_leaves", "rebuilt"}

SeedShape ==
  /\ seed_at \in {"gen_seed_tree", "seed_leaves", "challenge", "label_leaves",
                  "compute_seeds", "seed_path", "transit", "rebuild_tree", "rebuilt"}
  /\ seed_by \in Party
  /\ level \in 0 .. LOG2T+1 /\ i \in Nat /\ start_node \in 0 .. 2*T-1
  /\ seed_tree = [p \in Party |-> seed_tree[p]]
  /\ Seeds(SignerSeedTree) /\ Seeds(VerifierSeedTree)
  /\ round_seeds = [p \in Party |-> round_seeds[p]]
  /\ \A p \in Party : round_seeds[p] = [r \in Round |-> round_seeds[p][r]]
  /\ flags_tree \in [Party -> FlagArrays]
  /\ path = [k \in Slot |-> path[k]]
  /\ num_seeds_published \in Nat /\ nodes_used \in Nat
  /\ is_stree_padding_ok \in BOOLEAN
  /\ chall_2 \in [Round -> 0..1] /\ intact \in BOOLEAN

Whose ==
  /\ seed_at \in {"gen_seed_tree", "challenge", "seed_path", "transit"} => seed_by = "signer"
  /\ seed_at \in {"rebuild_tree", "rebuilt"} => seed_by = "verifier"

\* gen_seed_tree runs, or has run.
Growing ==
  /\ seed_at = "gen_seed_tree" => GenPlace /\ ExpandedTo(SignerSeedTree, NextNode)
  /\ seed_at # "gen_seed_tree" => ExpandedTo(SignerSeedTree, AllNodes)
  /\ seed_at # "gen_seed_tree" /\ ~ (seed_at = "seed_leaves" /\ seed_by = "signer") =>
       round_seeds["signer"] = [r \in Round |-> SignerSeedTree[LeafNode[r]]]

Chosen == ~ Early => chall_2 \in Challenges

\* compute_seeds_to_publish runs, or has run for the signer, for the verifier.
Marking ==
  seed_at = "compute_seeds" =>
    /\ PairPlace
    /\ LeavesFlagged(flags_tree[seed_by]) /\ AndOn(flags_tree[seed_by], DonePairs)
    /\ ClearOn(flags_tree[seed_by], DonePairs)
    /\ seed_by = "verifier" => AgreeOn(VerifierFlagTree, SignerFlagTree, DonePairs)
Marked ==
  /\ Published =>
       /\ LeavesFlagged(SignerFlagTree) /\ AndOn(SignerFlagTree, InnerNode)
       /\ SignerFlagTree[0] = 0
  /\ seed_by = "verifier" /\ seed_at \notin {"label_leaves", "compute_seeds"} =>
       LeavesFlagged(VerifierFlagTree) /\ AgreeOn(VerifierFlagTree, SignerFlagTree, InnerNode)

\* seed_path runs, or has run.
Sending ==
  /\ Unpublished => num_seeds_published = 0 /\ \A k \in Slot : path[k] = Zero
  /\ seed_at = "seed_path" =>
       /\ NodePlace /\ num_seeds_published = CountTo(SignerFlagTree, NextNode)
       /\ StoredTo(SignerFlagTree, SignerSeedTree, path, NextNode)
       /\ EmptyFrom(SignerFlagTree, path, NextNode)
  /\ OnItsWay =>
       /\ num_seeds_published = CountTo(SignerFlagTree, AllNodes)
       /\ intact => /\ StoredTo(SignerFlagTree, SignerSeedTree, path, AllNodes)
                    /\ EmptyFrom(SignerFlagTree, path, AllNodes)

\* rebuild_tree runs, or has run.
Rebuilding ==
  /\ Untouched => nodes_used = 0 /\ \A n \in Node : VerifierSeedTree[n] = Zero
  /\ seed_at = "rebuild_tree" =>
       /\ PairPlace /\ nodes_used = CountTo(SignerFlagTree, NextNode)
       /\ Blank(SignerFlagTree, VerifierSeedTree)
       /\ Grown(SignerFlagTree, VerifierSeedTree, path, NextNode, NextNode)
  /\ Rebuilt =>
       /\ nodes_used = num_seeds_published
       /\ EmptyFrom(SignerFlagTree, path, AllNodes) => is_stree_padding_ok
       /\ is_stree_padding_ok => EmptyFrom(SignerFlagTree, path, AllNodes)
       /\ Blank(SignerFlagTree, VerifierSeedTree)
       /\ Grown(SignerFlagTree, VerifierSeedTree, path, AllNodes, AllNodes)
  /\ seed_at = "rebuilt" =>
       round_seeds["verifier"] = [r \in Round |-> VerifierSeedTree[LeafNode[r]]]

SeedInvariant ==
  SeedShape /\ Whose /\ Growing /\ Chosen /\ Marking /\ Marked /\ Sending /\ Rebuilding

-----------------------------------------------------------------------------
(* One lemma per action.                                                   *)

LEMMA SeedInitially ==
  ASSUME SeedTreeInit
  PROVE  SeedInvariant
<1> USE DEF SeedTreeInit, SeedInit
<1>1. 0 \in Level /\ 0 \in 0 .. LOG2T-1 /\ First[0] = 0
  BY FirstNode, RoundAssumption DEF Level
<1>2. Inner(0) \in Nat
  BY <1>1, LevelFacts
<1>3. SignerSeedTree \in [Node -> {RootSeed, Zero}] /\ VerifierSeedTree = [n \in Node |-> Zero]
  BY DEF SignerSeedTree, VerifierSeedTree, Party
<1>4. SeedShape
  <2>1. Seeds(SignerSeedTree) /\ Seeds(VerifierSeedTree)
    BY <1>3 DEF Seeds
  <2>2. flags_tree \in [Party -> FlagArrays]
    BY DEF FlagArrays
  <2>3. /\ round_seeds = [p \in Party |-> round_seeds[p]]
        /\ \A p \in Party : round_seeds[p] = [r \in Round |-> round_seeds[p][r]]
    OBVIOUS
  <2>4. seed_tree = [p \in Party |-> seed_tree[p]] /\ path = [k \in Slot |-> path[k]]
    OBVIOUS
  <2>5. /\ seed_by \in Party /\ level \in 0 .. LOG2T+1 /\ i \in Nat
        /\ start_node \in 0 .. 2*T-1
    BY RoundAssumption DEF Party
  <2> QED
    BY <2>1, <2>2, <2>3, <2>4, <2>5 DEF SeedShape
<1>5. Growing
  <2>1. \A f \in InnerNode : ~ (f < 0)
    BY KidFacts
  <2>2. ExpandedTo(SignerSeedTree, NextNode)
    BY <2>1 DEF ExpandedTo, NextNode
  <2> QED
    BY <1>1, <1>2, <2>2 DEF Growing, GenPlace
<1>6. Sending
  BY DEF Sending, OnItsWay
<1>7. Rebuilding
  BY <1>3 DEF Rebuilding, Rebuilt
<1> QED
  BY <1>4, <1>5, <1>6, <1>7
     DEF SeedInvariant, Whose, Chosen, Early, Marking, Marked, Published

LEMMA GenLevel ==
  ASSUME NEW l \in 0 .. LOG2T-1, NEW t, ExpandedTo(t, First[l] + Inner(l))
  PROVE  ExpandedTo(t, First[l+1]) /\ (l+1 = LOG2T => ExpandedTo(t, AllNodes))
<1>1. /\ First[l] \in Nat /\ Inner(l) \in Nat /\ First[l+1] \in Nat
  BY LevelBelow, LevelFacts
<1>2. \A f \in InnerNode : f \in Nat /\ f < First[LOG2T]
  BY KidFacts, NoFatherBelow
<1>3. \A f \in InnerNode : f < First[l+1] => f < First[l] + Inner(l)
  BY <1>1, <1>2, NoFatherBetween
<1> QED
  BY <1>2, <1>3 DEF ExpandedTo

\* A step of gen_seed_tree.
LEMMA GenStep ==
  ASSUME SeedInvariant, seed_at = "gen_seed_tree",
         seed_at' \in {"gen_seed_tree", "seed_leaves"},
         NEW u, Seeds(u), seed_tree' = [seed_tree EXCEPT !["signer"] = u],
         seed_at' = "gen_seed_tree" => GenPlace' /\ ExpandedTo(u, NextNode'),
         seed_at' = "seed_leaves" => ExpandedTo(u, AllNodes),
         level' \in 0 .. LOG2T+1, i' \in Nat, start_node' \in 0 .. 2*T-1,
         UNCHANGED <<seed_by, flags_tree, path, countVars, sharedVars>>
  PROVE  SeedInvariant'
<1> USE DEF SeedInvariant, countVars, sharedVars
<1>1. seed_by = "signer" /\ seed_by' = "signer" /\ "signer" \in Party /\ "verifier" \in Party
  BY DEF Whose, Party
<1>2. /\ seed_tree' = [p \in Party |-> seed_tree'[p]]
      /\ SignerSeedTree' = u /\ VerifierSeedTree' = VerifierSeedTree
  BY <1>1 DEF SeedShape, SignerSeedTree, VerifierSeedTree
<1>3. Seeds(SignerSeedTree)' /\ Seeds(VerifierSeedTree)'
  BY <1>2 DEF SeedShape, Seeds
<1>4. SeedShape'
  BY <1>2, <1>3 DEF SeedShape
<1>5. Whose' /\ Chosen' /\ Marking' /\ Marked'
  BY <1>1 DEF Whose, Chosen, Early, Marking, Marked, Published
<1>6. Growing'
  BY <1>1, <1>2 DEF Growing, AllNodes, ExpandedTo, GenPlace
<1>7. Sending'
  BY <1>1 DEF Sending, Unpublished, Early, OnItsWay
<1>8. Rebuilding'
  BY <1>1, <1>2 DEF Rebuilding, Untouched, Rebuilt
<1> QED
  BY <1>4, <1>5, <1>6, <1>7, <1>8

LEMMA GenPairPreserves ==
  ASSUME SeedInvariant, GenPair
  PROVE  SeedInvariant'
<1> DEFINE t == SignerSeedTree
           n == start_node + i
           u == Expanded(t, level, n)
           w == Expanded(u, level, n + 1)
<1>1. /\ seed_at = "gen_seed_tree" /\ GenPlace /\ ExpandedTo(t, n) /\ Seeds(t)
      /\ seed_tree' = [seed_tree EXCEPT !["signer"] = w]
      /\ i <= Inner(level) - 2 /\ i' = i + 2
      /\ UNCHANGED <<seed_at, seed_by, level, start_node, flags_tree, path, countVars,
                     sharedVars>>
  BY DEF SeedInvariant, Growing, SeedShape, GenPair, NextNode, SignerSeedTree
<1>2. /\ level \in 0 .. LOG2T-1 /\ level \in Level /\ start_node = First[level]
      /\ First[level] \in Nat /\ Inner(level) \in Nat /\ npl[level] \in Nat
      /\ Inner(level) <= npl[level] /\ i \in Nat
  BY <1>1, LevelBelow, LevelFacts DEF GenPlace
<1>3. /\ i \in 0 .. npl[level]-1 /\ i+1 \in 0 .. npl[level]-1
      /\ i < Inner(level) /\ i+1 < Inner(level) /\ i+2 \in 0 .. Inner(level)
      /\ n + 1 = First[level] + (i+1) /\ n + 1 + 1 = start_node + (i+2)
  BY <1>1, <1>2
<1> HIDE DEF t
<1>4. Seeds(u) /\ ExpandedTo(u, n + 1)
  BY <1>1, <1>2, <1>3, GenNext
<1> HIDE DEF u
<1>5. Seeds(w) /\ ExpandedTo(w, start_node + (i+2))
  BY <1>2, <1>3, <1>4, GenNext
<1>6. GenPlace' /\ NextNode' = start_node + (i+2)
  BY <1>1, <1>2, <1>3 DEF GenPlace, NextNode
<1>7. level' \in 0 .. LOG2T+1 /\ i' \in Nat /\ start_node' \in 0 .. 2*T-1
  BY <1>1, <1>2 DEF SeedInvariant, SeedShape
<1> HIDE DEF w
<1> QED
  BY <1>1, <1>5, <1>6, <1>7, GenStep

LEMMA GenLastPreserves ==
  ASSUME SeedInvariant, GenLast
  PROVE  SeedInvariant'
<1> DEFINE t == SignerSeedTree
           n == start_node + i
           u == IF i < Inner(level) THEN Expanded(t, level, n) ELSE t
<1>1. /\ seed_at = "gen_seed_tree" /\ GenPlace /\ ExpandedTo(t, n) /\ Seeds(t)
      /\ seed_tree' = [seed_tree EXCEPT !["signer"] = u]
      /\ i > Inner(level) - 2 /\ NextLevelDown
      /\ seed_at' = IF level + 1 < LOG2T THEN "gen_seed_tree" ELSE "seed_leaves"
      /\ UNCHANGED <<seed_by, flags_tree, path, countVars, sharedVars>>
  BY DEF SeedInvariant, Growing, SeedShape, GenLast, NextNode, SignerSeedTree
<1>2. /\ level \in 0 .. LOG2T-1 /\ level \in Level /\ start_node = First[level]
      /\ First[level] \in Nat /\ Inner(level) \in Nat /\ npl[level] \in Nat
      /\ Inner(level) <= npl[level] /\ i \in Nat /\ i <= Inner(level)
      /\ First[level+1] = First[level] + npl[level] /\ level+1 \in Level
  BY <1>1, LevelBelow, LevelFacts DEF GenPlace
<1> HIDE DEF t
<1>3. Seeds(u) /\ ExpandedTo(u, First[level] + Inner(level))
  <2>1. CASE i < Inner(level)
    <3>1. i \in 0 .. npl[level]-1 /\ n + 1 = First[level] + Inner(level)
      BY <1>1, <1>2, <2>1
    <3>2. Seeds(Expanded(t, level, n)) /\ ExpandedTo(Expanded(t, level, n), n + 1)
      BY <1>1, <1>2, <2>1, <3>1, GenNext
    <3> QED
      BY <2>1, <3>1, <3>2
  <2>2. CASE ~ (i < Inner(level))
    <3>1. n = First[level] + Inner(level)
      BY <1>2, <2>2
    <3> QED
      BY <1>1, <2>2, <3>1
  <2> QED
    BY <2>1, <2>2
<1> HIDE DEF u
<1>4. ExpandedTo(u, First[level+1]) /\ (level+1 = LOG2T => ExpandedTo(u, AllNodes))
  BY <1>2, <1>3, GenLevel
<1>5. level' = level + 1 /\ i' = 0 /\ start_node' = First[level+1]
  BY <1>1, <1>2 DEF NextLevelDown
<1>6. NextNode' = First[level+1]
  BY <1>2, <1>5 DEF NextNode
<1>7. level + 1 < LOG2T => GenPlace'
  <2>1. SUFFICES ASSUME level + 1 < LOG2T PROVE GenPlace'
    OBVIOUS
  <2>2. Inner(level+1) \in Nat
    BY <1>2, LevelFacts
  <2> QED
    BY <1>2, <1>5, <2>1, <2>2, RoundAssumption DEF GenPlace
<1>8. level' \in 0 .. LOG2T+1 /\ i' \in Nat /\ start_node' \in 0 .. 2*T-1
  <2>1. 0 \in 0 .. npl[level+1]-1
    BY <1>2, LevelFacts
  <2>2. First[level+1] + 0 \in Node
    BY <1>2, <2>1, NodeOfLevel
  <2> QED
    BY <1>2, <1>5, <2>2, RoundAssumption DEF Node
<1>9. level + 1 < LOG2T \/ level + 1 = LOG2T
  BY <1>2, RoundAssumption
<1> QED
  BY <1>1, <1>3, <1>4, <1>6, <1>7, <1>8, <1>9, GenStep

LEMMA SeedLeavesPreserves ==
  ASSUME SeedInvariant, SeedLeaves
  PROVE  SeedInvariant'
<1> USE DEF SeedInvariant, loopVars, countVars
<1> DEFINE leaves == [r \in Round |-> seed_tree[seed_by][LeafNode[r]]]
<1>1. /\ seed_at = "seed_leaves" /\ round_seeds' = [round_seeds EXCEPT ![seed_by] = leaves]
      /\ seed_at' = IF seed_by = "signer" THEN "challenge" ELSE "rebuilt"
      /\ UNCHANGED <<seed_by, level, i, start_node, seed_tree, flags_tree, path,
                     num_seeds_published, nodes_used, is_stree_padding_ok, chall_2, intact>>
  BY DEF SeedLeaves
<1>2. /\ seed_by \in Party /\ round_seeds = [p \in Party |-> round_seeds[p]]
      /\ seed_by \in {"signer", "verifier"}
      /\ \A p \in Party : round_seeds[p] = [r \in Round |-> round_seeds[p][r]]
  BY DEF SeedShape, Party
<1>3. leaves = [r \in Round |-> leaves[r]]
  OBVIOUS
<1> HIDE DEF leaves
<1>4. /\ round_seeds' = [p \in Party |-> round_seeds'[p]]
      /\ \A p \in Party : round_seeds'[p] = [r \in Round |-> round_seeds'[p][r]]
      /\ round_seeds'[seed_by] = leaves
      /\ \A p \in Party : p # seed_by => round_seeds'[p] = round_seeds[p]
  BY <1>1, <1>2, <1>3
<1>5. /\ SignerSeedTree' = SignerSeedTree /\ VerifierSeedTree' = VerifierSeedTree
      /\ SignerFlagTree' = SignerFlagTree /\ VerifierFlagTree' = VerifierFlagTree
      /\ PathFits' = PathFits
  BY <1>1 DEF SignerSeedTree, VerifierSeedTree, SignerFlagTree, VerifierFlagTree, PathFits
<1>6. SeedShape'
  BY <1>1, <1>4, <1>5 DEF SeedShape, Seeds
<1>7. Whose' /\ Chosen' /\ Marking'
  BY <1>1, <1>2 DEF Whose, Chosen, Early, Marking
<1>8. Growing'
  <2>1. CASE seed_by = "signer"
    BY <1>1, <1>4, <1>5, <2>1 DEF Growing, leaves, SignerSeedTree
  <2>2. CASE seed_by = "verifier"
    <3>1. round_seeds'["signer"] = round_seeds["signer"]
      BY <1>4, <2>2 DEF Party
    <3> QED
      BY <1>1, <1>5, <2>2, <3>1 DEF Growing
  <2> QED
    BY <1>2, <2>1, <2>2
<1>9. Marked'
  BY <1>1, <1>2, <1>5 DEF Marked, Published, LeavesFlagged
<1>10. Sending'
  BY <1>1, <1>2, <1>5 DEF Sending, Unpublished, Early, OnItsWay
<1>11. Rebuilding'
  BY <1>1, <1>2, <1>4, <1>5 DEF Rebuilding, Untouched, Rebuilt, leaves, VerifierSeedTree
<1> QED
  BY <1>6, <1>7, <1>8, <1>9, <1>10, <1>11

LEMMA ChallengePreservesSeeds ==
  ASSUME SeedInvariant, SeedChallenge, chall_2' \in Challenges, UNCHANGED <<round_seeds, intact>>
  PROVE  SeedInvariant'
<1> USE DEF SeedInvariant, SeedChallenge, loopVars, countVars
<1>1. seed_by = "signer" /\ chall_2' \in [Round -> 0..1]
  BY DEF Whose, Challenges
<1>2. /\ SignerSeedTree' = SignerSeedTree /\ VerifierSeedTree' = VerifierSeedTree
  BY DEF SignerSeedTree, VerifierSeedTree
<1>3. SeedShape'
  BY <1>1, <1>2 DEF SeedShape, Seeds
<1>4. Challenges' = Challenges
  BY DEF Challenges
<1>5. Whose' /\ Chosen' /\ Marking' /\ Marked'
  BY <1>1, <1>4 DEF Whose, Chosen, Marking, Marked, Published
<1>6. Growing'
  BY <1>1, <1>2 DEF Growing
<1>7. Sending' /\ Rebuilding'
  BY <1>1, <1>2 DEF Sending, Unpublished, Early, OnItsWay, Rebuilding, Untouched, Rebuilt
<1> QED
  BY <1>3, <1>5, <1>6, <1>7

LEMMA PairFacts ==
  ASSUME NEW l \in 1 .. LOG2T
  PROVE  /\ l-1 \in 0 .. LOG2T-1 /\ l-1 \in Level /\ l \in Level /\ l \in 0 .. LOG2T+1
         /\ Inner(l-1) \in Nat /\ npl[l] = 2 * Inner(l-1) /\ (l-1)+1 = l
         /\ \A h \in 0 .. Inner(l-1) : 2*h \in Nat /\ (2*h) \div 2 = h
<1>1. l-1 \in 0 .. LOG2T-1 /\ l \in 0 .. LOG2T+1 /\ (l-1)+1 = l
  BY RoundAssumption
<1>2. l-1 \in Level /\ l \in Level /\ npl[l] = 2 * Inner(l-1)
  BY <1>1, LevelBelow
<1>3. Inner(l-1) \in Nat
  BY <1>2, LevelFacts
<1> QED
  BY <1>1, <1>2, <1>3

\* A step of compute_seeds_to_publish.
LEMMA ComputeStep ==
  ASSUME SeedInvariant, seed_at \in {"label_leaves", "compute_seeds"},
         seed_at' = "compute_seeds", PairPlace', start_node' \in 0 .. 2*T-1,
         NEW u \in FlagArrays, flags_tree' = [flags_tree EXCEPT ![seed_by] = u],
         LeavesFlagged(u), AndOn(u, DonePairs'), ClearOn(u, DonePairs'),
         seed_by = "verifier" => AgreeOn(u, SignerFlagTree, DonePairs'),
         UNCHANGED <<seed_by, seed_tree, path, countVars, sharedVars>>
  PROVE  SeedInvariant'
<1> USE DEF SeedInvariant, countVars, sharedVars
<1>1. /\ seed_by \in {"signer", "verifier"} /\ seed_by \in Party
      /\ "signer" \in Party /\ "verifier" \in Party
      /\ flags_tree \in [Party -> FlagArrays]
  BY DEF SeedShape, Party
<1>2. /\ SignerSeedTree' = SignerSeedTree /\ VerifierSeedTree' = VerifierSeedTree
      /\ flags_tree' \in [Party -> FlagArrays] /\ flags_tree'[seed_by] = u
      /\ seed_by = "verifier" => SignerFlagTree' = SignerFlagTree /\ VerifierFlagTree' = u
  BY <1>1 DEF SignerSeedTree, VerifierSeedTree, SignerFlagTree, VerifierFlagTree
<1>3. level' \in 0 .. LOG2T+1 /\ i' \in Nat
  <2>1. level' \in 1 .. LOG2T
    BY DEF PairPlace
  <2> QED
    BY <2>1, PairFacts DEF PairPlace
<1>4. SeedShape'
  BY <1>2, <1>3 DEF SeedShape, Seeds
<1>5. Whose' /\ Chosen'
  BY <1>1 DEF Whose, Chosen, Early, Challenges
<1>6. Growing'
  BY <1>2 DEF Growing
<1>7. Marking'
  BY <1>2 DEF Marking, LeavesFlagged
<1>8. Marked'
  BY <1>1, <1>2 DEF Marked, Published, LeavesFlagged
<1>9. Sending'
  BY <1>1, <1>2 DEF Sending, Unpublished, Early, OnItsWay
<1>10. Rebuilding'
  BY <1>1, <1>2 DEF Rebuilding, Untouched, Rebuilt
<1> QED
  BY <1>4, <1>5, <1>6, <1>7, <1>8, <1>9, <1>10

LEMMA LabelPreserves ==
  ASSUME SeedInvariant, LabelLeaves
  PROVE  SeedInvariant'
<1>1. /\ seed_at = "label_leaves" /\ seed_at' = "compute_seeds"
      /\ flags_tree' = [flags_tree EXCEPT ![seed_by] = Labels]
      /\ level' = LOG2T /\ i' = 0 /\ start_node' = LeafStart[1]
      /\ UNCHANGED <<seed_by, seed_tree, path, countVars, sharedVars>>
  BY DEF LabelLeaves, Labels
<1>2. chall_2 \in Challenges
  BY <1>1 DEF SeedInvariant, Chosen, Early
<1>3. Labels \in FlagArrays /\ LeavesFlagged(Labels) /\ ClearOn(Labels, {})
  BY <1>2, LabelsFacts
<1>4. LOG2T \in 1 .. LOG2T /\ LeafStart[1] = First[LOG2T]
  BY RoundAssumption, LeafAssumption
<1>5. Inner(LOG2T-1) \in Nat
  BY <1>4, PairFacts
<1>6. PairPlace'
  BY <1>1, <1>4, <1>5 DEF PairPlace
<1>7. start_node' \in 0 .. 2*T-1
  <2>1. LOG2T \in Level /\ 0 \in 0 .. npl[LOG2T]-1
    BY <1>4, PairFacts, LevelFacts
  <2>2. First[LOG2T] + 0 \in Node /\ First[LOG2T] \in Nat
    BY <2>1, NodeOfLevel, LevelFacts
  <2> QED
    BY <1>1, <1>4, <2>2, RoundAssumption DEF Node
<1>8. DonePairs' = {}
  BY <1>1, DoneFirst DEF DonePairs
<1>9. AndOn(Labels, {}) /\ AgreeOn(Labels, SignerFlagTree, {})
  BY DEF AndOn, AgreeOn
<1> HIDE DEF Labels
<1> QED
  BY <1>1, <1>3, <1>6, <1>7, <1>8, <1>9, ComputeStep

\* Pairs j to m-1 of a level, where the loop stands at j.
LEMMA CombinePreserves ==
  ASSUME SeedInvariant, seed_at = "compute_seeds",
         NEW j \in Nat, NEW m \in Nat, j <= m, m <= Inner(level - 1),
         i = 2*j, i' = 2*m,
         NEW left, left = {start_node + 2*h : h \in j .. m-1},
         flags_tree' = [flags_tree EXCEPT ![seed_by] = Combined(@, level, left)],
         UNCHANGED <<seed_at, seed_by, level, start_node, seed_tree, path, countVars,
                     sharedVars>>
  PROVE  SeedInvariant'
<1> DEFINE s == flags_tree[seed_by]
           b == level - 1
           u == Combined(s, level, left)
<1>1. /\ PairPlace /\ LeavesFlagged(s) /\ AndOn(s, DonePairs) /\ ClearOn(s, DonePairs)
      /\ seed_by = "verifier" => AgreeOn(VerifierFlagTree, SignerFlagTree, DonePairs)
      /\ s \in FlagArrays /\ seed_by \in Party /\ flags_tree \in [Party -> FlagArrays]
  BY DEF SeedInvariant, Marking, SeedShape
<1>2. level \in 1 .. LOG2T /\ start_node = First[level]
  BY <1>1 DEF PairPlace
<1>3. /\ b \in 0 .. LOG2T-1 /\ b+1 = level /\ Inner(b) \in Nat
  BY <1>2, PairFacts
<1>4. j \in 0 .. Inner(b) /\ m \in 0 .. Inner(b)
  BY <1>3
<1>5. DonePairs = DoneAt(b+1, j) /\ DonePairs' = DoneAt(b+1, m)
  <2>1. (2*j) \div 2 = j /\ (2*m) \div 2 = m
    OBVIOUS
  <2> QED
    BY <1>3, <2>1 DEF DonePairs
<1>6. left = {First[b+1] + 2*h : h \in j .. m-1} /\ u = Combined(s, b+1, left)
  BY <1>2, <1>3
<1>7. flags_tree' = [flags_tree EXCEPT ![seed_by] = u]
  BY <1>1
<1> HIDE DEF s, b, u
<1>8. /\ u \in FlagArrays /\ LeavesFlagged(u) /\ AndOn(u, DoneAt(b+1, m))
      /\ ClearOn(u, DoneAt(b+1, m))
      /\ \A t : LeavesFlagged(t) /\ AndOn(t, InnerNode) /\ AgreeOn(s, t, DoneAt(b+1, j))
                  => AgreeOn(u, t, DoneAt(b+1, m))
  BY <1>1, <1>3, <1>4, <1>5, <1>6, ComputeNext DEF b
<1>9. seed_by = "verifier" => AgreeOn(u, SignerFlagTree, DonePairs')
  <2>1. SUFFICES ASSUME seed_by = "verifier"
                 PROVE  AgreeOn(u, SignerFlagTree, DonePairs')
    OBVIOUS
  <2>2. LeavesFlagged(SignerFlagTree) /\ AndOn(SignerFlagTree, InnerNode)
    BY <2>1 DEF SeedInvariant, Marked, Published
  <2>3. AgreeOn(s, SignerFlagTree, DoneAt(b+1, j))
    BY <1>1, <1>5, <2>1 DEF VerifierFlagTree, s
  <2> QED
    BY <1>5, <1>8, <2>2, <2>3
<1>10. PairPlace'
  BY <1>2, <1>3, <1>4 DEF PairPlace, b
<1>11. start_node' \in 0 .. 2*T-1
  BY DEF SeedInvariant, SeedShape
<1> QED
  BY <1>5, <1>7, <1>8, <1>9, <1>10, <1>11, ComputeStep

LEMMA ComputePairPreserves ==
  ASSUME SeedInvariant, ComputeEight \/ ComputePair
  PROVE  SeedInvariant'
<1>1. seed_at = "compute_seeds" /\ PairPlace
  BY DEF SeedInvariant, Marking, ComputeEight, ComputePair
<1>2. PICK j \in 0 .. Inner(level-1) : i = 2*j
  BY <1>1 DEF PairPlace
<1>3. /\ Inner(level-1) \in Nat /\ npl[level] = 2 * Inner(level-1)
      /\ start_node \in Nat /\ j \in Nat
  <2>1. level \in 1 .. LOG2T /\ start_node \in Nat
    BY <1>1, RoundAssumption DEF PairPlace, SeedInvariant, SeedShape
  <2>2. Inner(level-1) \in Nat /\ npl[level] = 2 * Inner(level-1)
    BY <2>1, PairFacts
  <2> QED
    BY <1>2, <2>1, <2>2
<1>4. CASE ComputeEight
  <2> DEFINE left == {start_node + i + k : k \in {0, 2, 4, 6}}
  <2>1. /\ i <= npl[level] - 8 /\ i' = i + 8
        /\ flags_tree' = [flags_tree EXCEPT ![seed_by] = Combined(@, level, left)]
        /\ UNCHANGED <<seed_at, seed_by, level, start_node, seed_tree, path, countVars,
                       sharedVars>>
    BY <1>4 DEF ComputeEight
  <2>2. j+4 <= Inner(level-1) /\ j+4 \in Nat /\ j <= j+4 /\ i' = 2*(j+4)
    BY <1>2, <1>3, <2>1
  <2>3. left = {start_node + 2*h : h \in j .. (j+4)-1}
    <3>1. j .. (j+4)-1 = {j, j+1, j+2, j+3}
      BY <1>3
    <3>2. /\ start_node + i + 0 = start_node + 2*j /\ start_node + i + 2 = start_node + 2*(j+1)
          /\ start_node + i + 4 = start_node + 2*(j+2)
          /\ start_node + i + 6 = start_node + 2*(j+3)
      BY <1>2, <1>3
    <3>3. left = {start_node + i + 0, start_node + i + 2, start_node + i + 4,
                  start_node + i + 6}
      OBVIOUS
    <3>4. {start_node + 2*h : h \in {j, j+1, j+2, j+3}}
            = {start_node + 2*j, start_node + 2*(j+1), start_node + 2*(j+2),
               start_node + 2*(j+3)}
      OBVIOUS
    <3> HIDE DEF left
    <3> QED
      BY <3>1, <3>2, <3>3, <3>4
  <2> HIDE DEF left
  <2> QED
    BY <1>1, <1>2, <1>3, <2>1, <2>2, <2>3, CombinePreserves
<1>5. CASE ComputePair
  <2>1. /\ i <= npl[level] - 2 /\ i' = i + 2
        /\ flags_tree' = [flags_tree EXCEPT ![seed_by] =
                            Combined(@, level, {start_node + i})]
        /\ UNCHANGED <<seed_at, seed_by, level, start_node, seed_tree, path, countVars,
                       sharedVars>>
    BY <1>5 DEF ComputePair
  <2>2. j+1 <= Inner(level-1) /\ j+1 \in Nat /\ j <= j+1 /\ i' = 2*(j+1)
    BY <1>2, <1>3, <2>1
  <2>3. {start_node + i} = {start_node + 2*h : h \in j .. (j+1)-1}
    <3>1. j .. (j+1)-1 = {j}
      BY <1>3
    <3> QED
      BY <1>2, <3>1
  <2> QED
    BY <1>1, <1>2, <1>3, <2>1, <2>2, <2>3, CombinePreserves
<1> QED
  BY <1>4, <1>5

\* Nothing is sent or loaded before node 1.
LEMMA FirstSent ==
  ASSUME NEW s, s[0] = 0
  PROVE  /\ SentTo(s, 1) = {} /\ CountTo(s, 1) = 0
         /\ \A f \in InnerNode : f < 1 => s[f] # 1
<1>1. \A f \in InnerNode : f \in Nat /\ Kid(f) \in Nat /\ f < Kid(f)
  BY KidFacts
<1>2. \A n \in Node : n < 1 => n = 0
  BY RoundAssumption DEF Node
<1>3. \A f \in InnerNode : ~ KidOf(0, f)
  BY <1>1 DEF KidOf
<1>4. SentTo(s, 1) = {}
  BY <1>2, <1>3 DEF SentTo
<1>5. CountTo(s, 1) = 0
  BY <1>4, FS_EmptySet DEF CountTo
<1>6. \A f \in InnerNode : f < 1 => f = 0
  BY <1>1
<1> QED
  BY <1>4, <1>5, <1>6

LEMMA ComputeLevelPreserves ==
  ASSUME SeedInvariant, ComputeLevel
  PROVE  SeedInvariant'
<1> DEFINE s == flags_tree[seed_by]
           b == level - 1
<1>1. /\ seed_at = "compute_seeds" /\ PairPlace /\ LeavesFlagged(s) /\ AndOn(s, DonePairs)
      /\ ClearOn(s, DonePairs)
      /\ seed_by = "verifier" => AgreeOn(VerifierFlagTree, SignerFlagTree, DonePairs)
      /\ s \in FlagArrays /\ seed_by \in Party /\ flags_tree \in [Party -> FlagArrays]
  BY DEF SeedInvariant, Marking, SeedShape, ComputeLevel
<1>2. /\ i > npl[level] - 2 /\ i' = 0
      /\ IF level > 1
         THEN /\ level' = level - 1 /\ start_node' = start_node - npl[level-1]
              /\ seed_at' = seed_at
         ELSE /\ level' = 1 /\ start_node' = 1
              /\ seed_at' = IF seed_by = "signer" THEN "seed_path" ELSE "rebuild_tree"
      /\ UNCHANGED <<seed_by, seed_tree, flags_tree, path, countVars, sharedVars>>
  BY DEF ComputeLevel
<1>3. level \in 1 .. LOG2T /\ start_node = First[level]
  BY <1>1 DEF PairPlace
<1>4. /\ b \in 0 .. LOG2T-1 /\ b+1 = level /\ Inner(b) \in Nat /\ b \in Level
      /\ npl[level] = 2 * Inner(b)
  BY <1>3, PairFacts
<1>5. PICK h \in 0 .. Inner(b) : i = 2*h
  BY <1>1 DEF PairPlace
<1>6. h = Inner(b) /\ i \div 2 = h
  BY <1>2, <1>4, <1>5
<1>7. DonePairs = DoneAt(b+1, Inner(b))
  BY <1>4, <1>6 DEF DonePairs
<1>8. level \in Int
  BY <1>3
<1> HIDE DEF s
<1>9. CASE level > 1
  <2>1. b > 0 /\ b \in 1 .. LOG2T
    BY <1>4, <1>8, <1>9, RoundAssumption
  <2>2. DonePairs = DoneAt(b, 0)
    BY <1>4, <1>7, <2>1, DoneLevel
  <2>3. First[b] \in Nat /\ npl[b] \in Nat /\ First[b+1] = First[b] + npl[b]
    BY <1>4, LevelFacts
  <2>4. level' = b /\ i' = 0 /\ start_node' = First[b] /\ seed_at' = "compute_seeds"
    BY <1>1, <1>2, <1>3, <1>4, <1>9, <2>3
  <2> HIDE DEF b
  <2>5. DonePairs' = DonePairs
    BY <2>2, <2>4 DEF DonePairs
  <2>6. Inner(b - 1) \in Nat
    BY <2>1, PairFacts
  <2>7. PairPlace'
    BY <2>1, <2>4, <2>6 DEF PairPlace
  <2>8. start_node' \in 0 .. 2*T-1
    <3>1. 0 \in 0 .. npl[b]-1
      BY <1>4, LevelFacts
    <3>2. First[b] + 0 \in Node
      BY <1>4, <3>1, NodeOfLevel
    <3> QED
      BY <2>3, <2>4, <3>2, RoundAssumption DEF Node
  <2>9. flags_tree' = [flags_tree EXCEPT ![seed_by] = s]
    BY <1>1, <1>2 DEF s
  <2>10. seed_by = "verifier" => AgreeOn(s, SignerFlagTree, DonePairs)
    BY <1>1 DEF s, VerifierFlagTree
  <2> QED
    BY <1>1, <1>2, <2>4, <2>5, <2>7, <2>8, <2>9, <2>10, ComputeStep
<1>10. CASE ~ (level > 1)
  <2>1. b = 0
    BY <1>4, <1>8, <1>10
  <2>2. DonePairs = InnerNode
    BY <1>4, <1>7, <2>1, DoneLevel
  <2>3. LeavesFlagged(s) /\ AndOn(s, InnerNode) /\ s[0] = 0
    BY <1>1, <2>2, RootClear
  <2>4. /\ level' = 1 /\ start_node' = 1 /\ i' = 0
        /\ seed_at' = IF seed_by = "signer" THEN "seed_path" ELSE "rebuild_tree"
    BY <1>2, <1>10
  <2>5. seed_by \in {"signer", "verifier"}
    BY <1>1 DEF Party
  <2>6. /\ SignerSeedTree' = SignerSeedTree /\ VerifierSeedTree' = VerifierSeedTree
        /\ SignerFlagTree' = SignerFlagTree /\ VerifierFlagTree' = VerifierFlagTree
        /\ PathFits' = PathFits /\ NextNode' = 1
    BY <1>2, <2>4 DEF SignerSeedTree, VerifierSeedTree, SignerFlagTree, VerifierFlagTree,
                      PathFits, countVars, NextNode
  <2>7. /\ 1 \in 1 .. LOG2T /\ First[1] = 1 /\ Inner(1-1) \in Nat /\ npl[1] \in Nat
        /\ 1 \in 0 .. LOG2T+1 /\ 1 \in 0 .. 2*T-1
    <3>1. 1 \in 1 .. LOG2T /\ 1 \in Level /\ 1 \in 0 .. LOG2T+1 /\ 1 \in 0 .. 2*T-1
      BY RoundAssumption DEF Level
    <3> QED
      BY <3>1, PairFacts, FirstNode, LevelFacts
  <2>8. PairPlace' /\ NodePlace'
    BY <2>4, <2>7 DEF PairPlace, NodePlace
  <2>9. SeedShape'
    BY <1>2, <2>4, <2>5, <2>6, <2>7 DEF SeedInvariant, SeedShape, Seeds, countVars, sharedVars
  <2>10. Whose' /\ Growing' /\ Marking'
    BY <1>1, <1>2, <2>4, <2>5, <2>6
       DEF SeedInvariant, Whose, Growing, Marking, sharedVars
  <2>11. Chosen'
    BY <1>1, <1>2, <2>4, <2>5 DEF SeedInvariant, Chosen, Early, Challenges, sharedVars
  <2>12. LeavesFlagged(SignerFlagTree) /\ AndOn(SignerFlagTree, InnerNode)
         /\ SignerFlagTree[0] = 0
    <3>1. CASE seed_by = "signer"
      BY <2>3, <3>1 DEF s, SignerFlagTree
    <3>2. CASE seed_by = "verifier"
      BY <3>2 DEF SeedInvariant, Marked, Published
    <3> QED
      BY <2>5, <3>1, <3>2
  <2>13. Marked'
    <3>1. (LeavesFlagged(SignerFlagTree) /\ AndOn(SignerFlagTree, InnerNode)
           /\ SignerFlagTree[0] = 0)'
      BY <1>2, <2>6, <2>12 DEF LeavesFlagged, sharedVars
    <3>2. seed_by = "verifier" =>
            (LeavesFlagged(VerifierFlagTree) /\ AgreeOn(VerifierFlagTree, SignerFlagTree, InnerNode))'
      BY <1>1, <1>2, <2>2, <2>3, <2>6 DEF LeavesFlagged, s, VerifierFlagTree, sharedVars
    <3> QED
      BY <1>2, <3>1, <3>2 DEF Marked
  <2>14. /\ SentTo(SignerFlagTree, 1) = {} /\ CountTo(SignerFlagTree, 1) = 0
         /\ \A f \in InnerNode : f < 1 => SignerFlagTree[f] # 1
    BY <2>12, FirstSent
  <2>15. Sending'
    <3>1. CASE seed_by = "signer"
      <4>1. num_seeds_published = 0 /\ \A k \in Slot : path[k] = Zero
        BY <1>1, <3>1 DEF SeedInvariant, Sending, Unpublished
      <4>2. StoredTo(SignerFlagTree, SignerSeedTree, path, 1)
            /\ EmptyFrom(SignerFlagTree, path, 1)
        BY <2>14, <4>1 DEF StoredTo, EmptyFrom
      <4> QED
        BY <1>2, <2>4, <2>6, <2>8, <2>14, <3>1, <4>1, <4>2
           DEF Sending, Unpublished, Early, OnItsWay, countVars
    <3>2. CASE seed_by = "verifier"
      BY <1>2, <2>4, <2>6, <3>2
         DEF SeedInvariant, Sending, Unpublished, Early, OnItsWay, countVars, sharedVars
    <3> QED
      BY <2>5, <3>1, <3>2
  <2>16. Rebuilding'
    <3>1. nodes_used = 0 /\ \A n \in Node : VerifierSeedTree[n] = Zero
      BY <1>1 DEF SeedInvariant, Rebuilding, Untouched
    <3>2. Blank(SignerFlagTree, VerifierSeedTree)
          /\ Grown(SignerFlagTree, VerifierSeedTree, path, 1, 1)
      BY <2>14, <3>1 DEF Blank, Grown
    <3> QED
      BY <1>2, <2>4, <2>5, <2>6, <2>8, <2>14, <3>1, <3>2
         DEF Rebuilding, Untouched, Rebuilt, countVars, sharedVars
  <2> QED
    BY <2>9, <2>10, <2>11, <2>13, <2>15, <2>16 DEF SeedInvariant
<1> QED
  BY <1>9, <1>10

LEMMA PathNodePreserves ==
  ASSUME SeedInvariant, PathNode
  PROVE  SeedInvariant'
<1> DEFINE s == SignerFlagTree
           t == SignerSeedTree
           n == start_node + i
           qa == IF n \in SentTo(s, n+1)
                 THEN [path EXCEPT ![CountTo(s, n)] = t[n]] ELSE path
<1>1. /\ seed_at = "seed_path" /\ seed_by = "signer" /\ NodePlace /\ i < npl[level]
      /\ num_seeds_published = CountTo(s, n)
      /\ StoredTo(s, t, path, n) /\ EmptyFrom(s, path, n)
      /\ s \in FlagArrays /\ path = [k \in Slot |-> path[k]]
  <2>1. "signer" \in Party
    BY DEF Party
  <2> QED
    BY <2>1 DEF SeedInvariant, Whose, Sending, SeedShape, PathNode, NextNode, SignerFlagTree
<1>2. /\ i' = i + 1
      /\ UNCHANGED <<seed_at, seed_by, level, start_node, seed_tree,
                     flags_tree, nodes_used, is_stree_padding_ok, sharedVars>>
  BY DEF PathNode
<1>3. /\ level \in Level /\ level > 0 /\ level \in 1 .. LOG2T /\ npl[level] \in Nat
      /\ start_node = First[level] /\ First[level] \in Nat /\ i \in Nat
      /\ i \in 0 .. npl[level]-1 /\ i+1 \in 0 .. npl[level]
  BY <1>1, PairFacts, LevelFacts DEF NodePlace
<1>4. n \in Node /\ n + 1 = start_node + (i+1)
  BY <1>3, NodeAt
<1>5. Sent(s, level, n) <=> n \in SentTo(s, n+1)
  BY <1>1, <1>3, SentIs
<1>6. path' = qa /\ num_seeds_published' = CountTo(s, n+1)
  <2>1. CASE n \in SentTo(s, n+1)
    <3>1. CountTo(s, n+1) = CountTo(s, n) + 1
      BY <1>4, <2>1, SentNext
    <3> QED
      BY <1>1, <1>5, <2>1, <3>1 DEF PathNode, SignerFlagTree, SignerSeedTree
  <2>2. CASE n \notin SentTo(s, n+1)
    <3>1. CountTo(s, n+1) = CountTo(s, n)
      BY <1>4, <2>2, SentNext
    <3> QED
      BY <1>1, <1>5, <2>2, <3>1 DEF PathNode, SignerFlagTree
  <2> QED
    BY <2>1, <2>2
<1> HIDE DEF s, t, n, qa
<1>7. qa = [k \in Slot |-> qa[k]] /\ StoredTo(s, t, qa, n+1) /\ EmptyFrom(s, qa, n+1)
  BY <1>1, <1>4, PathNext DEF qa
<1>8. /\ SignerSeedTree' = t /\ VerifierSeedTree' = VerifierSeedTree
      /\ SignerFlagTree' = s /\ VerifierFlagTree' = VerifierFlagTree
      /\ NextNode' = n + 1
  BY <1>2, <1>4 DEF SignerSeedTree, VerifierSeedTree, SignerFlagTree, VerifierFlagTree,
                    NextNode, s, t
<1>9. SeedShape'
  BY <1>2, <1>3, <1>6, <1>7, <1>8, SentFinite
     DEF SeedInvariant, SeedShape, Seeds, sharedVars, t
<1>10. Whose' /\ Growing' /\ Marking'
  BY <1>1, <1>2, <1>8 DEF SeedInvariant, Whose, Growing, Marking, sharedVars, t
<1>11. Chosen' /\ Marked'
  BY <1>1, <1>2, <1>8
     DEF SeedInvariant, Chosen, Early, Challenges, Marked, Published, LeavesFlagged,
         sharedVars, s
<1>12. NodePlace'
  BY <1>2, <1>3 DEF NodePlace
<1>13. Sending'
  BY <1>1, <1>2, <1>6, <1>7, <1>8, <1>12 DEF Sending, Unpublished, Early, OnItsWay
<1>14. Rebuilding'
  BY <1>1, <1>2, <1>8 DEF SeedInvariant, Rebuilding, Untouched, Rebuilt
<1> QED
  BY <1>9, <1>10, <1>11, <1>13, <1>14 DEF SeedInvariant

\* The next level down in seed_path and rebuild_tree.
LEMMA LevelEnds ==
  ASSUME level \in 1 .. LOG2T, start_node = First[level], NextLevelDown
  PROVE  /\ level' = level + 1 /\ i' = 0 /\ start_node' = First[level+1]
         /\ NextNode' = start_node + npl[level]
         /\ level' \in 0 .. LOG2T+1 /\ i' \in Nat /\ start_node' \in 0 .. 2*T-1
         /\ level < LOG2T => level' \in 1 .. LOG2T /\ 0 \in 0 .. npl[level']
                             /\ Inner(level' - 1) \in Nat
         /\ ~ (level < LOG2T) => start_node + npl[level] = AllNodes
<1>1. /\ level \in Level /\ First[level+1] = First[level] + npl[level]
      /\ First[level] \in Nat /\ npl[level] \in Nat
  BY PairFacts, LevelFacts
<1>2. level' = level + 1 /\ i' = 0 /\ start_node' = First[level+1]
      /\ NextNode' = start_node + npl[level]
  BY <1>1 DEF NextLevelDown, NextNode
<1>3. level+1 \in 0 .. LOG2T+1 /\ level \in Nat /\ LOG2T \in Nat
  BY RoundAssumption
<1>4. First[level+1] \in 0 .. 2*T-1
  <2>1. LOG2T+1 \in 0 .. LOG2T+1 /\ level+1 <= LOG2T+1
    BY <1>3
  <2>2. First[level+1] \in Nat /\ First[level+1] <= First[LOG2T+1]
    BY <1>3, <2>1, LevelOrder
  <2> QED
    BY <2>2, TableAssumption, RoundAssumption
<1>5. ASSUME level < LOG2T
      PROVE  level+1 \in 1 .. LOG2T /\ 0 \in 0 .. npl[level+1] /\ Inner(level+1-1) \in Nat
  <2>1. level+1 \in 1 .. LOG2T
    BY <1>3, <1>5
  <2>2. level+1 \in Level
    BY <2>1, PairFacts
  <2>3. npl[level+1] \in Nat
    BY <2>2, LevelFacts
  <2> QED
    BY <2>1, <2>3, PairFacts
<1>6. ASSUME ~ (level < LOG2T)
      PROVE  start_node + npl[level] = AllNodes
  <2>1. level = LOG2T
    BY <1>3, <1>6
  <2> QED
    BY <1>1, <2>1, TableAssumption DEF AllNodes
<1> QED
  BY <1>2, <1>3, <1>4, <1>5, <1>6

LEMMA PathLevelPreserves ==
  ASSUME SeedInvariant, PathLevel
  PROVE  SeedInvariant'
<1> DEFINE s == SignerFlagTree
           t == SignerSeedTree
<1>1. /\ seed_at = "seed_path" /\ seed_by = "signer" /\ NodePlace /\ i >= npl[level]
      /\ num_seeds_published = CountTo(s, NextNode)
      /\ StoredTo(s, t, path, NextNode) /\ EmptyFrom(s, path, NextNode)
  BY DEF SeedInvariant, Whose, Sending, PathLevel
<1>2. /\ NextLevelDown /\ seed_at' = IF level < LOG2T THEN "seed_path" ELSE "transit"
      /\ UNCHANGED <<seed_by, seed_tree, flags_tree, path, countVars, sharedVars>>
  BY <1>1 DEF PathLevel
<1>3. level \in 1 .. LOG2T /\ start_node = First[level] /\ i \in 0 .. npl[level]
  BY <1>1 DEF NodePlace
<1>4. /\ level' = level + 1 /\ i' = 0 /\ start_node' = First[level+1]
      /\ NextNode' = start_node + npl[level]
      /\ level' \in 0 .. LOG2T+1 /\ i' \in Nat /\ start_node' \in 0 .. 2*T-1
      /\ level < LOG2T => level' \in 1 .. LOG2T /\ 0 \in 0 .. npl[level']
                          /\ Inner(level' - 1) \in Nat
      /\ ~ (level < LOG2T) => start_node + npl[level] = AllNodes
  BY <1>2, <1>3, LevelEnds
<1>5. i = npl[level]
  <2>1. level \in Level
    BY <1>3, PairFacts
  <2> QED
    BY <1>1, <1>3, <2>1, LevelFacts
<1>6. NextNode' = NextNode /\ (~ (level < LOG2T) => NextNode = AllNodes)
  BY <1>4, <1>5 DEF NextNode
<1>7. level < LOG2T => NodePlace'
  BY <1>4 DEF NodePlace
<1>8. /\ SignerSeedTree' = t /\ VerifierSeedTree' = VerifierSeedTree
      /\ SignerFlagTree' = s /\ VerifierFlagTree' = VerifierFlagTree
  BY <1>2 DEF SignerSeedTree, VerifierSeedTree, SignerFlagTree, VerifierFlagTree
<1>9. SeedShape'
  BY <1>2, <1>4, <1>8 DEF SeedInvariant, SeedShape, Seeds, sharedVars, countVars
<1>10. Whose' /\ Growing' /\ Marking'
  BY <1>1, <1>2, <1>8 DEF SeedInvariant, Whose, Growing, Marking, sharedVars
<1>11. Chosen' /\ Marked'
  BY <1>1, <1>2, <1>8
     DEF SeedInvariant, Chosen, Early, Challenges, Marked, Published, LeavesFlagged,
         sharedVars
<1> HIDE DEF s, t
<1>12. Sending'
  <2>1. CASE level < LOG2T
    BY <1>1, <1>2, <1>6, <1>7, <1>8, <2>1 DEF Sending, Unpublished, Early, OnItsWay, countVars
  <2>2. CASE ~ (level < LOG2T)
    BY <1>1, <1>2, <1>6, <1>8, <2>2 DEF Sending, Unpublished, Early, OnItsWay, countVars, AllNodes
  <2> QED
    BY <2>1, <2>2
<1>13. Rebuilding'
  BY <1>1, <1>2, <1>8 DEF SeedInvariant, Rebuilding, Untouched, Rebuilt, countVars
<1> QED
  BY <1>9, <1>10, <1>11, <1>12, <1>13 DEF SeedInvariant

LEMMA DamagePreservesSeeds ==
  ASSUME SeedInvariant, PathDamaged
  PROVE  SeedInvariant'
<1> USE DEF SeedInvariant, loopVars, countVars
<1>1. /\ seed_at = "transit" /\ intact' = FALSE
      /\ \E k \in Slot, d \in Altered : path' = [path EXCEPT ![k] = d]
      /\ UNCHANGED <<seed_at, seed_by, level, i, start_node, seed_tree, flags_tree,
                     num_seeds_published, nodes_used, is_stree_padding_ok, chall_2,
                     round_seeds>>
  BY DEF PathDamaged
<1>2. seed_by = "signer" /\ path' = [k \in Slot |-> path'[k]]
  BY <1>1 DEF Whose, SeedShape
<1>3. /\ SignerSeedTree' = SignerSeedTree /\ VerifierSeedTree' = VerifierSeedTree
      /\ SignerFlagTree' = SignerFlagTree
  BY <1>1 DEF SignerSeedTree, VerifierSeedTree, SignerFlagTree
<1>4. SeedShape'
  BY <1>1, <1>2, <1>3 DEF SeedShape, Seeds
<1>5. Whose' /\ Growing' /\ Marking'
  BY <1>1, <1>3 DEF Whose, Growing, Marking
<1>6. Chosen' /\ Marked'
  BY <1>1, <1>2, <1>3 DEF Chosen, Early, Challenges, Marked, Published, LeavesFlagged
<1>7. Sending'
  BY <1>1, <1>2, <1>3 DEF Sending, Unpublished, Early, OnItsWay
<1>8. Rebuilding'
  BY <1>1, <1>2, <1>3 DEF Rebuilding, Untouched, Rebuilt
<1> QED
  BY <1>4, <1>5, <1>6, <1>7, <1>8

LEMMA ReceivedPreserves ==
  ASSUME SeedInvariant, SeedReceived
  PROVE  SeedInvariant'
<1> USE DEF SeedInvariant, loopVars, countVars, sharedVars
<1>1. /\ seed_at = "transit" /\ seed_at' = "label_leaves" /\ seed_by' = "verifier"
      /\ UNCHANGED <<level, i, start_node, seed_tree, flags_tree, path,
                     num_seeds_published, nodes_used, is_stree_padding_ok, chall_2,
                     round_seeds, cmt_0, intact>>
  BY DEF SeedReceived
<1>2. seed_by = "signer"
  BY <1>1 DEF Whose
<1>3. /\ SignerSeedTree' = SignerSeedTree /\ VerifierSeedTree' = VerifierSeedTree
      /\ SignerFlagTree' = SignerFlagTree
  BY <1>1 DEF SignerSeedTree, VerifierSeedTree, SignerFlagTree
<1>4. SeedShape'
  BY <1>1, <1>3 DEF SeedShape, Seeds, Party
<1>5. Whose' /\ Growing' /\ Marking'
  BY <1>1, <1>2, <1>3 DEF Whose, Growing, Marking
<1>6. Chosen' /\ Marked'
  BY <1>1, <1>2, <1>3 DEF Chosen, Early, Challenges, Marked, Published, LeavesFlagged
<1>7. Sending' /\ Rebuilding'
  BY <1>1, <1>2, <1>3 DEF Sending, Unpublished, Early, OnItsWay, Rebuilding, Untouched, Rebuilt
<1> QED
  BY <1>4, <1>5, <1>6, <1>7

\* What the pieces of RebuildPair do, in terms of the signer's flags.
Loading(s, t, p) == IF p \in SentTo(s, p+1) THEN [t EXCEPT ![p] = path[CountTo(s, p)]] ELSE t

LEMMA KnownFlags ==
  ASSUME SeedInvariant, seed_at = "rebuild_tree", NEW n, Known(n)
  PROVE  VerifierFlagTree[n] = SignerFlagTree[n]
<1>1. seed_by = "verifier"
  BY DEF SeedInvariant, Whose
<1>2. /\ LeavesFlagged(SignerFlagTree) /\ LeavesFlagged(VerifierFlagTree)
      /\ AgreeOn(VerifierFlagTree, SignerFlagTree, InnerNode)
  BY <1>1 DEF SeedInvariant, Marked, Published
<1> QED
  BY <1>2 DEF Known, LeavesFlagged, AgreeOn

LEMMA LoadedIs ==
  ASSUME SeedInvariant, seed_at = "rebuild_tree",
         NEW l \in Level, l > 0, NEW k \in 0 .. npl[l]-1,
         NEW p, p = First[l] + k, NEW t
  PROVE  Loaded([tree |-> t, used |-> CountTo(SignerFlagTree, p)], l, p)
           = [tree |-> Loading(SignerFlagTree, t, p), used |-> CountTo(SignerFlagTree, p+1)]
<1> DEFINE s == SignerFlagTree
           st == [tree |-> t, used |-> CountTo(s, p)]
<1>1. s \in FlagArrays
  BY DEF SeedInvariant, SeedShape, Party, SignerFlagTree
<1>2. p \in Node /\ Known(p)
  BY NodeAt
<1>3. Father(l, p) \in InnerNode
  BY FatherAt
<1>4. VerifierFlagTree[p] = s[p] /\ VerifierFlagTree[Father(l, p)] = s[Father(l, p)]
  BY <1>2, <1>3, KnownFlags DEF Known
<1>5. Sent(flags_tree["verifier"], l, p) <=> Sent(s, l, p)
  BY <1>4 DEF Sent, VerifierFlagTree
<1>6. Sent(s, l, p) <=> p \in SentTo(s, p+1)
  BY <1>1, SentIs
<1> HIDE DEF s
<1>7. CASE p \in SentTo(s, p+1)
  <2>1. CountTo(s, p+1) = CountTo(s, p) + 1
    BY <1>2, <1>7, SentNext
  <2>2. Loaded(st, l, p) = [tree |-> [st.tree EXCEPT ![p] = path[st.used]],
                            used |-> st.used + 1]
    BY <1>5, <1>6, <1>7 DEF Loaded
  <2>3. st.tree = t /\ st.used = CountTo(s, p)
    OBVIOUS
  <2>4. Loading(s, t, p) = [t EXCEPT ![p] = path[CountTo(s, p)]]
    BY <1>7 DEF Loading
  <2> QED
    BY <2>1, <2>2, <2>3, <2>4 DEF s
<1>8. CASE p \notin SentTo(s, p+1)
  <2>1. CountTo(s, p+1) = CountTo(s, p)
    BY <1>2, <1>8, SentNext
  <2>2. Loaded(st, l, p) = st
    BY <1>5, <1>6, <1>8 DEF Loaded
  <2>3. Loading(s, t, p) = t
    BY <1>8 DEF Loading
  <2> QED
    BY <2>1, <2>2, <2>3 DEF s
<1> QED
  BY <1>7, <1>8

LEMMA RegrownIs ==
  ASSUME SeedInvariant, seed_at = "rebuild_tree",
         NEW l \in Level, NEW k \in 0 .. npl[l]-1, start_node = First[l],
         NEW g, g = First[l] + k, NEW a,
         NEW t, Seeds(t), Blank(SignerFlagTree, t),
         NEW u, u = Regrown(t, l, k)
  PROVE  /\ Seeds(u) /\ Blank(SignerFlagTree, u)
         /\ Grown(SignerFlagTree, t, path, a, g) => Grown(SignerFlagTree, u, path, a, g+1)
<1> DEFINE s == SignerFlagTree
<1>1. s \in FlagArrays /\ AndOn(s, InnerNode)
  <2>1. s \in FlagArrays
    BY DEF SeedInvariant, SeedShape, Party, SignerFlagTree
  <2>2. seed_by = "verifier"
    BY DEF SeedInvariant, Whose
  <2> QED
    BY <2>1, <2>2 DEF SeedInvariant, Marked, Published
<1>2. g \in Node /\ g \in Nat /\ Known(g) /\ (k < Inner(l) <=> g \in InnerNode)
  BY NodeAt
<1>3. VerifierFlagTree[g] = s[g]
  BY <1>2, KnownFlags
<1>4. u = IF s[g] = 1 /\ k < Inner(l) THEN Expanded(t, l, g) ELSE t
  BY <1>3 DEF Regrown, VerifierFlagTree
<1> HIDE DEF s
<1>5. CASE s[g] = 1 /\ k < Inner(l)
  <2>1. u = Expanded(t, l, g)
    BY <1>4, <1>5
  <2> QED
    BY <1>1, <1>5, <2>1, ExpandNext DEF s
<1>6. CASE ~ (s[g] = 1 /\ k < Inner(l))
  <2>1. u = t /\ (g \notin InnerNode \/ s[g] # 1)
    BY <1>2, <1>4, <1>6
  <2> QED
    BY <1>2, <2>1, NotExpanded DEF s
<1> QED
  BY <1>5, <1>6

\* A step of rebuild_tree in its loops.
LEMMA RebuildStep ==
  ASSUME SeedInvariant, seed_at = "rebuild_tree", seed_at' = "rebuild_tree",
         PairPlace', start_node' \in 0 .. 2*T-1,
         NEW u, Seeds(u), seed_tree' = [seed_tree EXCEPT !["verifier"] = u],
         nodes_used' = CountTo(SignerFlagTree, NextNode'), Blank(SignerFlagTree, u),
         Grown(SignerFlagTree, u, path, NextNode', NextNode'),
         UNCHANGED <<seed_by, flags_tree, path, num_seeds_published, is_stree_padding_ok,
                     sharedVars>>
  PROVE  SeedInvariant'
<1> USE DEF SeedInvariant, sharedVars
<1>1. seed_by = "verifier" /\ seed_by' = "verifier" /\ "signer" \in Party /\ "verifier" \in Party
  BY DEF Whose, Party
<1>2. /\ seed_tree' = [p \in Party |-> seed_tree'[p]]
      /\ VerifierSeedTree' = u /\ SignerSeedTree' = SignerSeedTree
      /\ SignerFlagTree' = SignerFlagTree /\ VerifierFlagTree' = VerifierFlagTree
      /\ PathFits' = PathFits
  BY <1>1 DEF SeedShape, SignerSeedTree, VerifierSeedTree, SignerFlagTree, VerifierFlagTree,
              PathFits
<1>3. level' \in 0 .. LOG2T+1 /\ i' \in Nat /\ nodes_used' \in Nat
  <2>1. level' \in 1 .. LOG2T
    BY DEF PairPlace
  <2> QED
    BY <2>1, PairFacts, SentFinite DEF PairPlace
<1>4. SeedShape'
  BY <1>2, <1>3 DEF SeedShape, Seeds
<1>5. Whose' /\ Chosen' /\ Marking'
  BY <1>1 DEF Whose, Chosen, Early, Challenges, Marking
<1>6. Growing'
  BY <1>1, <1>2 DEF Growing
<1>7. Marked'
  BY <1>1, <1>2 DEF Marked, Published, LeavesFlagged
<1>8. Sending'
  BY <1>1, <1>2 DEF Sending, Unpublished, Early, OnItsWay
<1>9. Rebuilding'
  BY <1>1, <1>2 DEF Rebuilding, Untouched, Rebuilt
<1> QED
  BY <1>4, <1>5, <1>6, <1>7, <1>8, <1>9

\* Two nodes: both are loaded, and then both are expanded.
LEMMA PairRebuilt ==
  ASSUME SeedInvariant, seed_at = "rebuild_tree",
         NEW l \in Level, l > 0, start_node = First[l],
         NEW k \in 0 .. npl[l]-1, k + 1 \in 0 .. npl[l]-1,
         NEW p, p = First[l] + k,
         NEW t, Seeds(t), Blank(SignerFlagTree, t),
         NEW x, x = Loading(SignerFlagTree, Loading(SignerFlagTree, t, p), p+1),
         NEW u, u = Regrown(Regrown(x, l, k), l, k+1)
  PROVE  /\ Seeds(u) /\ Blank(SignerFlagTree, u)
         /\ Grown(SignerFlagTree, t, path, p, p) => Grown(SignerFlagTree, u, path, p+2, p+2)
<1> DEFINE s == SignerFlagTree
           q == p + 1
           v == Loading(s, t, p)
           y == Regrown(x, l, k)
<1>1. s \in FlagArrays
  BY DEF SeedInvariant, SeedShape, Party, SignerFlagTree
<1>2. /\ p \in Node /\ q \in Node /\ p \in Int /\ q = First[l] + (k+1)
      /\ p <= p /\ p <= q /\ q+1 = p+2
  <2>1. p \in Node /\ First[l] + (k+1) \in Node
    BY NodeAt
  <2>2. First[l] \in Nat /\ k \in Nat
    BY LevelFacts
  <2> QED
    BY <2>1, <2>2
<1> HIDE DEF q
<1>3. x = Loading(s, v, q)
  BY DEF q
<1> HIDE DEF s
<1>4. /\ Seeds(v) /\ Blank(s, v)
      /\ Grown(s, t, path, p, p) => Grown(s, v, path, q, p)
  <2>1. v = IF p \in SentTo(s, p+1) THEN [t EXCEPT ![p] = path[CountTo(s, p)]] ELSE t
    BY DEF Loading
  <2>2. Blank(s, t)
    BY DEF s
  <2> HIDE DEF v
  <2> QED
    BY <1>1, <1>2, <2>1, <2>2, LoadNext DEF q
<1> HIDE DEF v
<1>5. /\ Seeds(x) /\ Blank(s, x)
      /\ Grown(s, v, path, q, p) => Grown(s, x, path, q+1, p)
  <2>1. x = IF q \in SentTo(s, q+1) THEN [v EXCEPT ![q] = path[CountTo(s, q)]] ELSE v
    BY <1>3 DEF Loading
  <2> QED
    BY <1>1, <1>2, <1>4, <2>1, LoadNext
<1>6. /\ Seeds(y) /\ Blank(s, y)
      /\ Grown(s, x, path, q+1, p) => Grown(s, y, path, q+1, q)
  BY <1>2, <1>5, RegrownIs DEF s, q
<1>7. u = Regrown(y, l, k+1)
  OBVIOUS
<1> HIDE DEF y
<1>8. /\ Seeds(u) /\ Blank(s, u)
      /\ Grown(s, y, path, q+1, q) => Grown(s, u, path, q+1, q+1)
  BY <1>2, <1>6, <1>7, RegrownIs DEF s
<1> QED
  BY <1>2, <1>4, <1>5, <1>6, <1>8 DEF s

LEMMA RebuildPairPreserves ==
  ASSUME SeedInvariant, RebuildPair
  PROVE  SeedInvariant'
<1> DEFINE s == SignerFlagTree
           t == VerifierSeedTree
           p == start_node + i
           st == Loaded(Loaded([tree |-> t, used |-> nodes_used], level, p), level, p + 1)
           x == Loading(s, Loading(s, t, p), p+1)
           u == Regrown(Regrown(x, level, i), level, i + 1)
<1>1. /\ seed_at = "rebuild_tree" /\ seed_by = "verifier" /\ PairPlace
      /\ i <= npl[level] - 2 /\ i' = i + 2
      /\ seed_tree' = [seed_tree EXCEPT !["verifier"] =
                         Regrown(Regrown(st.tree, level, i), level, i + 1)]
      /\ nodes_used' = st.used
      /\ UNCHANGED <<seed_at, seed_by, level, start_node, flags_tree, path,
                     num_seeds_published, is_stree_padding_ok, sharedVars>>
  BY DEF SeedInvariant, Whose, Rebuilding, RebuildPair, VerifierSeedTree
<1>2. /\ nodes_used = CountTo(s, p) /\ Blank(s, t) /\ Seeds(t)
      /\ Grown(s, t, path, p, p)
  BY <1>1 DEF SeedInvariant, Rebuilding, SeedShape, NextNode
<1>3. level \in 1 .. LOG2T /\ start_node = First[level] /\ level > 0
  BY <1>1 DEF PairPlace
<1>4. /\ level \in Level /\ Inner(level-1) \in Nat /\ npl[level] = 2 * Inner(level-1)
      /\ First[level] \in Nat
  BY <1>3, PairFacts, LevelFacts
<1>5. PICK h \in 0 .. Inner(level-1) : i = 2*h
  BY <1>1 DEF PairPlace
<1>6. /\ i \in 0 .. npl[level]-1 /\ i+1 \in 0 .. npl[level]-1
      /\ h+1 \in 0 .. Inner(level-1) /\ i' = 2*(h+1)
  BY <1>1, <1>4, <1>5
<1>7. p + 1 = First[level] + (i+1) /\ p + 1 + 1 = p + 2 /\ p = First[level] + i
  BY <1>3, <1>4, <1>6
<1>8. NextNode' = p + 2
  BY <1>1, <1>3, <1>4, <1>6 DEF NextNode
<1> HIDE DEF p
<1>9. st = [tree |-> x, used |-> CountTo(s, p+2)]
  <2>1. Loaded([tree |-> t, used |-> nodes_used], level, p)
          = [tree |-> Loading(s, t, p), used |-> CountTo(s, p+1)]
    BY <1>1, <1>2, <1>3, <1>4, <1>6, <1>7, LoadedIs
  <2>2. Loaded([tree |-> Loading(s, t, p), used |-> CountTo(s, p+1)], level, p+1)
          = [tree |-> x, used |-> CountTo(s, p+1+1)]
    BY <1>1, <1>3, <1>4, <1>6, <1>7, LoadedIs
  <2> QED
    BY <1>7, <2>1, <2>2
<1>10. st.tree = x /\ st.used = CountTo(s, p+2)
  BY <1>9
<1> HIDE DEF st
<1>11. seed_tree' = [seed_tree EXCEPT !["verifier"] = u] /\ nodes_used' = CountTo(s, p+2)
  BY <1>1, <1>10
<1>12. Seeds(u) /\ Blank(s, u) /\ Grown(s, u, path, p+2, p+2)
  BY <1>1, <1>2, <1>3, <1>4, <1>6, <1>7, PairRebuilt
<1>13. PairPlace'
  BY <1>1, <1>3, <1>6 DEF PairPlace
<1>14. start_node' \in 0 .. 2*T-1
  BY <1>1 DEF SeedInvariant, SeedShape
<1> HIDE DEF u, s, t
<1> QED
  BY <1>1, <1>2, <1>8, <1>11, <1>12, <1>13, <1>14, RebuildStep DEF s

LEMMA RebuildLevelPreserves ==
  ASSUME SeedInvariant, RebuildLevel
  PROVE  SeedInvariant'
<1> DEFINE s == SignerFlagTree
           t == VerifierSeedTree
<1>1. /\ seed_at = "rebuild_tree" /\ seed_by = "verifier" /\ PairPlace
      /\ i > npl[level] - 2 /\ nodes_used = CountTo(s, NextNode)
      /\ Blank(s, t) /\ Seeds(t)
      /\ Grown(s, t, path, NextNode, NextNode)
  BY DEF SeedInvariant, Whose, Rebuilding, SeedShape, RebuildLevel
<1>2. /\ NextLevelDown
      /\ IF level < LOG2T
         THEN seed_at' = seed_at /\ is_stree_padding_ok' = is_stree_padding_ok
         ELSE /\ seed_at' = "seed_leaves"
              /\ is_stree_padding_ok' = \A k \in Slot : k >= nodes_used => path[k] = Zero
      /\ UNCHANGED <<seed_by, seed_tree, flags_tree, path, num_seeds_published, nodes_used,
                     sharedVars>>
  BY DEF RebuildLevel
<1>3. level \in 1 .. LOG2T /\ start_node = First[level]
  BY <1>1 DEF PairPlace
<1>4. /\ level' = level + 1 /\ i' = 0 /\ start_node' = First[level+1]
      /\ NextNode' = start_node + npl[level]
      /\ level' \in 0 .. LOG2T+1 /\ i' \in Nat /\ start_node' \in 0 .. 2*T-1
      /\ level < LOG2T => level' \in 1 .. LOG2T /\ Inner(level' - 1) \in Nat
      /\ ~ (level < LOG2T) => start_node + npl[level] = AllNodes
  BY <1>2, <1>3, LevelEnds
<1>5. i = npl[level]
  <2>1. Inner(level-1) \in Nat /\ npl[level] = 2 * Inner(level-1)
    BY <1>3, PairFacts
  <2>2. PICK h \in 0 .. Inner(level-1) : i = 2*h
    BY <1>1 DEF PairPlace
  <2> QED
    BY <1>1, <2>1, <2>2
<1>6. NextNode' = NextNode /\ (~ (level < LOG2T) => NextNode = AllNodes)
  BY <1>4, <1>5 DEF NextNode
<1> HIDE DEF s
<1>7. CASE level < LOG2T
  <2>1. PairPlace'
    <3>1. 0 \in 0 .. Inner(level' - 1) /\ i' = 2*0
      BY <1>4, <1>7
    <3> QED
      BY <1>4, <1>7, <3>1 DEF PairPlace
  <2>2. seed_tree' = [seed_tree EXCEPT !["verifier"] = t]
    <3>1. seed_tree = [p \in Party |-> seed_tree[p]]
      BY DEF SeedInvariant, SeedShape
    <3> QED
      BY <1>2, <3>1 DEF VerifierSeedTree
  <2> HIDE DEF t
  <2> QED
    BY <1>1, <1>2, <1>4, <1>6, <1>7, <2>1, <2>2, RebuildStep DEF s
<1>8. CASE ~ (level < LOG2T)
  <2>1. NextNode = AllNodes /\ seed_at' = "seed_leaves"
    BY <1>2, <1>6, <1>8
  <2>2. /\ SignerSeedTree' = SignerSeedTree /\ VerifierSeedTree' = t
        /\ SignerFlagTree' = s /\ VerifierFlagTree' = VerifierFlagTree
        /\ PathFits' = PathFits /\ AllNodes' = AllNodes
    BY <1>2 DEF SignerSeedTree, VerifierSeedTree, SignerFlagTree, VerifierFlagTree, PathFits,
                AllNodes, s
  <2>3. num_seeds_published = CountTo(s, AllNodes)
    BY <1>1 DEF SeedInvariant, Sending, OnItsWay, s
  <2>4. nodes_used = num_seeds_published
    BY <1>1, <2>1, <2>3
  <2>5. /\ is_stree_padding_ok' \in BOOLEAN
        /\ EmptyFrom(s, path, AllNodes) => is_stree_padding_ok'
        /\ is_stree_padding_ok' => EmptyFrom(s, path, AllNodes)
    <3>1. is_stree_padding_ok' = \A k \in Slot : k >= nodes_used => path[k] = Zero
      BY <1>2, <1>8
    <3>2. EmptyFrom(s, path, AllNodes) <=> \A k \in Slot : k >= nodes_used => path[k] = Zero
      BY <2>3, <2>4 DEF EmptyFrom
    <3> QED
      BY <3>1, <3>2, Zenon
  <2>6. SeedShape'
    BY <1>2, <1>4, <2>1, <2>2, <2>5 DEF SeedInvariant, SeedShape, Seeds, sharedVars
  <2>7. Whose' /\ Growing' /\ Marking'
    BY <1>1, <1>2, <2>1, <2>2 DEF SeedInvariant, Whose, Growing, Marking, sharedVars
  <2>8. Chosen' /\ Marked'
    BY <1>1, <1>2, <2>1, <2>2
       DEF SeedInvariant, Chosen, Early, Challenges, Marked, Published, LeavesFlagged,
           sharedVars, s
  <2>9. Sending'
    BY <1>1, <1>2, <2>1, <2>2 DEF SeedInvariant, Sending, Unpublished, Early, OnItsWay,
                                  sharedVars, s
  <2>10. Rebuilding'
    BY <1>1, <1>2, <2>1, <2>2, <2>4, <2>5 DEF Rebuilding, Untouched, Rebuilt, sharedVars, s
  <2> QED
    BY <2>6, <2>7, <2>8, <2>9, <2>10 DEF SeedInvariant
<1> QED
  BY <1>7, <1>8

LEMMA OutsidePreservesSeeds ==
  ASSUME SeedInvariant,
         OutsideSeeds \/ UNCHANGED <<seedVars, chall_2, round_seeds, intact>>
  PROVE  SeedInvariant'
<1> USE DEF SeedInvariant
<1>1. UNCHANGED <<seed_at, seed_by, level, i, start_node, seed_tree, flags_tree, path,
                  num_seeds_published, nodes_used, is_stree_padding_ok, chall_2, round_seeds>>
  BY DEF OutsideSeeds, seedVars, loopVars, countVars
<1>2. (intact' => intact) /\ intact' \in BOOLEAN
  <2>1. intact \in BOOLEAN
    BY DEF SeedShape
  <2>2. intact' = intact \/ intact' = FALSE
    BY DEF OutsideSeeds
  <2>3. CASE intact' = intact
    BY <2>1, <2>3
  <2>4. CASE intact' = FALSE
    BY <2>4
  <2> QED
    BY <2>2, <2>3, <2>4
<1>3. /\ SignerSeedTree' = SignerSeedTree /\ VerifierSeedTree' = VerifierSeedTree
      /\ SignerFlagTree' = SignerFlagTree /\ VerifierFlagTree' = VerifierFlagTree
      /\ PathFits' = PathFits /\ NextNode' = NextNode /\ DonePairs' = DonePairs
      /\ GenPlace' = GenPlace /\ PairPlace' = PairPlace /\ NodePlace' = NodePlace
  BY <1>1 DEF SignerSeedTree, VerifierSeedTree, SignerFlagTree, VerifierFlagTree, PathFits,
              NextNode, DonePairs, GenPlace, PairPlace, NodePlace
<1>4. SeedShape'
  BY <1>1, <1>2, <1>3 DEF SeedShape, Seeds
<1>5. Whose' /\ Growing' /\ Marking'
  BY <1>1, <1>3 DEF Whose, Growing, Marking, LeavesFlagged
<1>6. Chosen' /\ Marked'
  BY <1>1, <1>3 DEF Chosen, Early, Challenges, Marked, Published, LeavesFlagged
<1>7. Sending'
  BY <1>1, <1>2, <1>3 DEF Sending, Unpublished, Early, OnItsWay
<1>8. Rebuilding'
  BY <1>1, <1>2, <1>3 DEF Rebuilding, Untouched, Rebuilt
<1> QED
  BY <1>4, <1>5, <1>6, <1>7, <1>8

-----------------------------------------------------------------------------
(* The theorems.                                                           *)

\* The invariant holds in every state: whatever the shape of the tree and
\* the challenge, and wherever the loops of seedtree.c stand.
THEOREM SeedInvariantHolds == SeedTreeSpec => []SeedInvariant
<1>1. SeedTreeInit => SeedInvariant
  BY SeedInitially
<1>2. SeedInvariant /\ [SeedTreeNext]_<<seedVars, chall_2, round_seeds, intact>>
        => SeedInvariant'
  <2>1. SUFFICES ASSUME SeedInvariant,
                        [SeedTreeNext]_<<seedVars, chall_2, round_seeds, intact>>
                 PROVE  SeedInvariant'
    OBVIOUS
  <2>2. CASE GenPair
    BY <2>1, <2>2, GenPairPreserves
  <2>3. CASE GenLast
    BY <2>1, <2>3, GenLastPreserves
  <2>4. CASE SeedLeaves
    BY <2>1, <2>4, SeedLeavesPreserves
  <2>5. CASE SeedChallenge /\ chall_2' \in Challenges /\ UNCHANGED <<round_seeds, intact>>
    BY <2>1, <2>5, ChallengePreservesSeeds
  <2>6. CASE LabelLeaves
    BY <2>1, <2>6, LabelPreserves
  <2>7. CASE ComputeEight \/ ComputePair
    BY <2>1, <2>7, ComputePairPreserves
  <2>8. CASE ComputeLevel
    BY <2>1, <2>8, ComputeLevelPreserves
  <2>9. CASE PathNode
    BY <2>1, <2>9, PathNodePreserves
  <2>10. CASE PathLevel
    BY <2>1, <2>10, PathLevelPreserves
  <2>11. CASE PathDamaged
    BY <2>1, <2>11, DamagePreservesSeeds
  <2>12. CASE SeedReceived
    BY <2>1, <2>12, ReceivedPreserves
  <2>13. CASE RebuildPair
    BY <2>1, <2>13, RebuildPairPreserves
  <2>14. CASE RebuildLevel
    BY <2>1, <2>14, RebuildLevelPreserves
  <2>15. CASE OutsideSeeds \/ UNCHANGED <<seedVars, chall_2, round_seeds, intact>>
    BY <2>1, <2>15, OutsidePreservesSeeds
  <2> QED
    BY <2>1, <2>2, <2>3, <2>4, <2>5, <2>6, <2>7, <2>8, <2>9, <2>10, <2>11, <2>12, <2>13,
       <2>14, <2>15
       DEF SeedTreeNext, SignerSeeds, PublishSeeds, RebuildSeeds, Computing
<1> QED
  BY <1>1, <1>2, PTL DEF SeedTreeSpec

\* The verifier's seed of every published round is the signer's, when the
\* signature arrives as it was sent: the node rebuild_tree takes a stored
\* seed for is the one seed_path has stored it for, whatever the challenge.
THEOREM RebuiltSeedsHolds == SeedTreeSpec => []RebuiltSeeds
<1>1. SeedInvariant => RebuiltSeeds
  <2>1. SUFFICES ASSUME SeedInvariant, seed_at = "rebuilt", intact, PathFits,
                        NEW r \in Round, chall_2[r] = 1
                 PROVE  round_seeds["verifier"][r] = round_seeds["signer"][r]
    BY DEF RebuiltSeeds
  <2> DEFINE s == SignerFlagTree
             n == LeafNode[r]
  <2>2. seed_by = "verifier" /\ Rebuilt /\ Published /\ OnItsWay
    BY <2>1 DEF SeedInvariant, Whose, Rebuilt, Published, OnItsWay
  <2>3. LeavesFlagged(s) /\ s[0] = 0 /\ s \in FlagArrays
    BY <2>1, <2>2 DEF SeedInvariant, Marked, SeedShape, Party, SignerFlagTree
  <2>4. Grown(s, VerifierSeedTree, path, 2*T-1, 2*T-1)
    BY <2>1, <2>2 DEF SeedInvariant, Rebuilding, AllNodes
  <2>5. /\ round_seeds["verifier"] = [q \in Round |-> VerifierSeedTree[LeafNode[q]]]
        /\ round_seeds["signer"] = [q \in Round |-> SignerSeedTree[LeafNode[q]]]
        /\ ExpandedTo(SignerSeedTree, 2*T-1)
    BY <2>1, <2>2 DEF SeedInvariant, Rebuilding, Growing, AllNodes
  <2>6. Arrived(s, SignerSeedTree, path)
    BY <2>1, <2>2 DEF SeedInvariant, Sending, PathFits, Arrived, AllNodes
  <2>7. Known(n) /\ s[n] = 1
    BY <2>1, <2>3 DEF Known, LeavesFlagged
  <2> HIDE DEF s
  <2>8. VerifierSeedTree[n] = SignerSeedTree[n]
    BY <2>3, <2>4, <2>5, <2>6, <2>7, SeedsArrive
  <2> QED
    BY <2>5, <2>8
<1> QED
  BY <1>1, SeedInvariantHolds, PTL

\* rebuild_tree takes as many stored seeds as seed_path has stored, so that
\* what it checks to be padding is what was padding when it was sent.
THEOREM PathUsedUpHolds == SeedTreeSpec => []PathUsedUp
<1>1. SeedInvariant => PathUsedUp
  <2>1. SUFFICES ASSUME SeedInvariant, Rebuilt
                 PROVE  nodes_used = num_seeds_published /\ (intact => is_stree_padding_ok)
    BY DEF Rebuilt, PathUsedUp
  <2>2. intact => EmptyFrom(SignerFlagTree, path, AllNodes)
    BY <2>1 DEF SeedInvariant, Sending, OnItsWay, Rebuilt
  <2> QED
    BY <2>1, <2>2 DEF SeedInvariant, Rebuilding
<1> QED
  BY <1>1, SeedInvariantHolds, PTL

\* The variables keep their shapes; in particular no loop of seedtree.c
\* leaves the tree.
THEOREM SeedTypeHolds == SeedTreeSpec => []SeedTypeOK
<1>1. SeedInvariant => SeedTypeOK
  <2>1. SUFFICES ASSUME SeedShape
                 PROVE  SeedTypeOK
    BY DEF SeedInvariant
  <2>2. \A p \in Party : seed_tree[p] = [n \in Node |-> seed_tree[p][n]]
    BY <2>1 DEF SeedShape, Seeds, Party, SignerSeedTree, VerifierSeedTree
  <2>3. seed_tree = [p \in Party |-> [n \in Node |-> seed_tree[p][n]]]
    <3>1. seed_tree = [p \in Party |-> seed_tree[p]]
      BY <2>1 DEF SeedShape
    <3> HIDE DEF Node
    <3> QED
      BY <2>2, <3>1, Zenon
  <2>4. round_seeds = [p \in Party |-> [r \in Round |-> round_seeds[p][r]]]
    <3>1. /\ round_seeds = [p \in Party |-> round_seeds[p]]
          /\ \A p \in Party : round_seeds[p] = [r \in Round |-> round_seeds[p][r]]
      BY <2>1 DEF SeedShape
    <3> QED
      BY <3>1
  <2> QED
    BY <2>1, <2>3, <2>4 DEF SeedShape, SeedTypeOK, FlagArrays
<1> QED
  BY <1>1, SeedInvariantHolds, PTL

-----------------------------------------------------------------------------
(* The Merkle tree.                                                        *)

-----------------------------------------------------------------------------
(* Places in the loops.                                                    *)

\* The loop variables before the pair at place k, or with k = -2 before the
\* next level; and the last father that is done.
Place(l, st, k) ==
  /\ l \in 1 .. LOG2T /\ st = First[l]
  /\ \E h \in 0 .. Inner(l-1) : k = 2*h - 2
Front(l, k) == First[l-1] + (k+2) \div 2

\* The same fathers are done.
Alike(a, b) == \A f \in InnerNode : f >= a <=> f >= b

LEMMA PlaceFacts ==
  ASSUME NEW l, NEW st, NEW k, Place(l, st, k)
  PROVE  /\ l \in Nat /\ l-1 \in 0 .. LOG2T-1 /\ (l-1)+1 = l /\ l \in Level
         /\ k \in Int /\ k >= -2 /\ k <= 2*T
         /\ st \in 0 .. 2*T-1 /\ Front(l, k) \in Nat
<1>1. PICK h \in 0 .. Inner(l-1) : k = 2*h - 2
  BY DEF Place
<1>2. l \in 1 .. LOG2T /\ LOG2T \in Nat
  BY RoundAssumption DEF Place
<1>3. l-1 \in 0 .. LOG2T-1 /\ l \in Nat /\ (l-1)+1 = l
  BY <1>2
<1>4. l-1 \in Level /\ l \in Level /\ npl[l] = 2 * Inner(l-1) /\ Inner(l-1) \in Nat
      /\ First[l-1] \in Nat
  BY <1>3, LevelBelow, LevelFacts
<1>5. First[l] + (npl[l]-1) \in Node /\ First[l] \in Nat /\ npl[l] > 0
  <2>1. npl[l]-1 \in 0 .. npl[l]-1 /\ First[l] \in Nat /\ npl[l] > 0
    BY <1>4, LevelFacts
  <2> QED
    BY <1>4, <2>1, NodeOfLevel
<1>6. (k+2) \div 2 = h
  BY <1>1, <1>4
<1>7. st = First[l] /\ T \in Nat
  BY RoundAssumption DEF Place
<1> QED
  BY <1>1, <1>3, <1>4, <1>5, <1>6, <1>7 DEF Front, Node

LEMMA PairAt ==
  ASSUME NEW l, NEW st, NEW k, Place(l, st, k), k >= 0
  PROVE  \E f \in InnerNode :
           /\ Front(l, k) = f+1 /\ Front(l, k-2) = f
           /\ Kid(f) = st + k /\ Father(l, st + k) = f /\ f < st
           /\ Place(l, st, k-2)
<1>1. PICK h \in 0 .. Inner(l-1) : k = 2*h - 2
  BY DEF Place
<1>2. /\ l-1 \in 0 .. LOG2T-1 /\ (l-1)+1 = l
      /\ First[l-1] \in Nat /\ Inner(l-1) \in Nat /\ st = First[l] /\ First[l] \in Nat
  <2>1. l-1 \in 0 .. LOG2T-1 /\ (l-1)+1 = l /\ l \in Level /\ l-1 \in Level
    BY PlaceFacts, LevelBelow
  <2> QED
    BY <2>1, LevelFacts DEF Place
<1> DEFINE j == h - 1
           f == First[l-1] + j
<1>3. j \in 0 .. Inner(l-1)-1 /\ j \in Nat /\ k = 2*j
  BY <1>1, <1>2
<1>4. f \in InnerNode /\ Kid(f) = First[l] + 2*j
  BY <1>2, <1>3, KidIs
<1>5. Father(l, First[l] + 2*j) = f
  BY <1>2, <1>3, PairOf
<1>6. (k+2) \div 2 = j + 1 /\ ((k-2)+2) \div 2 = j
  BY <1>3
<1>7. Front(l, k) = f+1 /\ Front(l, k-2) = f
  BY <1>2, <1>3, <1>6 DEF Front
<1>8. Place(l, st, k-2)
  <2>1. j \in 0 .. Inner(l-1) /\ k-2 = 2*j - 2
    BY <1>2, <1>3
  <2> QED
    BY <2>1 DEF Place
<1>9. f < First[l]
  <2>1. l-1 \in Level /\ j \in 0 .. npl[l-1]-1
    BY <1>2, <1>3, LevelBelow, LevelFacts
  <2> QED
    BY <1>2, <2>1, NodeOfLevel
<1> QED
  BY <1>2, <1>3, <1>4, <1>5, <1>7, <1>8, <1>9

LEMMA LevelDone ==
  ASSUME NEW l, NEW st, NEW k, Place(l, st, k), k < 0
  PROVE  k = -2 /\ Front(l, k) = First[l-1]
<1>1. k = -2
  <2>1. PICK h \in 0 .. Inner(l-1) : k = 2*h - 2
    BY DEF Place
  <2>2. h \in Int /\ h >= 0
    <3>1. l-1 \in Level
      BY PlaceFacts, LevelBelow
    <3> QED
      BY <3>1, LevelFacts
  <2> QED
    BY <2>1, <2>2
<1>2. l-1 \in Level
  BY PlaceFacts, LevelBelow
<1> QED
  BY <1>1, <1>2, LevelFacts DEF Front

LEMMA LevelAbove ==
  ASSUME NEW l, NEW st, NEW k, Place(l, st, k), k < 0, l > 1
  PROVE  /\ Place(l-1, st - npl[l-1], npl[l-1] - 2)
         /\ Alike(Front(l-1, npl[l-1] - 2), Front(l, k))
<1> DEFINE u == l-1
           v == u-1
<1>1. /\ l \in Nat /\ u \in 0 .. LOG2T-1 /\ u+1 = l /\ v \in 0 .. LOG2T-1 /\ v+1 = u
      /\ u \in 1 .. LOG2T
  <2>1. l \in Nat /\ l-1 \in 0 .. LOG2T-1 /\ LOG2T \in Nat
    BY PlaceFacts, RoundAssumption
  <2> QED
    BY <2>1
<1> HIDE DEF u, v
<1>2. /\ u \in Level /\ v \in Level /\ npl[u] = 2 * Inner(v) /\ First[l] = First[u] + npl[u]
      /\ First[u] \in Nat /\ First[v] \in Nat /\ Inner(v) \in Nat /\ npl[u] \in Nat
      /\ First[l] \in Nat
  <2>1. u \in Level /\ v \in Level /\ npl[u] = 2 * Inner(v) /\ l \in Level
    BY <1>1, LevelBelow
  <2> QED
    BY <1>1, <2>1, LevelFacts
<1>3. st = First[l]
  BY DEF Place
<1>4. Place(u, st - npl[u], npl[u] - 2)
  <2>1. Inner(v) \in 0 .. Inner(v) /\ npl[u] - 2 = 2 * Inner(v) - 2 /\ v = u-1
    BY <1>2 DEF v
  <2> QED
    BY <1>1, <1>2, <1>3, <2>1 DEF Place
<1>5. Front(u, npl[u]-2) = First[v] + Inner(v)
  <2>1. ((npl[u]-2) + 2) \div 2 = Inner(v)
    BY <1>2
  <2> QED
    BY <2>1 DEF Front, v
<1>6. Front(l, k) = First[u]
  BY LevelDone DEF u
<1>7. First[v] + Inner(v) <= First[u]
  BY <1>1, <1>2, LevelFacts
<1>8. ASSUME NEW f \in InnerNode
      PROVE  f >= First[v] + Inner(v) <=> f >= First[u]
  <2>1. f >= First[v] + Inner(v) => f >= First[u]
    BY <1>1, NoFatherBetween
  <2> QED
    BY <1>2, <1>7, <2>1, KidFacts
<1> QED
  BY <1>4, <1>5, <1>6, <1>8 DEF Alike, u

LEMMA TreeDone ==
  ASSUME NEW st, NEW k, Place(1, st, k), k < 0
  PROVE  Front(1, k) = 0
BY LevelDone, FirstNode

LEMMA FromLeaves ==
  /\ Place(LOG2T, LeafStart[1], npl[LOG2T] - 2)
  /\ \A f \in InnerNode : f < Front(LOG2T, npl[LOG2T] - 2)
<1> DEFINE u == LOG2T - 1
<1>1. /\ u \in 0 .. LOG2T-1 /\ u+1 = LOG2T /\ LOG2T \in 1 .. LOG2T
  BY RoundAssumption
<1> HIDE DEF u
<1>2. /\ npl[LOG2T] = 2 * Inner(u) /\ Inner(u) \in Nat /\ First[u] \in Nat
      /\ First[LOG2T] \in Nat
  BY <1>1, LevelBelow, LevelFacts
<1>3. Inner(u) \in 0 .. Inner(u) /\ npl[LOG2T] - 2 = 2 * Inner(u) - 2
  BY <1>2
<1>4. Place(LOG2T, LeafStart[1], npl[LOG2T] - 2)
  BY <1>1, <1>3, LeafAssumption DEF Place, u
<1>5. ((npl[LOG2T] - 2) + 2) \div 2 = Inner(u)
  BY <1>2
<1>6. Front(LOG2T, npl[LOG2T] - 2) = First[u] + Inner(u)
  BY <1>5 DEF Front, u
<1>7. ASSUME NEW f \in InnerNode, f >= First[u] + Inner(u)
      PROVE  FALSE
  <2>1. f >= First[LOG2T]
    BY <1>1, <1>7, NoFatherBetween
  <2>2. f < First[LOG2T]
    BY NoFatherBelow
  <2> QED
    BY <1>2, <2>1, <2>2, KidFacts
<1> QED
  BY <1>2, <1>4, <1>6, <1>7, KidFacts

-----------------------------------------------------------------------------
(* The tree of hashes.                                                     *)

Digests(t) == t = [n \in Node |-> t[n]]

\* The leaves are commitments, and all fathers from a on are hashes of their
\* children.
Leaves(t, cmt)   == \A r \in Round : t[LeafNode[r]] = cmt[r]
HashedFrom(t, a) ==
  \A f \in InnerNode : f >= a => t[f] = Hash2(t[Kid(f)], t[Kid(f) + 1])

LEMMA PlacedLeaves ==
  ASSUME NEW cmt
  PROVE  Digests(Placed(cmt)) /\ Leaves(Placed(cmt), cmt)
<1>1. Digests(Placed(cmt))
  BY DEF Digests, Placed
<1>2. ASSUME NEW r \in Round
      PROVE  Placed(cmt)[LeafNode[r]] = cmt[r]
  <2> DEFINE q == CHOOSE q \in Round : LeafNode[q] = LeafNode[r]
  <2>1. LeafNode[r] \in Node
    BY LeavesApart
  <2>2. q \in Round /\ LeafNode[q] = LeafNode[r]
    OBVIOUS
  <2>3. q = r
    BY <2>2, LeafAssumption
  <2>4. Placed(cmt)[LeafNode[r]] = cmt[q]
    BY <2>1 DEF Placed
  <2> QED
    BY <2>3, <2>4
<1> QED
  BY <1>1, <1>2 DEF Leaves

LEMMA HashKeeps ==
  ASSUME NEW t, Digests(t), NEW cmt, Leaves(t, cmt),
         NEW f \in InnerNode, HashedFrom(t, f+1),
         NEW u, u = [t EXCEPT ![f] = Hash2(t[Kid(f)], t[Kid(f) + 1])]
  PROVE  Digests(u) /\ Leaves(u, cmt) /\ HashedFrom(u, f)
<1>1. f \in Node /\ f \in Nat
  BY KidFacts
<1>2. u[f] = Hash2(t[Kid(f)], t[Kid(f) + 1]) /\ \A n \in Node \ {f} : u[n] = t[n]
  BY <1>1 DEF Digests
<1>3. Digests(u)
  BY DEF Digests
<1>4. Leaves(u, cmt)
  BY <1>2, LeavesApart DEF Leaves
<1>5. ASSUME NEW g \in InnerNode, g >= f
      PROVE  u[g] = Hash2(u[Kid(g)], u[Kid(g) + 1])
  <2>1. /\ g \in Nat /\ g \in Node /\ Kid(g) \in Node /\ Kid(g) + 1 \in Node
        /\ Kid(g) \in Nat /\ g < Kid(g)
    BY KidFacts
  <2>2. Kid(g) # f /\ Kid(g) + 1 # f
    BY <1>1, <1>5, <2>1
  <2>3. u[Kid(g)] = t[Kid(g)] /\ u[Kid(g) + 1] = t[Kid(g) + 1]
    BY <1>2, <2>1, <2>2
  <2>4. CASE g = f
    BY <1>2, <2>3, <2>4
  <2>5. CASE g # f
    <3>1. g >= f+1
      BY <1>1, <1>5, <2>1, <2>5
    <3>2. t[g] = Hash2(t[Kid(g)], t[Kid(g) + 1])
      BY <3>1 DEF HashedFrom
    <3> QED
      BY <1>2, <2>1, <2>3, <2>5, <3>2
  <2> QED
    BY <2>4, <2>5
<1> QED
  BY <1>3, <1>4, <1>5 DEF HashedFrom

LEMMA HashedAlike ==
  ASSUME NEW t, NEW a, NEW b, Alike(a, b), HashedFrom(t, b)
  PROVE  HashedFrom(t, a)
BY DEF Alike, HashedFrom

-----------------------------------------------------------------------------
(* The flags of the computed nodes, and the pairs one node of which goes   *)
(* into the proof.                                                         *)

Flags == [Node -> 0..1]

LeafFlags(s)   ==
  \A r \in Round : s[LeafNode[r]] = IF chall_2[r] = 0 THEN 1 ELSE 0
Computes(s, f) == s[Kid(f)] = 1 \/ s[Kid(f) + 1] = 1
OrFrom(s, a)   ==
  \A f \in InnerNode : f >= a => s[f] = IF Computes(s, f) THEN 1 ELSE 0

Mixed(s, a)     == {f \in InnerNode : f >= a /\ s[Kid(f)] # s[Kid(f) + 1]}
SlotsFrom(s, a) == Cardinality(Mixed(s, a))
Missing(s, f)   == IF s[Kid(f)] = 0 THEN Kid(f) ELSE Kid(f) + 1

LEMMA MixedFinite ==
  ASSUME NEW s, NEW a
  PROVE  IsFiniteSet(Mixed(s, a)) /\ SlotsFrom(s, a) \in Nat
<1>1. Mixed(s, a) \in SUBSET Node
  BY DEF Mixed, InnerNode
<1> QED
  BY <1>1, NodesFinite DEF SlotsFrom

LEMMA SlotsNext ==
  ASSUME NEW s, NEW f \in InnerNode
  PROVE  SlotsFrom(s, f) =
           IF s[Kid(f)] # s[Kid(f) + 1] THEN SlotsFrom(s, f+1) + 1
                                        ELSE SlotsFrom(s, f+1)
<1>1. f \in Nat /\ \A g \in InnerNode : g \in Nat
  BY KidFacts
<1>2. f \notin Mixed(s, f+1)
  BY <1>1 DEF Mixed
<1>3. \A g \in InnerNode : g >= f <=> g >= f+1 \/ g = f
  BY <1>1
<1>4. CASE s[Kid(f)] # s[Kid(f) + 1]
  <2>1. Mixed(s, f) = Mixed(s, f+1) \cup {f}
    BY <1>3, <1>4 DEF Mixed
  <2>2. Cardinality(Mixed(s, f+1) \cup {f}) = Cardinality(Mixed(s, f+1)) + 1
    BY <1>2, MixedFinite, FS_AddElement
  <2> QED
    BY <1>4, <2>1, <2>2 DEF SlotsFrom
<1>5. CASE s[Kid(f)] = s[Kid(f) + 1]
  <2>1. Mixed(s, f) = Mixed(s, f+1)
    BY <1>3, <1>5 DEF Mixed
  <2> QED
    BY <1>5, <2>1 DEF SlotsFrom
<1> QED
  BY <1>4, <1>5

\* A pair that is visited earlier has an earlier slot.
LEMMA SlotsGrow ==
  ASSUME NEW s, NEW a \in Int, NEW f \in Mixed(s, a)
  PROVE  SlotsFrom(s, f+1) < SlotsFrom(s, a)
<1>1. f \in InnerNode /\ f >= a /\ s[Kid(f)] # s[Kid(f) + 1]
  BY DEF Mixed
<1>2. SlotsFrom(s, f) = SlotsFrom(s, f+1) + 1
  BY <1>1, SlotsNext
<1>3. Mixed(s, f) \in SUBSET Mixed(s, a)
  <2>1. \A g \in InnerNode : g \in Nat
    BY KidFacts
  <2> QED
    BY <1>1, <2>1 DEF Mixed
<1>4. SlotsFrom(s, f) <= SlotsFrom(s, a)
  BY <1>3, MixedFinite, FS_Subset DEF SlotsFrom
<1> QED
  BY <1>2, <1>4, MixedFinite

\* What a pass of tree_proof does to the flags.
LEMMA FlagKeeps ==
  ASSUME NEW s \in Flags, NEW f \in InnerNode,
         NEW u, u = [s EXCEPT ![f] = IF Computes(s, f) THEN 1 ELSE 0]
  PROVE  /\ u \in Flags
         /\ LeafFlags(s) => LeafFlags(u)
         /\ OrFrom(s, f+1) => OrFrom(u, f)
         /\ \A g \in InnerNode : g >= f => /\ u[Kid(g)] = s[Kid(g)]
                                           /\ u[Kid(g) + 1] = s[Kid(g) + 1]
         /\ Mixed(u, f+1) = Mixed(s, f+1)
         /\ \A n \in Node : n # f => u[n] = s[n]
<1>1. f \in Node /\ f \in Nat /\ \A g \in InnerNode : g \in Nat
  BY KidFacts
<1>2. /\ u \in Flags /\ u[f] = IF Computes(s, f) THEN 1 ELSE 0
      /\ \A n \in Node : n # f => u[n] = s[n]
  BY <1>1 DEF Flags
<1>3. ASSUME NEW g \in InnerNode, g >= f
      PROVE  u[Kid(g)] = s[Kid(g)] /\ u[Kid(g) + 1] = s[Kid(g) + 1]
  <2>1. Kid(g) \in Node /\ Kid(g) + 1 \in Node /\ Kid(g) \in Nat /\ g < Kid(g) /\ g \in Nat
    BY KidFacts
  <2>2. Kid(g) # f /\ Kid(g) + 1 # f
    BY <1>1, <1>3, <2>1
  <2> QED
    BY <1>2, <2>1, <2>2
<1>4. LeafFlags(s) => LeafFlags(u)
  BY <1>2, LeavesApart DEF LeafFlags
<1>5. ASSUME OrFrom(s, f+1), NEW g \in InnerNode, g >= f
      PROVE  u[g] = IF Computes(u, g) THEN 1 ELSE 0
  <2>1. Computes(u, g) <=> Computes(s, g)
    BY <1>3, <1>5 DEF Computes
  <2>2. CASE g = f
    BY <1>2, <2>1, <2>2
  <2>3. CASE g # f
    <3>1. g >= f+1 /\ g \in Node
      BY <1>1, <1>5, <2>3, KidFacts
    <3> QED
      BY <1>2, <1>5, <2>1, <2>3, <3>1 DEF OrFrom
  <2> QED
    BY <2>2, <2>3
<1>6. Mixed(u, f+1) = Mixed(s, f+1)
  <2>1. \A g \in InnerNode : g >= f+1 => g >= f
    BY <1>1
  <2> QED
    BY <1>3, <2>1 DEF Mixed
<1>7. OrFrom(s, f+1) => OrFrom(u, f)
  BY <1>5 DEF OrFrom
<1> QED
  BY <1>2, <1>3, <1>4, <1>6, <1>7

LEMMA FlagsAlike ==
  ASSUME NEW s, NEW a, NEW b, Alike(a, b)
  PROVE  Mixed(s, a) = Mixed(s, b) /\ SlotsFrom(s, a) = SlotsFrom(s, b)
         /\ (OrFrom(s, a) <=> OrFrom(s, b))
<1>1. Mixed(s, a) = Mixed(s, b)
  BY DEF Alike, Mixed
<1>2. OrFrom(s, a) <=> OrFrom(s, b)
  BY DEF Alike, OrFrom
<1> QED
  BY <1>1, <1>2 DEF SlotsFrom

\* The proof so far, and the flags that will reach the root.
Stored(s, t, pr, a) ==
  \A f \in Mixed(s, a) :
    SlotsFrom(s, f+1) \in Slot => pr[SlotsFrom(s, f+1)] = t[Missing(s, f)]
RestEmpty(s, pr, a) == \A k \in Slot : k >= SlotsFrom(s, a) => pr[k] = NoDigest

Rising(s, a) ==
  \E n \in Node :
    /\ Known(n) /\ s[n] = 1 /\ (n \in InnerNode => n >= a)
    /\ \A f \in InnerNode : f >= a => n # Kid(f) /\ n # Kid(f) + 1

LEMMA RisingNext ==
  ASSUME NEW s \in Flags, NEW f \in InnerNode, Rising(s, f+1),
         NEW u, u = [s EXCEPT ![f] = IF Computes(s, f) THEN 1 ELSE 0]
  PROVE  Rising(u, f)
<1>1. PICK n \in Node :
        /\ Known(n) /\ s[n] = 1 /\ (n \in InnerNode => n >= f+1)
        /\ \A g \in InnerNode : g >= f+1 => n # Kid(g) /\ n # Kid(g) + 1
  BY DEF Rising
<1>2. f \in Nat /\ f \in Node /\ \A g \in InnerNode : g \in Nat
  BY KidFacts
<1>3. u[f] = (IF Computes(s, f) THEN 1 ELSE 0) /\ \A m \in Node : m # f => u[m] = s[m]
  BY <1>2 DEF Flags
<1>4. CASE n = Kid(f) \/ n = Kid(f) + 1
  <2>1. u[f] = 1 /\ Known(f)
    BY <1>1, <1>3, <1>4 DEF Computes, Known
  <2>2. ASSUME NEW g \in InnerNode, g >= f
        PROVE  f # Kid(g) /\ f # Kid(g) + 1
    BY <1>2, <2>2, KidFacts
  <2> QED
    BY <1>2, <2>1, <2>2 DEF Rising
<1>5. CASE n # Kid(f) /\ n # Kid(f) + 1
  <2>1. n # f
    BY <1>1, <1>2
  <2>2. \A g \in InnerNode : g >= f => n # Kid(g) /\ n # Kid(g) + 1
    BY <1>1, <1>2, <1>5
  <2>3. n \in InnerNode => n >= f
    BY <1>1, <1>2
  <2> QED
    BY <1>1, <1>3, <2>1, <2>2, <2>3 DEF Rising
<1> QED
  BY <1>4, <1>5

LEMMA RisenToRoot ==
  ASSUME NEW s, Rising(s, 0)
  PROVE  s[0] = 1
<1>1. PICK n \in Node :
        /\ Known(n) /\ s[n] = 1
        /\ \A f \in InnerNode : f >= 0 => n # Kid(f) /\ n # Kid(f) + 1
  BY DEF Rising
<1>2. \A f \in InnerNode : f >= 0
  BY KidFacts
<1>3. n = 0
  BY <1>1, <1>2, HasFather
<1> QED
  BY <1>1, <1>3

LEMMA RisingFirst ==
  ASSUME NEW s, LeafFlags(s), chall_2 \in Challenges, NEW a \in Int,
         \A f \in InnerNode : f < a
  PROVE  Rising(s, a)
<1>1. \E r \in Round : chall_2[r] = 0
  <2>1. SUFFICES ASSUME \A r \in Round : chall_2[r] # 0
                 PROVE  FALSE
    OBVIOUS
  <2>2. \A r \in Round : chall_2[r] = 1
    BY <2>1 DEF Challenges
  <2>3. {r \in Round : chall_2[r] = 1} = Round
    BY <2>2
  <2>4. Cardinality(Round) = W
    BY <2>3 DEF Challenges
  <2>5. Cardinality(Round) = T
    BY FS_Interval, RoundAssumption DEF Round
  <2> QED
    BY <2>4, <2>5, RoundAssumption
<1>2. PICK r \in Round : chall_2[r] = 0
  BY <1>1
<1>3. /\ LeafNode[r] \in Node /\ Known(LeafNode[r]) /\ s[LeafNode[r]] = 1
      /\ LeafNode[r] \notin InnerNode
  BY <1>2, LeavesApart DEF Known, LeafFlags
<1>4. \A f \in InnerNode : ~ (f >= a)
  <2>1. ASSUME NEW f \in InnerNode
        PROVE  ~ (f >= a)
    <3>1. f < a
      OBVIOUS
    <3> QED
      BY <3>1, KidFacts
  <2> QED
    BY <2>1
<1> QED
  BY <1>3, <1>4 DEF Rising

LEMMA RisingAlike ==
  ASSUME NEW s, NEW a, NEW b, Alike(a, b), Rising(s, b)
  PROVE  Rising(s, a)
BY DEF Alike, Rising

-----------------------------------------------------------------------------
(* recompute_root.                                                         *)

SameFlags(v, s, a) ==
  /\ v \in Flags /\ LeafFlags(v)
  /\ \A f \in InnerNode : v[f] = IF f >= a THEN s[f] ELSE 0

LEMMA KidFlags ==
  ASSUME NEW v, NEW s, NEW f \in InnerNode, SameFlags(v, s, f+1), LeafFlags(s),
         NEW g \in InnerNode, g >= f
  PROVE  v[Kid(g)] = s[Kid(g)] /\ v[Kid(g) + 1] = s[Kid(g) + 1]
<1>1. f \in Nat /\ g \in Nat /\ Kid(g) \in Nat /\ g < Kid(g)
  BY KidFacts
<1>2. Kid(g) >= f+1 /\ Kid(g) + 1 >= f+1
  BY <1>1
<1>3. ASSUME NEW n, Known(n), n >= f+1
      PROVE  v[n] = s[n]
  <2>1. CASE n \in InnerNode
    BY <1>3, <2>1 DEF SameFlags
  <2>2. CASE \E r \in Round : LeafNode[r] = n
    BY <2>2 DEF SameFlags, LeafFlags
  <2> QED
    BY <1>3, <2>1, <2>2 DEF Known
<1> QED
  BY <1>2, <1>3, KidsKnown

LEMMA VerifierFlags ==
  ASSUME NEW s \in Flags, LeafFlags(s), OrFrom(s, 0),
         NEW v, NEW f \in InnerNode, SameFlags(v, s, f+1),
         NEW u, u = IF Computes(v, f) THEN [v EXCEPT ![f] = 1] ELSE v
  PROVE  /\ SameFlags(u, s, f) /\ Computes(v, f) = Computes(s, f)
         /\ \A n \in Node : n # f => u[n] = v[n]
<1>1. f \in Node /\ f \in Nat /\ f >= 0 /\ \A g \in InnerNode : g \in Nat
  BY KidFacts
<1>2. v \in Flags /\ LeafFlags(v) /\ v[f] = 0
  BY <1>1 DEF SameFlags
<1>3. Computes(v, f) = Computes(s, f)
  <2>1. f >= f
    BY <1>1
  <2>2. v[Kid(f)] = s[Kid(f)] /\ v[Kid(f) + 1] = s[Kid(f) + 1]
    BY <2>1, KidFlags
  <2> QED
    BY <2>2 DEF Computes
<1>4. s[f] = IF Computes(s, f) THEN 1 ELSE 0
  BY <1>1 DEF OrFrom
<1>5. /\ u \in Flags /\ \A n \in Node : n # f => u[n] = v[n]
      /\ u[f] = s[f]
  <2>1. CASE Computes(v, f)
    BY <1>1, <1>2, <1>3, <1>4, <2>1 DEF Flags
  <2>2. CASE ~ Computes(v, f)
    BY <1>1, <1>2, <1>3, <1>4, <2>2
  <2> QED
    BY <2>1, <2>2
<1>6. LeafFlags(u)
  BY <1>2, <1>5, LeavesApart DEF LeafFlags
<1>7. ASSUME NEW g \in InnerNode
      PROVE  u[g] = IF g >= f THEN s[g] ELSE 0
  <2>1. CASE g = f
    BY <1>1, <1>5, <2>1
  <2>2. CASE g # f
    <3>1. (g >= f <=> g >= f+1) /\ g \in Node
      BY <1>1, <2>2, KidFacts
    <3>2. v[g] = IF g >= f+1 THEN s[g] ELSE 0
      BY DEF SameFlags
    <3> QED
      BY <1>5, <2>2, <3>1, <3>2
  <2> QED
    BY <2>1, <2>2
<1> QED
  BY <1>3, <1>5, <1>6, <1>7 DEF SameFlags

\* The two halves of a hash, and how many slots of the proof they take.
Half1(v, tv, pr, f, used) == IF v[Kid(f)] = 1 THEN tv[Kid(f)] ELSE pr[used]
Half2(v, tv, pr, f, used) ==
  IF v[Kid(f) + 1] = 1 THEN tv[Kid(f) + 1]
  ELSE IF v[Kid(f)] = 1 THEN pr[used] ELSE pr[used + 1]

LEMMA InputIs ==
  ASSUME NEW f \in InnerNode, NEW used \in Nat,
         computed["verifier"] \in Flags, Computes(computed["verifier"], f)
  PROVE  LET st == Input(Kid(f), used)
             v  == computed["verifier"]
             tv == merkle_tree["verifier"]
         IN  /\ st.input[1] = Half1(v, tv, proof, f, used)
             /\ st.input[2] = Half2(v, tv, proof, f, used)
             /\ st.used = IF v[Kid(f)] # v[Kid(f) + 1] THEN used + 1 ELSE used
<1> DEFINE n  == Kid(f)
           v  == computed["verifier"]
           tv == merkle_tree["verifier"]
           d1 == Half1(v, tv, proof, f, used)
           u1 == IF v[n] = 1 THEN used ELSE used + 1
           d2 == IF v[n+1] = 1 THEN tv[n+1] ELSE proof[u1]
           u2 == IF v[n+1] = 1 THEN u1 ELSE u1 + 1
<1>1. n \in Node /\ n+1 \in Node /\ SIBLING(n) = n+1
  BY KidFacts
<1>2. v[n] \in 0..1 /\ v[n+1] \in 0..1 /\ (v[n] = 1 \/ v[n+1] = 1)
  BY <1>1 DEF Flags, Computes
<1>3. Taken([input |-> <<>>, used |-> used], n) = [input |-> <<d1>>, used |-> u1]
  BY DEF Taken, Half1
<1>4. Taken([input |-> <<d1>>, used |-> u1], n+1) = [input |-> <<d1, d2>>, used |-> u2]
  BY DEF Taken
<1>5. Input(n, used) = [input |-> <<d1, d2>>, used |-> u2]
  BY <1>1, <1>3, <1>4 DEF Input
<1>6. d2 = Half2(v, tv, proof, f, used)
  BY DEF Half2
<1>7. u2 = IF v[n] # v[n+1] THEN used + 1 ELSE used
  BY <1>2
<1> HIDE DEF n, v, tv, d1, u1, d2, u2
<1>8. Input(n, used).input[1] = d1 /\ Input(n, used).input[2] = d2
      /\ Input(n, used).used = u2
  BY <1>5
<1> QED
  BY <1>6, <1>7, <1>8 DEF n, v, tv, d1

\* Only node f has changed.
SameBut(u, v, f) == \A n \in Node : n # f => u[n] = v[n]

\* What recompute_root has made of the proof, whether it arrived as it was sent
\* or not: the computed fathers from a on are hashed from their halves.
Rehashed(s, tv, pr, a) ==
  \A f \in InnerNode : f >= a /\ Computes(s, f) =>
    tv[f] = Hash2(Half1(s, tv, pr, f, SlotsFrom(s, f+1)),
                  Half2(s, tv, pr, f, SlotsFrom(s, f+1)))

LEMMA RehashNext ==
  ASSUME NEW s, LeafFlags(s), NEW pr,
         NEW v, NEW f \in InnerNode, SameFlags(v, s, f+1),
         NEW tv, Rehashed(s, tv, pr, f+1), NEW tu, SameBut(tu, tv, f),
         NEW used, used = SlotsFrom(s, f+1),
         Computes(v, f) =>
           tu[f] = Hash2(Half1(v, tv, pr, f, used), Half2(v, tv, pr, f, used))
  PROVE  Rehashed(s, tu, pr, f)
<1>1. f \in Nat /\ f >= f
  BY KidFacts
<1>2. ASSUME NEW g \in InnerNode, g >= f
      PROVE  /\ \A k : Half1(s, tu, pr, g, k) = Half1(s, tv, pr, g, k)
             /\ \A k : Half2(s, tu, pr, g, k) = Half2(s, tv, pr, g, k)
  <2>1. /\ g \in Nat /\ Kid(g) \in Nat /\ g < Kid(g)
        /\ Kid(g) \in Node /\ Kid(g) + 1 \in Node
    BY KidFacts
  <2>2. Kid(g) # f /\ Kid(g) + 1 # f
    BY <1>1, <1>2, <2>1
  <2>3. tu[Kid(g)] = tv[Kid(g)] /\ tu[Kid(g) + 1] = tv[Kid(g) + 1]
    BY <2>1, <2>2 DEF SameBut
  <2> QED
    BY <2>3 DEF Half1, Half2
<1>3. ASSUME NEW g \in InnerNode, g >= f, Computes(s, g)
      PROVE  tu[g] = Hash2(Half1(s, tu, pr, g, SlotsFrom(s, g+1)),
                           Half2(s, tu, pr, g, SlotsFrom(s, g+1)))
  <2>1. CASE g = f
    <3>1. v[Kid(f)] = s[Kid(f)] /\ v[Kid(f) + 1] = s[Kid(f) + 1]
      BY <1>1, KidFlags
    <3>2. Computes(v, f)
      BY <1>3, <2>1, <3>1 DEF Computes
    <3>3. tu[f] = Hash2(Half1(s, tv, pr, f, used), Half2(s, tv, pr, f, used))
      BY <3>1, <3>2 DEF Half1, Half2
    <3>4. /\ Half1(s, tu, pr, f, used) = Half1(s, tv, pr, f, used)
          /\ Half2(s, tu, pr, f, used) = Half2(s, tv, pr, f, used)
      BY <1>1, <1>2
    <3> QED
      BY <2>1, <3>3, <3>4
  <2>2. CASE g # f
    <3>1. g >= f+1 /\ g \in Node
      BY <1>1, <1>3, <2>2, KidFacts
    <3>2. tu[g] = tv[g]
      BY <2>2, <3>1 DEF SameBut
    <3>3. tv[g] = Hash2(Half1(s, tv, pr, g, SlotsFrom(s, g+1)),
                        Half2(s, tv, pr, g, SlotsFrom(s, g+1)))
      BY <1>3, <3>1 DEF Rehashed
    <3>4. /\ Half1(s, tu, pr, g, SlotsFrom(s, g+1)) = Half1(s, tv, pr, g, SlotsFrom(s, g+1))
          /\ Half2(s, tu, pr, g, SlotsFrom(s, g+1)) = Half2(s, tv, pr, g, SlotsFrom(s, g+1))
      BY <1>2, <1>3
    <3> QED
      BY <3>2, <3>3, <3>4
  <2> QED
    BY <2>1, <2>2
<1> QED
  BY <1>3 DEF Rehashed

\* From a proof that arrived as it was sent the computed nodes get the
\* signer's digests.
LEMMA DigestsArrive ==
  ASSUME NEW s \in Flags, LeafFlags(s), OrFrom(s, 0),
         NEW ts, HashedFrom(ts, 0), NEW pr, Stored(s, ts, pr, 0),
         SlotsFrom(s, 0) <= NodesToStore, NEW tv, Rehashed(s, tv, pr, 0),
         \A r \in Round : chall_2[r] = 0 => tv[LeafNode[r]] = ts[LeafNode[r]],
         NEW n, Known(n), s[n] = 1
  PROVE  tv[n] = ts[n]
<1> DEFINE D == {m \in Node : Known(m) /\ s[m] = 1 /\ tv[m] # ts[m]}
<1>1. SUFFICES ASSUME tv[n] # ts[n]
               PROVE  FALSE
  OBVIOUS
<1>2. n \in D /\ D \in SUBSET Node
  BY <1>1, KidFacts, LeavesApart DEF Known
<1> HIDE DEF D
<1>3. PICK f \in D : \A m \in D : m <= f
  BY <1>2, LastNode
<1>4. f \in Node /\ Known(f) /\ s[f] = 1 /\ tv[f] # ts[f]
  BY <1>3 DEF D
<1>5. f \in InnerNode
  BY <1>4 DEF Known, LeafFlags
<1> DEFINE c == Kid(f)
           used == SlotsFrom(s, f+1)
<1>6. /\ f \in Nat /\ f >= 0 /\ c \in Nat /\ f < c /\ c \in Node /\ c+1 \in Node
      /\ Known(c) /\ Known(c+1)
  BY <1>5, KidFacts, KidsKnown
<1>7. Computes(s, f) /\ s[c] \in 0..1 /\ s[c+1] \in 0..1 /\ (s[c] = 1 \/ s[c+1] = 1)
  BY <1>4, <1>5, <1>6 DEF OrFrom, Computes, Flags
<1> HIDE DEF c
<1>8. (s[c] = 1 => tv[c] = ts[c]) /\ (s[c+1] = 1 => tv[c+1] = ts[c+1])
  <2>1. c \notin D /\ c+1 \notin D
    BY <1>3, <1>6
  <2> QED
    BY <1>6, <2>1 DEF D
<1>9. s[c] # s[c+1] => pr[used] = ts[Missing(s, f)]
  <2>1. SUFFICES ASSUME s[c] # s[c+1]
                 PROVE  pr[used] = ts[Missing(s, f)]
    OBVIOUS
  <2>2. f \in Mixed(s, 0)
    BY <1>5, <1>6, <2>1 DEF Mixed, c
  <2>3. used < SlotsFrom(s, 0) /\ used \in Nat /\ SlotsFrom(s, 0) \in Nat
    BY <2>2, SlotsGrow, MixedFinite
  <2>4. used \in Slot
    BY <2>3, RoundAssumption DEF Slot
  <2> QED
    BY <2>2, <2>4 DEF Stored
<1> HIDE DEF used
<1>10. Half1(s, tv, pr, f, used) = ts[c]
  <2>1. CASE s[c] = 1
    BY <1>8, <2>1 DEF Half1, c
  <2>2. CASE s[c] = 0
    <3>1. s[c] # s[c+1] /\ Missing(s, f) = c
      BY <1>7, <2>2 DEF Missing, c
    <3> QED
      BY <1>9, <2>2, <3>1 DEF Half1, c
  <2> QED
    BY <1>7, <2>1, <2>2
<1>11. Half2(s, tv, pr, f, used) = ts[c+1]
  <2>1. CASE s[c+1] = 1
    BY <1>8, <2>1 DEF Half2, c
  <2>2. CASE s[c+1] = 0
    <3>1. s[c] = 1 /\ s[c] # s[c+1] /\ Missing(s, f) = c+1
      BY <1>7, <2>2 DEF Missing, c
    <3> QED
      BY <1>9, <2>2, <3>1 DEF Half2, c
  <2> QED
    BY <1>7, <2>1, <2>2
<1>12. tv[f] = Hash2(ts[c], ts[c+1])
  BY <1>5, <1>6, <1>7, <1>10, <1>11 DEF Rehashed, used
<1>13. ts[f] = Hash2(ts[c], ts[c+1])
  BY <1>5, <1>6 DEF HashedFrom, c
<1> QED
  BY <1>4, <1>12, <1>13

\* No father is hashed from other halves to the digest of the signer.
HashesApart(s, tv, ts, pr) ==
  \A f \in InnerNode :
    LET a == Half1(s, tv, pr, f, SlotsFrom(s, f+1))
        b == Half2(s, tv, pr, f, SlotsFrom(s, f+1))
    IN  Computes(s, f) /\ Hash2(a, b) = Hash2(ts[Kid(f)], ts[Kid(f) + 1])
          => a = ts[Kid(f)] /\ b = ts[Kid(f) + 1]

\* The other way round: when the verifier comes to the signer's root, then it
\* has the signer's commitments, and the proof holds what was sent.
LEMMA DigestsMatch ==
  ASSUME NEW s \in Flags, LeafFlags(s), OrFrom(s, 0), s[0] = 1,
         NEW ts, HashedFrom(ts, 0), NEW pr, NEW tv, Rehashed(s, tv, pr, 0),
         HashesApart(s, tv, ts, pr), tv[0] = ts[0]
  PROVE  /\ Stored(s, ts, pr, 0)
         /\ \A r \in Round : chall_2[r] = 0 => tv[LeafNode[r]] = ts[LeafNode[r]]
<1> DEFINE D == {m \in Node : Known(m) /\ s[m] = 1 /\ tv[m] # ts[m]}
\* A father on whose digest both sides agree.
<1>1. ASSUME NEW f \in InnerNode, Computes(s, f), f \notin D
      PROVE  /\ s[f] = 1
             /\ Half1(s, tv, pr, f, SlotsFrom(s, f+1)) = ts[Kid(f)]
             /\ Half2(s, tv, pr, f, SlotsFrom(s, f+1)) = ts[Kid(f) + 1]
  <2> HIDE DEF D
  <2>1. f \in Node /\ f >= 0 /\ Known(f)
    BY KidFacts DEF Known
  <2>2. s[f] = 1
    BY <1>1, <2>1 DEF OrFrom
  <2>3. tv[f] = ts[f]
    BY <1>1, <2>1, <2>2 DEF D
  <2>4. /\ ts[f] = Hash2(ts[Kid(f)], ts[Kid(f) + 1])
        /\ tv[f] = Hash2(Half1(s, tv, pr, f, SlotsFrom(s, f+1)),
                         Half2(s, tv, pr, f, SlotsFrom(s, f+1)))
    BY <1>1, <2>1 DEF HashedFrom, Rehashed
  <2> QED
    BY <1>1, <2>2, <2>3, <2>4 DEF HashesApart
<1>2. D = {}
  <2>1. SUFFICES ASSUME D # {}
                 PROVE  FALSE
    OBVIOUS
  <2>2. D \in SUBSET Nat
    BY RoundAssumption DEF Node
  <2>3. \A m \in D : m \in Node /\ Known(m) /\ s[m] = 1 /\ tv[m] # ts[m]
    OBVIOUS
  <2> HIDE DEF D
  <2>4. PICK x \in D : \A z \in D : x <= z
    BY <2>1, <2>2, LeastOf
  <2>5. x # 0 /\ Known(x) /\ s[x] = 1 /\ tv[x] # ts[x] /\ x \in Nat
    BY <2>2, <2>3, <2>4
  <2>6. PICK f \in InnerNode : x = Kid(f) \/ x = Kid(f) + 1
    BY <2>5, HasFather
  <2>7. f \notin D
    <3>1. f \in Nat /\ Kid(f) \in Nat /\ f < Kid(f)
      BY KidFacts
    <3> QED
      BY <2>4, <2>5, <2>6, <3>1
  <2>8. Computes(s, f)
    BY <2>5, <2>6 DEF Computes
  <2>9. /\ Half1(s, tv, pr, f, SlotsFrom(s, f+1)) = ts[Kid(f)]
        /\ Half2(s, tv, pr, f, SlotsFrom(s, f+1)) = ts[Kid(f) + 1]
    BY <1>1, <2>7, <2>8
  <2> QED
    BY <2>5, <2>6, <2>9 DEF Half1, Half2
<1>3. ASSUME NEW f \in Mixed(s, 0)
      PROVE  pr[SlotsFrom(s, f+1)] = ts[Missing(s, f)]
  <2>1. f \in InnerNode /\ s[Kid(f)] # s[Kid(f) + 1]
    BY <1>3 DEF Mixed
  <2>2. s[Kid(f)] \in 0..1 /\ s[Kid(f) + 1] \in 0..1
    BY <2>1, KidFacts DEF Flags
  <2>3. Computes(s, f) /\ f \notin D
    BY <1>2, <2>1, <2>2 DEF Computes
  <2> HIDE DEF D
  <2>4. /\ Half1(s, tv, pr, f, SlotsFrom(s, f+1)) = ts[Kid(f)]
        /\ Half2(s, tv, pr, f, SlotsFrom(s, f+1)) = ts[Kid(f) + 1]
    BY <1>1, <2>1, <2>3
  <2>5. CASE s[Kid(f)] = 0 /\ s[Kid(f) + 1] = 1
    BY <2>4, <2>5 DEF Half1, Missing
  <2>6. CASE s[Kid(f)] = 1 /\ s[Kid(f) + 1] = 0
    BY <2>4, <2>6 DEF Half2, Missing
  <2> QED
    BY <2>1, <2>2, <2>5, <2>6
<1>4. ASSUME NEW r \in Round, chall_2[r] = 0
      PROVE  tv[LeafNode[r]] = ts[LeafNode[r]]
  <2>1. LeafNode[r] \in Node /\ Known(LeafNode[r]) /\ s[LeafNode[r]] = 1
    BY <1>4, LeavesApart DEF Known, LeafFlags
  <2> QED
    BY <1>2, <2>1
<1> QED
  BY <1>3, <1>4 DEF Stored

\* Every slot in use belongs to a pair one node of which is computed.
LEMMA SlotOfMixed ==
  ASSUME NEW s, NEW k \in Nat, k < SlotsFrom(s, 0)
  PROVE  \E f \in Mixed(s, 0) : SlotsFrom(s, f+1) = k
<1> DEFINE S == {a \in Nat : SlotsFrom(s, a) <= k}
<1>1. 2*T-1 \in S
  <2>1. 2*T-1 \in Nat /\ \A f \in InnerNode : f < 2*T-1 /\ f \in Nat
    BY RoundAssumption DEF InnerNode, Node
  <2>2. Mixed(s, 2*T-1) = {}
    BY <2>1 DEF Mixed
  <2>3. SlotsFrom(s, 2*T-1) = 0
    BY <2>2, FS_EmptySet DEF SlotsFrom
  <2> QED
    BY <2>1, <2>3
<1>2. S \in SUBSET Nat /\ \A a \in S : SlotsFrom(s, a) <= k
  OBVIOUS
<1>3. \A a \in Nat : a \notin S => k < SlotsFrom(s, a)
  <2>1. \A a \in Nat : a \notin S => ~ (SlotsFrom(s, a) <= k)
    OBVIOUS
  <2>2. \A a : SlotsFrom(s, a) \in Nat
    BY MixedFinite
  <2> QED
    BY <2>1, <2>2
<1> HIDE DEF S
<1>4. PICK a \in S : \A b \in S : a <= b
  BY <1>1, <1>2, LeastOf
<1>5. a # 0
  BY <1>2, MixedFinite
<1> DEFINE f == a - 1
<1>6. f \in Nat /\ f + 1 = a /\ f < a
  BY <1>2, <1>5
<1> HIDE DEF f
<1>7. SlotsFrom(s, f+1) <= k /\ k < SlotsFrom(s, f)
  <2>1. f \notin S
    BY <1>2, <1>4, <1>6
  <2> QED
    BY <1>2, <1>3, <1>6, <2>1
<1>8. f \in InnerNode
  <2>1. SUFFICES ASSUME f \notin InnerNode
                 PROVE  FALSE
    OBVIOUS
  <2>2. \A g \in InnerNode : g \in Nat /\ g # f
    BY <2>1, KidFacts
  <2>3. \A g \in InnerNode : g >= f <=> g >= f+1
    BY <1>6, <2>2
  <2>4. Mixed(s, f) = Mixed(s, f+1)
    BY <2>3 DEF Mixed
  <2> QED
    BY <1>7, <2>4, MixedFinite DEF SlotsFrom
<1>9. s[Kid(f)] # s[Kid(f) + 1] /\ SlotsFrom(s, f) = SlotsFrom(s, f+1) + 1
  BY <1>7, <1>8, SlotsNext, MixedFinite
<1>10. SlotsFrom(s, f+1) = k
  BY <1>7, <1>9, MixedFinite
<1>11. f \in Mixed(s, 0)
  BY <1>6, <1>8, <1>9 DEF Mixed
<1> QED
  BY <1>10, <1>11

\* One proof only holds what was sent, and nothing behind it.
LEMMA OneProof ==
  ASSUME NEW s, NEW ts, NEW pr, NEW qr,
         Stored(s, ts, pr, 0), RestEmpty(s, pr, 0), Stored(s, ts, qr, 0), RestEmpty(s, qr, 0)
  PROVE  \A k \in Slot : pr[k] = qr[k]
<1> SUFFICES ASSUME NEW k \in Slot
             PROVE  pr[k] = qr[k]
  OBVIOUS
<1>1. k \in Nat /\ SlotsFrom(s, 0) \in Nat
  BY MixedFinite, RoundAssumption DEF Slot
<1>2. CASE k >= SlotsFrom(s, 0)
  BY <1>2 DEF RestEmpty
<1>3. CASE k < SlotsFrom(s, 0)
  <2>1. PICK f \in Mixed(s, 0) : SlotsFrom(s, f+1) = k
    BY <1>1, <1>3, SlotOfMixed
  <2> QED
    BY <2>1 DEF Stored
<1> QED
  BY <1>1, <1>2, <1>3

-----------------------------------------------------------------------------
(* The inductive invariant.                                                *)

STree  == merkle_tree["signer"]
VTree  == merkle_tree["verifier"]
SFlags == computed["signer"]
VFlags == computed["verifier"]
Cmt    == cmt_0["signer"]
At     == Place(mk_level, mk_start, mk_i)
Here   == Front(mk_level, mk_i)

AtCommitting == {"commitments", "tree_root", "challenge", "label_proof"}
AtVerifying  == {"recompute_root", "recomputed"}
AtSent       == {"transit"} \cup AtVerifying

Positions ==
  mk_level \in Level /\ mk_i \in -2 .. 2*T /\ mk_start \in 0 .. 2*T-1

MerkleShape ==
  /\ mk_at \in AtCommitting \cup {"tree_proof"} \cup AtSent
  /\ Positions
  /\ merkle_tree = [p \in Party |-> merkle_tree[p]]
  /\ Digests(STree) /\ Digests(VTree)
  /\ computed \in [Party -> Flags]
  /\ root = [p \in Party |-> root[p]]
  /\ proof = [k \in Slot |-> proof[k]]
  /\ published \in [Party -> Nat]
  /\ is_mtree_padding_ok \in BOOLEAN

\* tree_root runs, or has run.
Rooting ==
  mk_at = "tree_root" => At /\ Leaves(STree, Cmt) /\ HashedFrom(STree, Here)
Rooted ==
  mk_at \notin {"commitments", "tree_root"} =>
    Leaves(STree, Cmt) /\ HashedFrom(STree, 0) /\ root["signer"] = STree[0]

Challenged ==
  mk_at \in {"label_proof", "tree_proof"} \cup AtSent => chall_2 \in Challenges

\* No slot of the proof was written, or read.
Unsent ==
  /\ mk_at \in AtCommitting =>
       published["signer"] = 0 /\ \A k \in Slot : proof[k] = NoDigest
  /\ mk_at \notin AtVerifying => published["verifier"] = 0

\* tree_proof runs, or has run.
Making ==
  mk_at = "tree_proof" =>
    /\ At /\ LeafFlags(SFlags) /\ OrFrom(SFlags, Here) /\ Rising(SFlags, Here)
    /\ published["signer"] = SlotsFrom(SFlags, Here)
    /\ Stored(SFlags, STree, proof, Here) /\ RestEmpty(SFlags, proof, Here)
Made ==
  mk_at \in AtSent =>
    /\ LeafFlags(SFlags) /\ OrFrom(SFlags, 0) /\ SFlags[0] = 1
    /\ published["signer"] = SlotsFrom(SFlags, 0)
    /\ intact => Stored(SFlags, STree, proof, 0) /\ RestEmpty(SFlags, proof, 0)

\* recompute_root runs, or has run.
Recomputing ==
  mk_at = "recompute_root" =>
    /\ At /\ SameFlags(VFlags, SFlags, Here)
    /\ published["verifier"] = SlotsFrom(SFlags, Here)
    /\ Leaves(VTree, cmt_0["verifier"]) /\ Rehashed(SFlags, VTree, proof, Here)
Recomputed ==
  mk_at = "recomputed" =>
    /\ published["verifier"] = published["signer"]
    /\ RestEmpty(SFlags, proof, 0) => is_mtree_padding_ok
    /\ is_mtree_padding_ok => RestEmpty(SFlags, proof, 0)
    /\ Leaves(VTree, cmt_0["verifier"]) /\ Rehashed(SFlags, VTree, proof, 0)
    /\ root["verifier"] = VTree[0]

MerkleInvariant ==
  /\ MerkleShape /\ Rooting /\ Rooted /\ Challenged /\ Unsent /\ Making /\ Made
  /\ Recomputing /\ Recomputed

-----------------------------------------------------------------------------
(* One lemma per action.                                                   *)

LEMMA MerkleInitially ==
  ASSUME MerkleTreeInit
  PROVE  MerkleInvariant
<1> USE DEF MerkleTreeInit, MerkleInit
<1>1. Positions
  <2>1. 0 \in Level
    BY FirstNode, RoundAssumption DEF Level
  <2> QED
    BY <2>1, RoundAssumption DEF Positions
<1>2. computed \in [Party -> Flags]
  BY DEF Flags
<1>3. /\ merkle_tree = [p \in Party |-> merkle_tree[p]]
      /\ Digests(STree) /\ Digests(VTree)
  BY DEF Party, Digests, STree, VTree
<1>4. /\ root = [p \in Party |-> root[p]] /\ proof = [k \in Slot |-> proof[k]]
      /\ published \in [Party -> Nat] /\ is_mtree_padding_ok \in BOOLEAN
  OBVIOUS
<1>5. MerkleShape
  BY <1>1, <1>2, <1>3, <1>4 DEF MerkleShape, AtCommitting
<1>6. Unsent
  BY DEF Unsent, Party
<1>7. Rooting /\ Rooted /\ Challenged /\ Making /\ Made /\ Recomputing /\ Recomputed
  BY DEF Rooting, Rooted, Challenged, Making, Made, Recomputing, Recomputed,
         AtSent, AtVerifying
<1> QED
  BY <1>5, <1>6, <1>7 DEF MerkleInvariant

LEMMA AtPositions == At => Positions
<1> SUFFICES ASSUME At PROVE Positions
  OBVIOUS
<1>1. mk_level \in Level /\ mk_i \in Int /\ mk_i >= -2 /\ mk_i <= 2*T
      /\ mk_start \in 0 .. 2*T-1
  BY PlaceFacts DEF At
<1> QED
  BY <1>1, RoundAssumption DEF Positions

LEMMA LeavesFirst ==
  ASSUME FromTheLeaves
  PROVE  At' /\ Positions' /\ (\A f \in InnerNode : f < Here') /\ Here' \in Int
<1>1. At' /\ \A f \in InnerNode : f < Here'
  BY FromLeaves DEF FromTheLeaves, At, Here
<1>2. Here' \in Int
  BY <1>1, PlaceFacts DEF At, Here
<1> QED
  BY <1>1, <1>2, AtPositions, PTL

LEMMA PlaceNext ==
  ASSUME NEW k, Place(mk_level, mk_start, k), k < 0, NextLevelUp
  PROVE  /\ Positions'
         /\ mk_level > 1 => At' /\ Alike(Here', Front(mk_level, k))
         /\ ~ (mk_level > 1) => Front(mk_level, k) = 0
<1>1. mk_level \in 1 .. LOG2T /\ LOG2T \in Nat
  BY RoundAssumption DEF Place
<1>2. CASE mk_level > 1
  <2>1. At' /\ Alike(Here', Front(mk_level, k))
    BY <1>2, LevelAbove DEF At, Here, NextLevelUp
  <2>2. At' => Positions'
    BY AtPositions, PTL
  <2> QED
    BY <1>2, <2>1, <2>2
<1>3. CASE mk_level = 1
  <2>1. Front(mk_level, k) = 0
    BY <1>3, TreeDone
  <2>2. mk_start = 1
    BY <1>3, FirstNode DEF Place
  <2>3. mk_level' = 0 /\ mk_i' = -1 /\ mk_start' = 0
    BY <1>3, <2>2, FirstNode DEF NextLevelUp
  <2>4. 0 \in Level
    BY <1>1 DEF Level
  <2> QED
    BY <1>3, <2>1, <2>3, <2>4, RoundAssumption DEF Positions
<1> QED
  BY <1>1, <1>2, <1>3

LEMMA RootStep ==
  ASSUME NEW k, Place(mk_level, mk_start, k), k >= 0,
         NEW t, Digests(t), NEW cmt, Leaves(t, cmt),
         HashedFrom(t, Front(mk_level, k)),
         NEW u, u = Hashed(t, mk_start + k)
  PROVE  /\ Digests(u) /\ Leaves(u, cmt) /\ HashedFrom(u, Front(mk_level, k-2))
         /\ Place(mk_level, mk_start, k-2)
<1>1. PICK f \in InnerNode :
        /\ Front(mk_level, k) = f+1 /\ Front(mk_level, k-2) = f
        /\ Kid(f) = mk_start + k /\ Father(mk_level, mk_start + k) = f
        /\ Place(mk_level, mk_start, k-2)
  BY PairAt
<1>2. u = [t EXCEPT ![f] = Hash2(t[Kid(f)], t[Kid(f) + 1])]
  BY <1>1 DEF Hashed
<1>3. HashedFrom(t, f+1)
  BY <1>1
<1>4. Digests(u) /\ Leaves(u, cmt) /\ HashedFrom(u, f)
  BY <1>2, <1>3, HashKeeps
<1> QED
  BY <1>1, <1>4

\* Trees of which the signer's has changed.
LEMMA SignerTree ==
  ASSUME MerkleShape, NEW t, Digests(t),
         merkle_tree' = [merkle_tree EXCEPT !["signer"] = t]
  PROVE  /\ STree' = t /\ VTree' = VTree
         /\ merkle_tree' = [p \in Party |-> merkle_tree'[p]]
         /\ Digests(STree)' /\ Digests(VTree)'
<1>1. "signer" \in Party /\ "verifier" \in Party
  BY DEF Party
<1>2. merkle_tree = [p \in Party |-> merkle_tree[p]] /\ Digests(VTree)
  BY DEF MerkleShape
<1>3. STree' = t /\ VTree' = VTree /\ merkle_tree' = [p \in Party |-> merkle_tree'[p]]
  BY <1>1, <1>2 DEF STree, VTree
<1> QED
  BY <1>2, <1>3 DEF Digests

LEMMA RootPlacePreserves ==
  ASSUME MerkleInvariant, RootPlace
  PROVE  MerkleInvariant'
<1> USE DEF RootPlace, MerkleInvariant, mkResults, sharedVars
<1> DEFINE t == Placed(cmt_0["signer"])
<1>1. Digests(t) /\ Leaves(t, Cmt)
  BY PlacedLeaves DEF Cmt
<1>2. /\ STree' = t /\ merkle_tree' = [p \in Party |-> merkle_tree'[p]]
      /\ Digests(STree)' /\ Digests(VTree)'
  BY <1>1, SignerTree
<1>3. At' /\ Positions' /\ (\A f \in InnerNode : f < Here') /\ Here' \in Int
  BY LeavesFirst
<1> HIDE DEF t
<1>4. MerkleShape'
  BY <1>2, <1>3 DEF MerkleShape, AtCommitting
<1>5. Rooting'
  <2>1. Leaves(STree, Cmt)'
    BY <1>1, <1>2 DEF Cmt, Leaves
  <2>2. \A f \in InnerNode : ~ (f >= Here')
    BY <1>3, KidFacts
  <2> QED
    BY <1>3, <2>1, <2>2 DEF Rooting, HashedFrom
<1>6. Unsent'
  BY DEF Unsent, AtCommitting, AtVerifying
<1>7. Rooted' /\ Challenged' /\ Making' /\ Made' /\ Recomputing' /\ Recomputed'
  BY DEF Rooted, Challenged, Making, Made, Recomputing, Recomputed,
         AtSent, AtVerifying
<1> QED
  BY <1>4, <1>5, <1>6, <1>7

LEMMA RootTwoPairsPreserves ==
  ASSUME MerkleInvariant, RootTwoPairs
  PROVE  MerkleInvariant'
<1> USE DEF RootTwoPairs, MerkleInvariant, mkResults, sharedVars
<1> DEFINE t == Hashed(STree, mk_start + mk_i)
           u == Hashed(t, mk_start + (mk_i - 2))
<1>1. /\ Place(mk_level, mk_start, mk_i) /\ mk_i \in Int /\ mk_i >= 2
      /\ Digests(STree) /\ Leaves(STree, Cmt) /\ HashedFrom(STree, Front(mk_level, mk_i))
  BY PlaceFacts DEF Rooting, At, Here, MerkleShape
<1>2. /\ Digests(t) /\ Leaves(t, Cmt) /\ HashedFrom(t, Front(mk_level, mk_i - 2))
      /\ Place(mk_level, mk_start, mk_i - 2)
  BY <1>1, RootStep
<1>3. mk_i - 2 >= 0 /\ (mk_i - 2) - 2 = mk_i - 4
  BY <1>1
<1> HIDE DEF t
<1>4. /\ Digests(u) /\ Leaves(u, Cmt) /\ HashedFrom(u, Front(mk_level, mk_i - 4))
      /\ Place(mk_level, mk_start, mk_i - 4)
  BY <1>2, <1>3, RootStep
<1>5. merkle_tree' = [merkle_tree EXCEPT !["signer"] = u]
  BY DEF t, STree
<1> HIDE DEF u
<1>6. /\ STree' = u /\ merkle_tree' = [p \in Party |-> merkle_tree'[p]]
      /\ Digests(STree)' /\ Digests(VTree)'
  BY <1>4, <1>5, SignerTree
<1>7. At' /\ Here' = Front(mk_level, mk_i - 4)
  BY <1>4 DEF At, Here
<1>8. Positions'
  BY <1>7, AtPositions, PTL
<1>9. MerkleShape'
  BY <1>6, <1>8 DEF MerkleShape
<1>10. Rooting'
  BY <1>4, <1>6, <1>7 DEF Rooting, Leaves, HashedFrom, Cmt
<1>11. Unsent'
  BY DEF Unsent, AtCommitting, AtVerifying
<1>12. Rooted' /\ Challenged' /\ Making' /\ Made' /\ Recomputing' /\ Recomputed'
  BY DEF Rooted, Challenged, Making, Made, Recomputing, Recomputed,
         AtSent, AtVerifying
<1> QED
  BY <1>9, <1>10, <1>11, <1>12

LEMMA RootLastPairPreserves ==
  ASSUME MerkleInvariant, RootLastPair
  PROVE  MerkleInvariant'
<1> USE DEF MerkleInvariant
<1> DEFINE u == IF mk_i = 0 THEN Hashed(STree, mk_start) ELSE STree
           k == IF mk_i = 0 THEN mk_i - 2 ELSE mk_i
<1>1. /\ mk_at = "tree_root" /\ mk_i < 2 /\ NextLevelUp
      /\ merkle_tree' = [merkle_tree EXCEPT !["signer"] = u]
      /\ IF mk_level > 1 THEN UNCHANGED <<mk_at, root>>
         ELSE mk_at' = "challenge" /\ root' = [root EXCEPT !["signer"] = u[0]]
      /\ UNCHANGED <<computed, proof, published, is_mtree_padding_ok, chall_2,
                     round_seeds, cmt_0, intact>>
  BY DEF RootLastPair, STree, sharedVars
<1>2. /\ Place(mk_level, mk_start, mk_i) /\ mk_i \in Int /\ mk_i >= -2
      /\ Digests(STree) /\ Leaves(STree, Cmt) /\ HashedFrom(STree, Front(mk_level, mk_i))
  BY <1>1, PlaceFacts DEF Rooting, At, Here, MerkleShape
<1>3. /\ Digests(u) /\ Leaves(u, Cmt) /\ HashedFrom(u, Front(mk_level, k))
      /\ Place(mk_level, mk_start, k) /\ k < 0
  <2>1. CASE mk_i = 0
    <3>1. mk_start + mk_i = mk_start
      BY <1>2, <2>1, PlaceFacts
    <3>2. u = Hashed(STree, mk_start + mk_i) /\ k = mk_i - 2
      BY <2>1, <3>1
    <3> QED
      BY <1>2, <2>1, <3>2, RootStep
  <2>2. CASE mk_i # 0
    <3>1. mk_i < 0
      <4>1. mk_i # 1
        <5>1. PICK h \in 0 .. Inner(mk_level - 1) : mk_i = 2*h - 2
          BY <1>2 DEF Place
        <5> QED
          BY <5>1
      <4> QED
        BY <1>1, <1>2, <2>2, <4>1
    <3> QED
      BY <1>2, <2>2, <3>1
  <2> QED
    BY <2>1, <2>2
<1> HIDE DEF u, k
<1>4. /\ STree' = u /\ merkle_tree' = [p \in Party |-> merkle_tree'[p]]
      /\ Digests(STree)' /\ Digests(VTree)'
  BY <1>1, <1>3, SignerTree
<1>5. /\ Positions'
      /\ mk_level > 1 => At' /\ Alike(Here', Front(mk_level, k))
      /\ ~ (mk_level > 1) => Front(mk_level, k) = 0
  BY <1>1, <1>3, PlaceNext
<1>6. root' = [p \in Party |-> root'[p]] /\ mk_at' \in AtCommitting
  <2>1. root = [p \in Party |-> root[p]]
    BY DEF MerkleShape
  <2>2. CASE mk_level > 1
    BY <1>1, <2>1, <2>2 DEF AtCommitting
  <2>3. CASE ~ (mk_level > 1)
    <3>1. root' = [root EXCEPT !["signer"] = u[0]] /\ mk_at' = "challenge"
      BY <1>1, <2>3
    <3> QED
      BY <2>1, <3>1 DEF AtCommitting
  <2> QED
    BY <2>2, <2>3
<1>7. MerkleShape'
  BY <1>1, <1>4, <1>5, <1>6 DEF MerkleShape
<1>8. Leaves(STree, Cmt)'
  BY <1>1, <1>3, <1>4 DEF Leaves, Cmt
<1>9. Rooting' /\ Rooted'
  <2>1. CASE mk_level > 1
    <3>1. HashedFrom(STree, Here)'
      BY <1>3, <1>4, <1>5, <2>1, HashedAlike
    <3> QED
      BY <1>1, <1>5, <1>8, <2>1, <3>1 DEF Rooting, Rooted
  <2>2. CASE ~ (mk_level > 1)
    <3>1. HashedFrom(u, 0)
      BY <1>3, <1>5, <2>2
    <3>2. root'["signer"] = u[0]
      BY <1>1, <2>2 DEF MerkleShape, Party
    <3> QED
      BY <1>1, <1>4, <1>8, <2>2, <3>1, <3>2 DEF Rooting, Rooted
  <2> QED
    BY <2>1, <2>2
<1>10. Unsent'
  BY <1>1, <1>6 DEF Unsent, AtCommitting, AtVerifying
<1>11. Challenged' /\ Making' /\ Made' /\ Recomputing' /\ Recomputed'
  BY <1>1 DEF Challenged, Making, Made, Recomputing, Recomputed,
         AtSent, AtVerifying
<1> QED
  BY <1>7, <1>9, <1>10, <1>11

LEMMA ChallengePreservesMerkle ==
  ASSUME MerkleInvariant, MerkleChallenge, chall_2' \in Challenges,
         UNCHANGED <<cmt_0, intact>>
  PROVE  MerkleInvariant'
<1> USE DEF MerkleInvariant, MerkleChallenge, mkLoop, mkResults
<1>1. MerkleShape'
  BY DEF MerkleShape, AtCommitting, Positions, STree, VTree
<1>2. Rooted'
  BY DEF Rooted, STree, Cmt, Leaves
<1>3. Unsent'
  BY DEF Unsent, AtCommitting, AtVerifying
<1>4. Challenged'
  BY DEF Challenged
<1>5. Rooting' /\ Making' /\ Made' /\ Recomputing' /\ Recomputed'
  BY DEF Rooting, Making, Made, Recomputing, Recomputed, AtSent, AtVerifying
<1> QED
  BY <1>1, <1>2, <1>3, <1>4, <1>5

LEMMA LabelledLeaves ==
  /\ Labelled \in Flags /\ LeafFlags(Labelled)
  /\ \A f \in InnerNode : Labelled[f] = 0
<1>1. Labelled \in Flags
  BY DEF Labelled, Flags
<1>2. ASSUME NEW r \in Round
      PROVE  Labelled[LeafNode[r]] = IF chall_2[r] = 0 THEN 1 ELSE 0
  <2>1. LeafNode[r] \in Node
    BY LeavesApart
  <2>2. \A q \in Round : LeafNode[q] = LeafNode[r] => q = r
    BY LeafAssumption
  <2> QED
    BY <2>1, <2>2 DEF Labelled
<1>3. ASSUME NEW f \in InnerNode
      PROVE  Labelled[f] = 0
  <2>1. f \in Node /\ \A r \in Round : LeafNode[r] # f
    BY KidFacts, LeavesApart
  <2> QED
    BY <2>1 DEF Labelled
<1> QED
  BY <1>1, <1>2, <1>3 DEF LeafFlags

LEMMA SignerFlags ==
  ASSUME MerkleShape, NEW u \in Flags,
         computed' = [computed EXCEPT !["signer"] = u]
  PROVE  SFlags' = u /\ VFlags' = VFlags /\ computed' \in [Party -> Flags]
BY DEF MerkleShape, SFlags, VFlags, Party

LEMMA ProofLabelPreserves ==
  ASSUME MerkleInvariant, ProofLabel
  PROVE  MerkleInvariant'
<1> USE DEF MerkleInvariant
<1>1. /\ mk_at = "label_proof" /\ mk_at' = "tree_proof" /\ FromTheLeaves
      /\ computed' = [computed EXCEPT !["signer"] = Labelled]
      /\ UNCHANGED <<merkle_tree, root, proof, published, is_mtree_padding_ok,
                     chall_2, round_seeds, cmt_0, intact>>
  BY DEF ProofLabel, mkResults, sharedVars
<1> DEFINE u == Labelled
<1>2. u \in Flags /\ LeafFlags(u)
  BY LabelledLeaves
<1> HIDE DEF u
<1>3. SFlags' = u /\ computed' \in [Party -> Flags]
  BY <1>1, <1>2, SignerFlags DEF u
<1>4. At' /\ Positions' /\ (\A f \in InnerNode : f < Here') /\ Here' \in Int
  BY <1>1, LeavesFirst
<1>5. \A f \in InnerNode : ~ (f >= Here')
  BY <1>4, KidFacts
<1>6. LeafFlags(SFlags)'
  BY <1>1, <1>2, <1>3 DEF LeafFlags
<1>7. Rising(SFlags, Here)'
  <2>1. chall_2 \in Challenges
    BY <1>1 DEF Challenged
  <2>2. Rising(u, Here')
    BY <1>2, <1>4, <2>1, RisingFirst
  <2> QED
    BY <1>3, <2>2 DEF Rising
<1>8. Mixed(u, Here') = {} /\ OrFrom(u, Here')
  BY <1>5 DEF Mixed, OrFrom
<1>9. SlotsFrom(u, Here') = 0
  BY <1>8, FS_EmptySet DEF SlotsFrom
<1>10. published["signer"] = 0 /\ \A k \in Slot : proof[k] = NoDigest
  BY <1>1 DEF Unsent, AtCommitting
<1>11. Stored(u, STree', proof', Here') /\ RestEmpty(u, proof', Here')
  BY <1>1, <1>8, <1>10 DEF Stored, RestEmpty
<1>12. MerkleShape'
  BY <1>1, <1>3, <1>4 DEF MerkleShape, STree, VTree
<1>13. Making'
  BY <1>1, <1>3, <1>4, <1>6, <1>7, <1>8, <1>9, <1>10, <1>11 DEF Making
<1>14. Rooted' /\ Challenged' /\ Unsent'
  BY <1>1 DEF Rooted, STree, Cmt, Leaves, Challenged, Unsent,
              AtCommitting, AtVerifying
<1>15. Rooting' /\ Made' /\ Recomputing' /\ Recomputed'
  BY <1>1 DEF Rooting, Made, Recomputing, Recomputed, AtSent, AtVerifying
<1> QED
  BY <1>12, <1>13, <1>14, <1>15

\* What a pass of tree_proof does to the proof.
LEMMA StoredNext ==
  ASSUME NEW s, NEW u, NEW f \in InnerNode,
         \A g \in InnerNode : g >= f => /\ u[Kid(g)] = s[Kid(g)]
                                        /\ u[Kid(g) + 1] = s[Kid(g) + 1],
         NEW t, NEW pr, pr = [k \in Slot |-> pr[k]],
         Stored(s, t, pr, f+1), RestEmpty(s, pr, f+1),
         NEW qr, qr = IF s[Kid(f)] # s[Kid(f) + 1]
                      THEN [pr EXCEPT ![SlotsFrom(s, f+1)] = t[Missing(s, f)]]
                      ELSE pr
  PROVE  /\ qr = [k \in Slot |-> qr[k]]
         /\ Stored(u, t, qr, f) /\ RestEmpty(u, qr, f)
         /\ SlotsFrom(u, f) = SlotsFrom(s, f)
<1> DEFINE n == SlotsFrom(s, f+1)
<1>1. f \in Nat /\ f >= f /\ (\A g \in InnerNode : g \in Nat) /\ n \in Nat
  BY KidFacts, MixedFinite
<1>2. ASSUME NEW a \in Int, a >= f
      PROVE  Mixed(u, a) = Mixed(s, a)
  <2>1. \A g \in InnerNode : g >= a => g >= f
    BY <1>1, <1>2
  <2> QED
    BY <2>1 DEF Mixed
<1>3. \A a \in Int : a >= f => SlotsFrom(u, a) = SlotsFrom(s, a)
  BY <1>2 DEF SlotsFrom
<1>4. SlotsFrom(u, f) = SlotsFrom(s, f)
  BY <1>1, <1>3
<1>5. qr = [k \in Slot |-> qr[k]]
  OBVIOUS
<1>6. \A k \in Slot : k # n => qr[k] = pr[k]
  OBVIOUS
<1>7. \A k \in Slot : k \in Nat
  BY RoundAssumption DEF Slot
<1>8. Stored(u, t, qr, f)
  <2>1. SUFFICES ASSUME NEW g \in Mixed(u, f), SlotsFrom(u, g+1) \in Slot
                 PROVE  qr[SlotsFrom(u, g+1)] = t[Missing(u, g)]
    BY DEF Stored
  <2>2. /\ g \in Mixed(s, f) /\ g \in InnerNode /\ g >= f /\ g \in Nat
        /\ s[Kid(g)] # s[Kid(g) + 1]
    BY <1>1, <1>2, <2>1 DEF Mixed
  <2>3. SlotsFrom(u, g+1) = SlotsFrom(s, g+1) /\ Missing(u, g) = Missing(s, g)
    BY <1>1, <1>3, <2>2 DEF Missing
  <2>4. CASE g = f
    <3>1. qr[n] = t[Missing(s, f)]
      BY <2>1, <2>2, <2>3, <2>4
    <3> QED
      BY <2>3, <2>4, <3>1
  <2>5. CASE g # f
    <3>1. g \in Mixed(s, f+1) /\ f+1 \in Int
      BY <1>1, <2>2, <2>5 DEF Mixed
    <3>2. SlotsFrom(s, g+1) < n
      BY <3>1, SlotsGrow
    <3>3. SlotsFrom(s, g+1) # n
      BY <1>1, <3>2, MixedFinite
    <3>4. pr[SlotsFrom(s, g+1)] = t[Missing(s, g)]
      BY <2>1, <2>3, <3>1 DEF Stored
    <3> QED
      BY <1>6, <2>1, <2>3, <3>3, <3>4
  <2> QED
    BY <2>4, <2>5
<1>9. RestEmpty(u, qr, f)
  <2>1. SUFFICES ASSUME NEW k \in Slot, k >= SlotsFrom(u, f)
                 PROVE  qr[k] = NoDigest
    BY DEF RestEmpty
  <2>2. k >= n /\ (s[Kid(f)] # s[Kid(f) + 1] => k # n)
    BY <1>1, <1>4, <1>7, <2>1, SlotsNext
  <2>3. pr[k] = NoDigest
    BY <2>2 DEF RestEmpty
  <2> QED
    BY <1>6, <2>2, <2>3
<1> QED
  BY <1>4, <1>5, <1>8, <1>9

LEMMA ProofPairPreserves ==
  ASSUME MerkleInvariant, ProofPair
  PROVE  MerkleInvariant'
<1> USE DEF MerkleInvariant
<1> DEFINE s == SFlags
           t == STree
           m == mk_start + mk_i
<1>1. PICK f \in InnerNode :
        /\ Here = f+1 /\ Front(mk_level, mk_i - 2) = f
        /\ Kid(f) = m /\ Father(mk_level, m) = f
        /\ Place(mk_level, mk_start, mk_i - 2)
  BY PairAt DEF Making, ProofPair, At, Here
<1>2. SIBLING(m) = m + 1
  BY <1>1, KidFacts
<1>3. s \in Flags /\ published \in [Party -> Nat] /\ proof = [k \in Slot |-> proof[k]]
      /\ "signer" \in Party
  BY DEF MerkleShape, SFlags, Party
<1>4. Needed(s, m) <=> Computes(s, f)
  BY <1>1, <1>2 DEF Needed, Computes
<1> DEFINE u == [s EXCEPT ![f] = IF Computes(s, f) THEN 1 ELSE 0]
           n == published["signer"]
           qr == IF s[m] # s[m + 1] THEN [proof EXCEPT ![n] = t[Missing(s, f)]]
                                    ELSE proof
<1>5. /\ mk_at = "tree_proof" /\ mk_i' = mk_i - 2
      /\ UNCHANGED <<mk_at, mk_level, mk_start, merkle_tree, root,
                     is_mtree_padding_ok, chall_2, round_seeds, cmt_0, intact>>
  BY DEF ProofPair, sharedVars
<1>6. computed' = [computed EXCEPT !["signer"] = u]
  BY <1>1, <1>4 DEF ProofPair, SFlags
<1>7. proof' = qr
  <2>1. Missing(s, f) = IF s[m] = 0 THEN m ELSE SIBLING(m)
    BY <1>1, <1>2 DEF Missing
  <2>2. CASE s[m] # s[m + 1]
    BY <1>2, <2>1, <2>2 DEF ProofPair, SFlags, STree
  <2>3. CASE s[m] = s[m + 1]
    BY <1>2, <2>3 DEF ProofPair, SFlags
  <2> QED
    BY <2>2, <2>3
<1>8. published' = IF s[m] # s[m + 1] THEN [published EXCEPT !["signer"] = n + 1]
                                      ELSE published
  BY <1>2 DEF ProofPair, SFlags
<1>9. /\ LeafFlags(s) /\ OrFrom(s, f+1) /\ Rising(s, f+1)
      /\ n = SlotsFrom(s, f+1)
      /\ Stored(s, t, proof, f+1) /\ RestEmpty(s, proof, f+1)
  BY <1>1, <1>5 DEF Making
<1>10. /\ u \in Flags /\ LeafFlags(u) /\ OrFrom(u, f)
       /\ \A g \in InnerNode : g >= f => /\ u[Kid(g)] = s[Kid(g)]
                                         /\ u[Kid(g) + 1] = s[Kid(g) + 1]
  BY <1>3, <1>9, FlagKeeps
<1>11. Rising(u, f)
  BY <1>3, <1>9, RisingNext
<1>12. qr = IF s[Kid(f)] # s[Kid(f) + 1]
            THEN [proof EXCEPT ![SlotsFrom(s, f+1)] = t[Missing(s, f)]] ELSE proof
  BY <1>1, <1>9
<1> HIDE DEF s, t, u, qr
<1>13. /\ qr = [k \in Slot |-> qr[k]] /\ Stored(u, t, qr, f) /\ RestEmpty(u, qr, f)
       /\ SlotsFrom(u, f) = SlotsFrom(s, f)
  BY <1>3, <1>9, <1>10, <1>12, StoredNext
<1>14. published'["signer"] = SlotsFrom(u, f) /\ published' \in [Party -> Nat]
       /\ published'["verifier"] = published["verifier"]
  BY <1>1, <1>3, <1>8, <1>9, <1>13, SlotsNext
<1>15. SFlags' = u /\ computed' \in [Party -> Flags]
  BY <1>6, <1>10, SignerFlags
<1>16. At' /\ Here' = f
  BY <1>1, <1>5 DEF At, Here
<1>17. Positions'
  BY <1>16, AtPositions, PTL
<1>18. STree' = t /\ VTree' = VTree
  BY <1>5 DEF STree, VTree, t
<1>19. MerkleShape'
  BY <1>5, <1>7, <1>13, <1>14, <1>15, <1>17, <1>18 DEF MerkleShape, t
<1>20. LeafFlags(SFlags)'
  BY <1>5, <1>10, <1>15 DEF LeafFlags
<1>21. Making'
  BY <1>7, <1>10, <1>11, <1>13, <1>14, <1>15, <1>16, <1>18, <1>20
     DEF Making, Rising, OrFrom
<1>22. Rooted' /\ Challenged' /\ Unsent'
  BY <1>5, <1>14, <1>18 DEF Rooted, t, Cmt, Leaves, Challenged, Unsent,
              AtCommitting, AtVerifying
<1>23. Rooting' /\ Made' /\ Recomputing' /\ Recomputed'
  BY <1>5 DEF Rooting, Made, Recomputing, Recomputed, AtSent, AtVerifying
<1> QED
  BY <1>19, <1>21, <1>22, <1>23

LEMMA ProofLevelPreserves ==
  ASSUME MerkleInvariant, ProofLevel
  PROVE  MerkleInvariant'
<1> USE DEF MerkleInvariant
<1> DEFINE s == SFlags
           t == STree
<1>1. /\ mk_at = "tree_proof" /\ mk_i < 0 /\ NextLevelUp
      /\ mk_at' = IF mk_level > 1 THEN "tree_proof" ELSE "transit"
      /\ UNCHANGED <<merkle_tree, computed, root, proof, published,
                     is_mtree_padding_ok, chall_2, round_seeds, cmt_0, intact>>
  BY DEF ProofLevel, mkResults, sharedVars
<1>2. /\ At /\ LeafFlags(s) /\ OrFrom(s, Here) /\ Rising(s, Here)
      /\ published["signer"] = SlotsFrom(s, Here)
      /\ Stored(s, t, proof, Here) /\ RestEmpty(s, proof, Here)
  BY <1>1 DEF Making
<1>3. /\ Positions'
      /\ mk_level > 1 => At' /\ Alike(Here', Here)
      /\ ~ (mk_level > 1) => Here = 0
  BY <1>1, <1>2, PlaceNext DEF At, Here
<1>4. SFlags' = s /\ STree' = t /\ LeafFlags(SFlags)'
  BY <1>1, <1>2 DEF SFlags, STree, LeafFlags
<1>5. MerkleShape'
  BY <1>1, <1>3 DEF MerkleShape, AtSent, STree, VTree
<1>6. Making' /\ Made'
  <2>1. CASE mk_level > 1
    <3>1. Mixed(s, Here') = Mixed(s, Here) /\ SlotsFrom(s, Here') = SlotsFrom(s, Here)
          /\ OrFrom(s, Here')
      BY <1>2, <1>3, <2>1, FlagsAlike
    <3>2. Rising(s, Here')
      BY <1>2, <1>3, <2>1, RisingAlike
    <3>3. Stored(s, t, proof, Here') /\ RestEmpty(s, proof, Here')
      BY <1>2, <3>1 DEF Stored, RestEmpty
    <3> QED
      BY <1>1, <1>2, <1>3, <1>4, <2>1, <3>1, <3>2, <3>3
         DEF Making, Made, Rising, OrFrom, AtSent, AtVerifying
  <2>2. CASE ~ (mk_level > 1)
    <3>1. s[0] = 1
      BY <1>2, <1>3, <2>2, RisenToRoot
    <3>2. /\ OrFrom(s, 0) /\ published["signer"] = SlotsFrom(s, 0)
          /\ Stored(s, t, proof, 0) /\ RestEmpty(s, proof, 0)
      BY <1>2, <1>3, <2>2
    <3> HIDE DEF s, t
    <3>3. SFlags'[0] = 1 /\ OrFrom(SFlags', 0)
          /\ published'["signer"] = SlotsFrom(SFlags', 0)
          /\ Stored(SFlags', STree', proof', 0) /\ RestEmpty(SFlags', proof', 0)
      BY <1>1, <1>4, <3>1, <3>2
    <3> QED
      BY <1>1, <1>4, <2>2, <3>3 DEF Making, Made, OrFrom
  <2> QED
    BY <2>1, <2>2
<1>7. Rooted' /\ Challenged' /\ Unsent'
  BY <1>1 DEF Rooted, STree, Cmt, Leaves, Challenged, Unsent, AtSent,
              AtCommitting, AtVerifying
<1>8. Rooting' /\ Recomputing' /\ Recomputed'
  BY <1>1 DEF Rooting, Recomputing, Recomputed
<1> QED
  BY <1>5, <1>6, <1>7, <1>8

LEMMA DamagePreservesMerkle ==
  ASSUME MerkleInvariant, ProofDamaged
  PROVE  MerkleInvariant'
<1> USE DEF MerkleInvariant, mkLoop
<1>1. /\ mk_at = "transit" /\ intact' = FALSE
      /\ \E k \in Slot, d \in AlteredDigest : proof' = [proof EXCEPT ![k] = d]
      /\ UNCHANGED <<mk_at, mk_level, mk_i, mk_start, merkle_tree, computed, root,
                     published, is_mtree_padding_ok, chall_2, cmt_0>>
  BY DEF ProofDamaged
<1>2. proof' = [k \in Slot |-> proof'[k]]
  BY <1>1 DEF MerkleShape
<1>3. MerkleShape'
  BY <1>1, <1>2 DEF MerkleShape, Positions, STree, VTree
<1>4. Made'
  BY <1>1 DEF Made, LeafFlags, OrFrom, SFlags
<1>5. Rooted' /\ Challenged' /\ Unsent'
  BY <1>1 DEF Rooted, STree, Cmt, Leaves, Challenged, Unsent, AtCommitting
<1>6. Rooting' /\ Making' /\ Recomputing' /\ Recomputed'
  BY <1>1 DEF Rooting, Making, Recomputing, Recomputed
<1> QED
  BY <1>3, <1>4, <1>5, <1>6

LEMMA OutsidePreservesMerkle ==
  ASSUME MerkleInvariant, OutsideMerkle
  PROVE  MerkleInvariant'
<1> USE DEF MerkleInvariant
<1>1. /\ mk_at \in {"commitments", "transit"}
      /\ mk_at = "transit" => Cmt' = Cmt
      /\ intact' => intact
      /\ UNCHANGED <<mk_at, mk_level, mk_i, mk_start, merkle_tree, computed, root,
                     proof, published, is_mtree_padding_ok, chall_2>>
  <2>1. intact' => intact
    BY Zenon DEF OutsideMerkle
  <2> QED
    BY <2>1 DEF OutsideMerkle, mkVars, mkLoop, mkResults, Cmt
<1>2. MerkleShape'
  BY <1>1 DEF MerkleShape, Positions, STree, VTree
<1>3. Made'
  BY <1>1 DEF Made, LeafFlags, OrFrom, SFlags, STree
<1>4. Rooted' /\ Challenged' /\ Unsent'
  BY <1>1 DEF Rooted, STree, Leaves, Challenged, Unsent, AtCommitting, AtVerifying
<1>5. Rooting' /\ Making' /\ Recomputing' /\ Recomputed'
  BY <1>1 DEF Rooting, Making, Recomputing, Recomputed
<1> QED
  BY <1>2, <1>3, <1>4, <1>5

\* Trees of which the verifier's has changed.
LEMMA VerifierState ==
  ASSUME MerkleShape, NEW t, Digests(t), NEW v \in Flags,
         merkle_tree' = [merkle_tree EXCEPT !["verifier"] = t],
         computed' = [computed EXCEPT !["verifier"] = v]
  PROVE  /\ VTree' = t /\ STree' = STree /\ VFlags' = v /\ SFlags' = SFlags
         /\ merkle_tree' = [p \in Party |-> merkle_tree'[p]]
         /\ Digests(STree)' /\ Digests(VTree)'
         /\ computed' \in [Party -> Flags]
<1>1. "signer" \in Party /\ "verifier" \in Party
  BY DEF Party
<1>2. merkle_tree = [p \in Party |-> merkle_tree[p]] /\ Digests(STree)
      /\ computed \in [Party -> Flags]
  BY DEF MerkleShape
<1>3. VTree' = t /\ STree' = STree /\ merkle_tree' = [p \in Party |-> merkle_tree'[p]]
  BY <1>1, <1>2 DEF STree, VTree
<1>4. VFlags' = v /\ SFlags' = SFlags /\ computed' \in [Party -> Flags]
  BY <1>1, <1>2 DEF SFlags, VFlags
<1> QED
  BY <1>2, <1>3, <1>4 DEF Digests

LEMMA RecomputePlacePreserves ==
  ASSUME MerkleInvariant, RecomputePlace
  PROVE  MerkleInvariant'
<1> USE DEF MerkleInvariant
<1> DEFINE s == SFlags
           v == Labelled
           t == Placed(cmt_0["verifier"])
<1>1. /\ mk_at = "transit" /\ mk_at' = "recompute_root" /\ FromTheLeaves
      /\ merkle_tree' = [merkle_tree EXCEPT !["verifier"] = t]
      /\ computed' = [computed EXCEPT !["verifier"] = v]
      /\ UNCHANGED <<root, proof, published, is_mtree_padding_ok, chall_2,
                     round_seeds, cmt_0, intact>>
  BY DEF RecomputePlace, mkResults, sharedVars
<1>2. /\ v \in Flags /\ LeafFlags(v) /\ (\A f \in InnerNode : v[f] = 0)
      /\ Digests(t) /\ Leaves(t, cmt_0["verifier"])
  BY LabelledLeaves, PlacedLeaves
<1>3. At' /\ Positions' /\ (\A f \in InnerNode : f < Here') /\ Here' \in Int
  BY <1>1, LeavesFirst
<1>4. \A f \in InnerNode : ~ (f >= Here')
  BY <1>3, KidFacts
<1>5. /\ LeafFlags(s) /\ OrFrom(s, 0) /\ s[0] = 1
      /\ published["signer"] = SlotsFrom(s, 0) /\ published["verifier"] = 0
      /\ intact => Stored(s, STree, proof, 0) /\ RestEmpty(s, proof, 0)
      /\ Leaves(STree, Cmt)
  BY <1>1 DEF Made, Unsent, Rooted, AtSent, AtVerifying
<1>6. Rehashed(s, t, proof, Here')
  BY <1>4 DEF Rehashed
<1>7. Mixed(s, Here') = {}
  BY <1>4 DEF Mixed
<1>8. SlotsFrom(s, Here') = 0
  BY <1>7, FS_EmptySet DEF SlotsFrom
<1> HIDE DEF s, v, t
<1>9. /\ VTree' = t /\ STree' = STree /\ VFlags' = v /\ SFlags' = SFlags
      /\ merkle_tree' = [p \in Party |-> merkle_tree'[p]]
      /\ Digests(STree)' /\ Digests(VTree)'
      /\ computed' \in [Party -> Flags]
  BY <1>1, <1>2, VerifierState
<1>10. MerkleShape'
  BY <1>1, <1>3, <1>9 DEF MerkleShape, AtSent, AtVerifying
<1>11. Made'
  BY <1>1, <1>9 DEF Made, LeafFlags, OrFrom, AtSent
<1>12. SameFlags(v, s, Here')
  BY <1>2, <1>4 DEF SameFlags
<1>13. SameFlags(VFlags, SFlags, Here)'
  BY <1>1, <1>9, <1>12 DEF SameFlags, LeafFlags, s
<1>14. Leaves(VTree, cmt_0["verifier"])' /\ Rehashed(SFlags, VTree, proof, Here)'
  BY <1>1, <1>2, <1>6, <1>9 DEF Leaves, s
<1>15. Recomputing'
  BY <1>1, <1>3, <1>5, <1>8, <1>9, <1>13, <1>14 DEF Recomputing, s
<1>16. Rooted' /\ Challenged' /\ Unsent'
  BY <1>1, <1>9 DEF Rooted, Cmt, Leaves, Challenged, Unsent, AtSent,
              AtCommitting, AtVerifying
<1>17. Rooting' /\ Making' /\ Recomputed'
  BY <1>1 DEF Rooting, Making, Recomputed
<1> QED
  BY <1>10, <1>11, <1>15, <1>16, <1>17

\* Flags, digests and slots of recompute_root when the fathers from a on are done.
Halfway(v, tv, used, a) ==
  /\ SameFlags(v, SFlags, a) /\ Digests(tv) /\ used = SlotsFrom(SFlags, a)
  /\ Leaves(tv, cmt_0["verifier"]) /\ Rehashed(SFlags, tv, proof, a)

\* One pair, which is passed over when neither node is computed.
LEMMA PairDone ==
  ASSUME MerkleInvariant, mk_at = "recompute_root",
         NEW f \in InnerNode, NEW v, NEW tv, NEW used, Halfway(v, tv, used, f+1),
         NEW u, u = IF Computes(v, f) THEN [v EXCEPT ![f] = 1] ELSE v,
         NEW tu, tu = IF Computes(v, f)
                      THEN [tv EXCEPT ![f] = Hash2(Half1(v, tv, proof, f, used),
                                                   Half2(v, tv, proof, f, used))]
                      ELSE tv
  PROVE  /\ Halfway(u, tu, IF v[Kid(f)] # v[Kid(f) + 1] THEN used + 1 ELSE used, f)
         /\ Computes(v, f) = Computes(SFlags, f)
         /\ v \in Flags /\ used \in Nat
         /\ SameBut(u, v, f) /\ SameBut(tu, tv, f)
<1> DEFINE s == SFlags
           next == IF v[Kid(f)] # v[Kid(f) + 1] THEN used + 1 ELSE used
<1>1. s \in Flags /\ LeafFlags(s) /\ OrFrom(s, 0)
  <2>1. s \in Flags
    BY DEF MerkleInvariant, MerkleShape, SFlags, Party
  <2> QED
    BY <2>1 DEF MerkleInvariant, Made, AtSent, AtVerifying
<1>2. /\ SameFlags(v, s, f+1) /\ Digests(tv) /\ used = SlotsFrom(s, f+1)
      /\ Leaves(tv, cmt_0["verifier"]) /\ Rehashed(s, tv, proof, f+1)
  BY DEF Halfway
<1>3. f \in Node /\ f \in Nat /\ f >= f
  BY KidFacts
<1>4. v[Kid(f)] = s[Kid(f)] /\ v[Kid(f) + 1] = s[Kid(f) + 1]
  BY <1>1, <1>2, <1>3, KidFlags
<1>5. next = SlotsFrom(s, f) /\ used \in Nat
  BY <1>2, <1>4, SlotsNext, MixedFinite
<1> HIDE DEF s
<1>6. SameFlags(u, s, f) /\ Computes(v, f) = Computes(s, f)
      /\ SameBut(u, v, f)
  BY <1>1, <1>2, VerifierFlags DEF SameBut
<1>7. Digests(tu) /\ SameBut(tu, tv, f)
  BY <1>2, <1>3 DEF Digests, SameBut
<1>8. Leaves(tu, cmt_0["verifier"]) /\ Rehashed(s, tu, proof, f)
  <2>1. Computes(v, f) =>
          tu[f] = Hash2(Half1(v, tv, proof, f, used), Half2(v, tv, proof, f, used))
    BY <1>2, <1>3 DEF Digests
  <2>2. Leaves(tu, cmt_0["verifier"])
    <3>1. \A r \in Round : LeafNode[r] \in Node /\ LeafNode[r] # f
      BY LeavesApart
    <3> QED
      BY <1>2, <1>7, <3>1 DEF Leaves, SameBut
  <2> QED
    BY <1>1, <1>2, <1>7, <2>1, <2>2, RehashNext
<1>9. Halfway(u, tu, next, f)
  BY <1>5, <1>6, <1>7, <1>8 DEF Halfway, s
<1> QED
  BY <1>2, <1>5, <1>6, <1>7, <1>9 DEF SameFlags, s

\* What a step that stays in the loop has to leave behind.
LEMMA RecomputeStep ==
  ASSUME MerkleInvariant, mk_at = "recompute_root",
         NEW k, Place(mk_level, mk_start, k), mk_i' = k,
         NEW v, NEW tv, NEW used \in Nat, Halfway(v, tv, used, Front(mk_level, k)),
         merkle_tree' = [merkle_tree EXCEPT !["verifier"] = tv],
         computed' = [computed EXCEPT !["verifier"] = v],
         published' = [published EXCEPT !["verifier"] = used],
         UNCHANGED <<mk_at, mk_level, mk_start, root, proof, is_mtree_padding_ok,
                     sharedVars>>
  PROVE  MerkleInvariant'
<1> USE DEF MerkleInvariant, sharedVars
<1>1. Digests(tv) /\ v \in Flags /\ used = SlotsFrom(SFlags, Front(mk_level, k))
      /\ SameFlags(v, SFlags, Front(mk_level, k))
  BY DEF Halfway, SameFlags
<1>2. /\ VTree' = tv /\ STree' = STree /\ VFlags' = v /\ SFlags' = SFlags
      /\ merkle_tree' = [p \in Party |-> merkle_tree'[p]]
      /\ Digests(STree)' /\ Digests(VTree)'
      /\ computed' \in [Party -> Flags]
  BY <1>1, VerifierState
<1>3. At' /\ Here' = Front(mk_level, k)
  BY DEF At, Here
<1>4. Positions'
  BY <1>3, AtPositions, PTL
<1>5. published' \in [Party -> Nat] /\ published'["verifier"] = used
      /\ published'["signer"] = published["signer"]
  BY DEF MerkleShape, Party
<1>6. MerkleShape'
  BY <1>2, <1>4, <1>5 DEF MerkleShape
<1>7. Made'
  BY <1>2, <1>5 DEF Made, LeafFlags, OrFrom
<1>8. SameFlags(VFlags, SFlags, Here)'
  BY <1>1, <1>2, <1>3 DEF SameFlags, LeafFlags
<1>9. Leaves(VTree, cmt_0["verifier"])' /\ Rehashed(SFlags, VTree, proof, Here)'
  BY <1>2, <1>3 DEF Halfway, Leaves
<1>10. Recomputing'
  BY <1>1, <1>2, <1>3, <1>5, <1>8, <1>9 DEF Recomputing
<1>11. Rooted' /\ Challenged' /\ Unsent'
  BY <1>2 DEF Rooted, Cmt, Leaves, Challenged, Unsent, AtSent, AtCommitting,
              AtVerifying
<1>12. Rooting' /\ Making' /\ Recomputed'
  BY DEF Rooting, Making, Recomputed
<1> QED
  BY <1>6, <1>7, <1>10, <1>11, <1>12

LEMMA RecomputeOnePairPreserves ==
  ASSUME MerkleInvariant, RecomputeOnePair
  PROVE  MerkleInvariant'
<1> DEFINE n    == mk_start + mk_i
           used == published["verifier"]
           st   == Input(n, used)
<1>1. At /\ Halfway(VFlags, VTree, used, Here) /\ mk_i >= 0 /\ mk_at = "recompute_root"
  BY DEF MerkleInvariant, Recomputing, RecomputeOnePair, Halfway, MerkleShape
<1>2. PICK f \in InnerNode :
        /\ Here = f+1 /\ Front(mk_level, mk_i - 2) = f
        /\ Kid(f) = n /\ Father(mk_level, n) = f
        /\ Place(mk_level, mk_start, mk_i - 2)
  BY <1>1, PairAt DEF At, Here
<1> DEFINE v  == VFlags
           tv == VTree
           u  == IF Computes(v, f) THEN [v EXCEPT ![f] = 1] ELSE v
           tu == IF Computes(v, f)
                 THEN [tv EXCEPT ![f] = Hash2(Half1(v, tv, proof, f, used),
                                              Half2(v, tv, proof, f, used))]
                 ELSE tv
           next == IF v[Kid(f)] # v[Kid(f) + 1] THEN used + 1 ELSE used
<1>3. Halfway(u, tu, next, f) /\ v \in Flags /\ used \in Nat
  BY <1>1, <1>2, PairDone
<1>4. SIBLING(n) = n + 1
  BY <1>2, KidFacts
<1>5. Needed(VFlags, n) <=> Computes(v, f)
  BY <1>2, <1>4 DEF Needed, Computes
<1>6. /\ UNCHANGED <<mk_at, mk_level, mk_start, root, proof, is_mtree_padding_ok,
                     sharedVars>>
      /\ mk_i' = mk_i - 2
  BY DEF RecomputeOnePair
<1>7. /\ merkle_tree = [p \in Party |-> merkle_tree[p]]
      /\ computed = [p \in Party |-> computed[p]]
      /\ published = [p \in Party |-> published[p]]
  BY DEF MerkleInvariant, MerkleShape
<1>8. /\ merkle_tree' = [merkle_tree EXCEPT !["verifier"] = tu]
      /\ computed' = [computed EXCEPT !["verifier"] = u]
      /\ published' = [published EXCEPT !["verifier"] = next]
  <2>1. CASE Computes(v, f)
    <3>1. /\ st.input[1] = Half1(v, tv, proof, f, used)
          /\ st.input[2] = Half2(v, tv, proof, f, used) /\ st.used = next
      BY <1>2, <1>3, <2>1, InputIs DEF VFlags, VTree
    <3>2. /\ merkle_tree' = [merkle_tree EXCEPT
               !["verifier"][f] = Hash2(st.input[1], st.input[2])]
          /\ computed' = [computed EXCEPT !["verifier"][f] = 1]
          /\ published' = [published EXCEPT !["verifier"] = st.used]
      BY <1>2, <1>5, <2>1 DEF RecomputeOnePair, VFlags
    <3> QED
      BY <2>1, <3>1, <3>2 DEF VFlags, VTree
  <2>2. CASE ~ Computes(v, f)
    <3>1. UNCHANGED <<merkle_tree, computed, published>>
      BY <1>5, <2>2 DEF RecomputeOnePair, VFlags
    <3>2. next = used /\ u = v /\ tu = tv
      <4>1. Kid(f) \in Node /\ Kid(f) + 1 \in Node
        BY KidFacts
      <4>2. v[Kid(f)] \in 0..1 /\ v[Kid(f) + 1] \in 0..1
        BY <1>3, <4>1 DEF Flags
      <4> QED
        BY <2>2, <4>2 DEF Computes
    <3> QED
      BY <1>7, <3>1, <3>2 DEF VFlags, VTree
  <2> QED
    BY <2>1, <2>2
<1>9. next \in Nat
  BY <1>3
<1> HIDE DEF u, tu, next
<1>10. Halfway(u, tu, next, Front(mk_level, mk_i - 2))
  BY <1>2, <1>3
<1> QED
  BY <1>1, <1>2, <1>6, <1>8, <1>9, <1>10, RecomputeStep

LEMMA RecomputeTwoPairsPreserves ==
  ASSUME MerkleInvariant, RecomputeTwoPairs
  PROVE  MerkleInvariant'
<1> DEFINE n1   == mk_start + mk_i
           n2   == mk_start + (mk_i - 2)
           v    == VFlags
           tv   == VTree
           used == published["verifier"]
           st1  == Input(n1, used)
           st2  == Input(n2, st1.used)
<1>1. /\ At /\ Halfway(v, tv, used, Here) /\ mk_at = "recompute_root"
      /\ mk_i >= 2 /\ mk_i >= 0 /\ mk_i - 2 >= 0 /\ mk_i \in Int /\ mk_start \in Nat
      /\ (mk_i - 2) - 2 = mk_i - 4
  <2>1. mk_i \in Int /\ mk_i >= 2
    BY DEF MerkleInvariant, MerkleShape, Positions, RecomputeTwoPairs, BothNeeded
  <2>2. mk_start \in Nat
    BY RoundAssumption DEF MerkleInvariant, MerkleShape, Positions
  <2>3. At /\ Halfway(v, tv, used, Here) /\ mk_at = "recompute_root"
    BY DEF MerkleInvariant, Recomputing, RecomputeTwoPairs, Halfway, MerkleShape
  <2> QED
    BY <2>1, <2>2, <2>3
<1>2. PICK f \in InnerNode :
        /\ Here = f+1 /\ Front(mk_level, mk_i - 2) = f
        /\ Kid(f) = n1 /\ Father(mk_level, n1) = f /\ f < mk_start
        /\ Place(mk_level, mk_start, mk_i - 2)
  BY <1>1, PairAt DEF At, Here
<1>3. PICK g \in InnerNode :
        /\ f = g+1 /\ Front(mk_level, mk_i - 4) = g
        /\ Kid(g) = n2 /\ Father(mk_level, n2) = g
        /\ Place(mk_level, mk_start, mk_i - 4)
  BY <1>1, <1>2, PairAt
<1> DEFINE u   == [v EXCEPT ![f] = 1]
           tu  == [tv EXCEPT ![f] = Hash2(Half1(v, tv, proof, f, used),
                                          Half2(v, tv, proof, f, used))]
           mid == IF v[Kid(f)] # v[Kid(f) + 1] THEN used + 1 ELSE used
           w   == [u EXCEPT ![g] = 1]
           tw  == [tu EXCEPT ![g] = Hash2(Half1(u, tu, proof, g, mid),
                                          Half2(u, tu, proof, g, mid))]
           end == IF u[Kid(g)] # u[Kid(g) + 1] THEN mid + 1 ELSE mid
<1>4. SIBLING(n1) = n1 + 1 /\ SIBLING(n2) = n2 + 1
      /\ n1 \in Node /\ n2 \in Node /\ n2 + 1 \in Node
      /\ f \in Nat /\ g \in Nat /\ f \in Node /\ g \in Node
  BY <1>2, <1>3, KidFacts
<1>5. Computes(v, f) /\ Computes(v, g)
  BY <1>2, <1>3, <1>4 DEF Computes, Needed, RecomputeTwoPairs, BothNeeded, VFlags
<1>6. Halfway(u, tu, mid, f) /\ SameBut(u, v, f) /\ SameBut(tu, tv, f)
      /\ v \in Flags /\ used \in Nat
  BY <1>1, <1>2, <1>5, PairDone
<1>7. n2 # f /\ n2 + 1 # f
  BY <1>1, <1>2, <1>4
<1>8. u[n2] = v[n2] /\ u[n2+1] = v[n2+1] /\ tu[n2] = tv[n2] /\ tu[n2+1] = tv[n2+1]
  BY <1>4, <1>6, <1>7 DEF SameBut
<1>9. st1.used = mid /\ Hash2(st1.input[1], st1.input[2]) = tu[f]
  <2>1. /\ st1.input[1] = Half1(v, tv, proof, f, used)
        /\ st1.input[2] = Half2(v, tv, proof, f, used) /\ st1.used = mid
    BY <1>2, <1>5, <1>6, InputIs DEF VFlags, VTree
  <2>2. tu[f] = Hash2(Half1(v, tv, proof, f, used), Half2(v, tv, proof, f, used))
    BY <1>1, <1>4 DEF Halfway, Digests
  <2> QED
    BY <2>1, <2>2
<1>10. mid \in Nat
  BY <1>6
<1>11. st2.used = end /\ Hash2(st2.input[1], st2.input[2])
                         = Hash2(Half1(u, tu, proof, g, mid), Half2(u, tu, proof, g, mid))
  <2>1. /\ Input(n2, mid).input[1] = Half1(v, tv, proof, g, mid)
        /\ Input(n2, mid).input[2] = Half2(v, tv, proof, g, mid)
        /\ Input(n2, mid).used = IF v[n2] # v[n2+1] THEN mid + 1 ELSE mid
    BY <1>3, <1>5, <1>6, <1>10, InputIs DEF VFlags, VTree
  <2>2. /\ Half1(v, tv, proof, g, mid) = Half1(u, tu, proof, g, mid)
        /\ Half2(v, tv, proof, g, mid) = Half2(u, tu, proof, g, mid)
        /\ end = IF v[n2] # v[n2+1] THEN mid + 1 ELSE mid
    BY <1>3, <1>8 DEF Half1, Half2
  <2>3. st2 = Input(n2, mid)
    BY <1>9
  <2> QED
    BY <2>1, <2>2, <2>3
<1>12. Computes(u, g)
  BY <1>3, <1>5, <1>8 DEF Computes
<1>13. Halfway(w, tw, end, g) /\ end \in Nat
  <2>1. w = IF Computes(u, g) THEN [u EXCEPT ![g] = 1] ELSE u
    BY <1>12
  <2>2. tw = IF Computes(u, g)
             THEN [tu EXCEPT ![g] = Hash2(Half1(u, tu, proof, g, mid),
                                          Half2(u, tu, proof, g, mid))]
             ELSE tu
    BY <1>12
  <2>3. Halfway(u, tu, mid, g+1)
    BY <1>3, <1>6
  <2> HIDE DEF w, tw, u, tu, mid
  <2>4. Halfway(w, tw, end, g)
    BY <1>1, <2>1, <2>2, <2>3, PairDone
  <2> QED
    BY <1>10, <2>4
<1>14. merkle_tree' = [merkle_tree EXCEPT !["verifier"] = tw]
  <2>1. merkle_tree' = [merkle_tree EXCEPT
           !["verifier"][f] = Hash2(st1.input[1], st1.input[2]),
           !["verifier"][g] = Hash2(st2.input[1], st2.input[2])]
    BY <1>2, <1>3 DEF RecomputeTwoPairs
  <2> DEFINE d1 == Hash2(Half1(v, tv, proof, f, used), Half2(v, tv, proof, f, used))
             d2 == Hash2(Half1(u, tu, proof, g, mid), Half2(u, tu, proof, g, mid))
  <2>2. tu[f] = d1
    BY <1>1, <1>4 DEF Halfway, Digests
  <2>3. merkle_tree' = [merkle_tree EXCEPT !["verifier"][f] = d1, !["verifier"][g] = d2]
    BY <1>9, <1>11, <2>1, <2>2
  <2>4. tw = [[tv EXCEPT ![f] = d1] EXCEPT ![g] = d2]
    OBVIOUS
  <2> HIDE DEF d1, d2, tw
  <2>5. "verifier" \in Party /\ merkle_tree = [p \in Party |-> merkle_tree[p]]
    BY DEF MerkleInvariant, MerkleShape, Party
  <2> QED
    BY <2>3, <2>4, <2>5 DEF VTree
<1>15. computed' = [computed EXCEPT !["verifier"] = w]
  <2>1. computed' = [computed EXCEPT !["verifier"][f] = 1, !["verifier"][g] = 1]
    BY <1>2, <1>3 DEF RecomputeTwoPairs
  <2>2. "verifier" \in Party /\ computed = [p \in Party |-> computed[p]]
    BY DEF MerkleInvariant, MerkleShape, Party
  <2> QED
    BY <2>1, <2>2 DEF VFlags
<1>16. published' = [published EXCEPT !["verifier"] = end]
  BY <1>11 DEF RecomputeTwoPairs
<1>17. /\ UNCHANGED <<mk_at, mk_level, mk_start, root, proof, is_mtree_padding_ok,
                      sharedVars>>
       /\ mk_i' = mk_i - 4
  BY DEF RecomputeTwoPairs
<1> HIDE DEF w, tw, end
<1>18. Halfway(w, tw, end, Front(mk_level, mk_i - 4))
  BY <1>3, <1>13
<1> QED
  BY <1>1, <1>3, <1>13, <1>14, <1>15, <1>16, <1>17, <1>18, RecomputeStep

LEMMA RecomputeLevelPreserves ==
  ASSUME MerkleInvariant, RecomputeLevel
  PROVE  MerkleInvariant'
<1> USE DEF MerkleInvariant
<1> DEFINE s == SFlags
           v == VFlags
<1>1. /\ mk_at = "recompute_root" /\ mk_i < 0 /\ NextLevelUp
      /\ IF mk_level > 1
         THEN UNCHANGED <<mk_at, root, is_mtree_padding_ok>>
         ELSE /\ mk_at' = "recomputed"
              /\ root' = [root EXCEPT !["verifier"] = VTree[0]]
              /\ is_mtree_padding_ok' =
                   \A k \in Slot : k >= published["verifier"] => proof[k] = NoDigest
      /\ UNCHANGED <<merkle_tree, computed, proof, published, chall_2, round_seeds,
                     cmt_0, intact>>
  BY DEF RecomputeLevel, VTree, sharedVars
<1>2. /\ At /\ SameFlags(v, s, Here) /\ published["verifier"] = SlotsFrom(s, Here)
      /\ Leaves(VTree, cmt_0["verifier"]) /\ Rehashed(s, VTree, proof, Here)
  BY <1>1 DEF Recomputing
<1>3. /\ Positions'
      /\ mk_level > 1 => At' /\ Alike(Here', Here)
      /\ ~ (mk_level > 1) => Here = 0
  BY <1>1, <1>2, PlaceNext DEF At, Here
<1>4. /\ SFlags' = s /\ VFlags' = v /\ STree' = STree /\ VTree' = VTree
      /\ LeafFlags(SFlags)' = LeafFlags(SFlags)
  BY <1>1 DEF SFlags, VFlags, STree, VTree, LeafFlags
<1>5. /\ root = [p \in Party |-> root[p]] /\ is_mtree_padding_ok \in BOOLEAN
      /\ "signer" \in Party /\ "verifier" \in Party
  BY DEF MerkleShape, Party
<1>6. published["signer"] = SlotsFrom(s, 0)
  BY <1>1 DEF Made, AtSent, AtVerifying
<1>7. /\ mk_at' \in AtVerifying /\ root' = [p \in Party |-> root'[p]]
      /\ is_mtree_padding_ok' \in BOOLEAN /\ root'["signer"] = root["signer"]
  BY <1>1, <1>5 DEF AtVerifying
<1>8. MerkleShape'
  BY <1>1, <1>3, <1>4, <1>7 DEF MerkleShape, AtSent, STree, VTree
<1>9. Made'
  BY <1>1, <1>4, <1>7 DEF Made, OrFrom, AtSent, AtVerifying
<1>10. Leaves(VTree, cmt_0["verifier"])'
  BY <1>1, <1>2, <1>4 DEF Leaves
<1>11. Recomputing'
  <2>1. CASE mk_level > 1
    <3>1. SlotsFrom(s, Here') = SlotsFrom(s, Here)
      BY <1>3, <2>1, FlagsAlike
    <3>2. SameFlags(v, s, Here')
      BY <1>2, <1>3, <2>1 DEF SameFlags, Alike
    <3>3. SameFlags(VFlags, SFlags, Here)'
      BY <1>1, <1>4, <3>2 DEF SameFlags, LeafFlags
    <3>4. Rehashed(s, VTree, proof, Here')
      BY <1>2, <1>3, <2>1 DEF Rehashed, Alike
    <3> HIDE DEF s, v
    <3>5. Rehashed(SFlags, VTree, proof, Here)'
      BY <1>1, <1>4, <3>4
    <3> QED
      BY <1>1, <1>2, <1>3, <1>4, <1>10, <2>1, <3>1, <3>3, <3>5 DEF Recomputing, s, v
  <2>2. CASE ~ (mk_level > 1)
    BY <1>1, <2>2 DEF Recomputing
  <2> QED
    BY <2>1, <2>2
<1>12. Recomputed'
  <2>1. CASE mk_level > 1
    BY <1>1, <2>1 DEF Recomputed
  <2>2. CASE ~ (mk_level > 1)
    <3>1. published["verifier"] = SlotsFrom(s, 0) /\ Rehashed(s, VTree, proof, 0)
      BY <1>2, <1>3, <2>2
    <3>2. is_mtree_padding_ok' =
            \A k \in Slot : k >= published["verifier"] => proof[k] = NoDigest
      BY <1>1, <2>2
    <3>3. /\ RestEmpty(s, proof, 0) => is_mtree_padding_ok'
          /\ is_mtree_padding_ok' => RestEmpty(s, proof, 0)
      <4>1. RestEmpty(s, proof, 0)
              <=> \A k \in Slot : k >= published["verifier"] => proof[k] = NoDigest
        BY <3>1 DEF RestEmpty
      <4> QED
        BY <3>2, <4>1, Zenon
    <3>4. root'["verifier"] = VTree[0]
      BY <1>1, <1>5, <2>2
    <3> HIDE DEF s, v
    <3> QED
      BY <1>1, <1>4, <1>6, <1>7, <1>10, <3>1, <3>3, <3>4 DEF Recomputed, s
  <2> QED
    BY <2>1, <2>2
<1>13. Rooted' /\ Challenged' /\ Unsent'
  BY <1>1, <1>4, <1>7 DEF Rooted, Cmt, Leaves, Challenged, Unsent, AtSent,
              AtCommitting, AtVerifying
<1>14. Rooting' /\ Making'
  BY <1>7 DEF Rooting, Making, AtVerifying
<1> QED
  BY <1>8, <1>9, <1>11, <1>12, <1>13, <1>14

LEMMA RootKnown == Known(0) /\ 0 \in Node
<1>1. 0 \in Level /\ 0 \in 0 .. npl[0]-1 /\ First[0] + 0 = 0
  BY FirstNode, RoundAssumption DEF Level
<1> QED
  BY <1>1, KnownOfLevel, NodeOfLevel

LEMMA StandsStill ==
  ASSUME MerkleInvariant, UNCHANGED <<mkVars, chall_2, cmt_0, intact>>
  PROVE  MerkleInvariant'
<1> USE DEF MerkleInvariant, mkVars, mkLoop, mkResults
<1>1. MerkleShape' /\ Positions'
  BY DEF MerkleShape, Positions, STree, VTree
<1>2. SFlags' = SFlags /\ VFlags' = VFlags /\ STree' = STree /\ VTree' = VTree
      /\ Cmt' = Cmt /\ At' = At /\ Here' = Here
  BY DEF SFlags, VFlags, STree, VTree, Cmt, At, Here
<1>3. LeafFlags(SFlags)' = LeafFlags(SFlags)
      /\ SameFlags(VFlags, SFlags, Here)' = SameFlags(VFlags, SFlags, Here)
  BY <1>2 DEF LeafFlags, SameFlags
<1>4. Rooting' /\ Rooted' /\ Challenged' /\ Unsent'
  BY <1>2 DEF Rooting, Rooted, Leaves, Challenged, Unsent
<1>5. Making' /\ Made'
  BY <1>2, <1>3 DEF Making, Made
<1>6. Recomputing' /\ Recomputed'
  BY <1>2, <1>3 DEF Recomputing, Recomputed, Leaves
<1> QED
  BY <1>1, <1>4, <1>5, <1>6

-----------------------------------------------------------------------------
(* The theorems.                                                           *)

\* What merkle.c maintains from the commitments to the verdict: the fathers
\* are done from the right end of the lowest level up to the place of the
\* loop, the slots of the proof number the mixed pairs in that order, and the
\* verifier's flags and digests agree with the signer's where they are known.
THEOREM MerkleInvariantHolds == MerkleTreeSpec => []MerkleInvariant
<1>1. MerkleTreeInit => MerkleInvariant
  BY MerkleInitially
<1>2. MerkleInvariant /\ [MerkleTreeNext]_<<mkVars, chall_2, cmt_0, intact>>
        => MerkleInvariant'
  <2> SUFFICES ASSUME MerkleInvariant,
                      [MerkleTreeNext]_<<mkVars, chall_2, cmt_0, intact>>
               PROVE  MerkleInvariant'
    OBVIOUS
  <2>1. CASE TreeRoot
    BY <2>1, RootPlacePreserves, RootTwoPairsPreserves, RootLastPairPreserves
       DEF TreeRoot
  <2>2. CASE MerkleChallenge /\ chall_2' \in Challenges /\ UNCHANGED <<cmt_0, intact>>
    BY <2>2, ChallengePreservesMerkle
  <2>3. CASE TreeProof
    BY <2>3, ProofLabelPreserves, ProofPairPreserves, ProofLevelPreserves
       DEF TreeProof
  <2>4. CASE ProofDamaged
    BY <2>4, DamagePreservesMerkle
  <2>5. CASE RecomputeRoot
    BY <2>5, RecomputePlacePreserves, RecomputeTwoPairsPreserves,
       RecomputeOnePairPreserves, RecomputeLevelPreserves DEF RecomputeRoot
  <2>6. CASE OutsideMerkle
    BY <2>6, OutsidePreservesMerkle
  <2>7. CASE UNCHANGED <<mkVars, chall_2, cmt_0, intact>>
    BY <2>7, StandsStill
  <2> QED
    BY <2>1, <2>2, <2>3, <2>4, <2>5, <2>6, <2>7 DEF MerkleTreeNext
<1> QED
  BY <1>1, <1>2, PTL DEF MerkleTreeSpec

\* tree_root leaves no gap: for every number of rounds and every shape of the
\* tree each leaf is the commitment of its round and each inner node the hash
\* of its two children when the root goes into the challenge.
THEOREM TreeCompleteHolds == MerkleTreeSpec => []TreeComplete
<1>1. MerkleInvariant => TreeComplete
  <2> SUFFICES ASSUME MerkleInvariant, mk_at = "challenge"
               PROVE  LET tree == merkle_tree["signer"]
                      IN  /\ root["signer"] = tree[0]
                          /\ \A r \in Round : tree[LeafNode[r]] = cmt_0["signer"][r]
                          /\ \A l \in 0 .. LOG2T-1 : \A k \in 0 .. Inner(l)-1 :
                               LET n == First[l] + k
                               IN  tree[n] = Hash2(tree[LeftChild(l, n)],
                                                   tree[LeftChild(l, n) + 1])
    BY DEF TreeComplete
  <2>1. Leaves(STree, Cmt) /\ HashedFrom(STree, 0) /\ root["signer"] = STree[0]
    BY DEF MerkleInvariant, Rooted
  <2>2. ASSUME NEW l \in 0 .. LOG2T-1, NEW k \in 0 .. Inner(l)-1
        PROVE  STree[First[l] + k] = Hash2(STree[LeftChild(l, First[l] + k)],
                                           STree[LeftChild(l, First[l] + k) + 1])
    <3>1. /\ LeftChild(l, First[l] + k) = First[l+1] + 2*k
          /\ Kid(First[l] + k) = First[l+1] + 2*k
          /\ First[l] + k \in InnerNode
      BY PairOf, KidIs
    <3>2. First[l] + k >= 0
      BY <3>1, KidFacts
    <3> QED
      BY <2>1, <3>1, <3>2 DEF HashedFrom
  <2> QED
    BY <2>1, <2>2 DEF Leaves, STree, Cmt
<1> QED
  BY <1>1, MerkleInvariantHolds, PTL

\* recompute_root comes to the signer's root from the commitments it knows
\* and the proof, whatever the challenge and the shape of the tree.
THEOREM RecomputedRootHolds == MerkleTreeSpec => []RecomputedRoot
<1>1. MerkleInvariant => RecomputedRoot
  <2> SUFFICES ASSUME MerkleInvariant, mk_at = "recomputed", intact, ProofFits, SameCommitments
               PROVE  root["verifier"] = root["signer"]
    BY DEF RecomputedRoot
  <2>1. /\ SFlags \in Flags /\ LeafFlags(SFlags) /\ OrFrom(SFlags, 0) /\ SFlags[0] = 1
        /\ SlotsFrom(SFlags, 0) <= NodesToStore /\ Stored(SFlags, STree, proof, 0)
    <3>1. SFlags \in Flags
      BY DEF MerkleInvariant, MerkleShape, SFlags, Party
    <3> QED
      BY <3>1 DEF MerkleInvariant, Made, AtSent, AtVerifying, ProofFits
  <2>2. Leaves(STree, Cmt) /\ HashedFrom(STree, 0) /\ root["signer"] = STree[0]
    BY DEF MerkleInvariant, Rooted
  <2>3. /\ Leaves(VTree, cmt_0["verifier"]) /\ Rehashed(SFlags, VTree, proof, 0)
        /\ root["verifier"] = VTree[0]
    BY DEF MerkleInvariant, Recomputed
  <2>4. \A r \in Round : chall_2[r] = 0 => VTree[LeafNode[r]] = STree[LeafNode[r]]
    BY <2>2, <2>3 DEF Leaves, SameCommitments, Cmt
  <2>5. VTree[0] = STree[0]
    BY <2>1, <2>2, <2>3, <2>4, RootKnown, DigestsArrive
  <2> QED
    BY <2>2, <2>3, <2>5
<1> QED
  BY <1>1, MerkleInvariantHolds, PTL

\* recompute_root goes through exactly the slots that tree_proof has filled,
\* so that the check of the padding accepts what arrived as it was sent.
THEOREM ProofUsedUpHolds == MerkleTreeSpec => []ProofUsedUp
<1>1. MerkleInvariant => ProofUsedUp
  BY DEF MerkleInvariant, Made, AtSent, AtVerifying, Recomputed, ProofUsedUp
<1> QED
  BY <1>1, MerkleInvariantHolds, PTL

\* Buffers, flags and counters of merkle.c keep their shape.
THEOREM MerkleTypeHolds == MerkleTreeSpec => []MerkleTypeOK
<1>1. MerkleInvariant => MerkleTypeOK
  <2> SUFFICES ASSUME MerkleInvariant PROVE MerkleTypeOK
    OBVIOUS
  <2> USE DEF MerkleInvariant, MerkleShape
  <2>1. mk_at \in AtCommitting \cup {"tree_proof"} \cup AtSent /\ Positions
    OBVIOUS
  <2>2. merkle_tree = [p \in Party |-> [n \in Node |-> merkle_tree[p][n]]]
    BY DEF Party, Digests, STree, VTree
  <2>3. computed \in [Party -> [Node -> 0..1]]
    BY DEF Flags
  <2> QED
    BY <2>1, <2>2, <2>3
       DEF MerkleTypeOK, Positions, AtCommitting, AtSent, AtVerifying
<1> QED
  BY <1>1, MerkleInvariantHolds, PTL

-----------------------------------------------------------------------------
(* The path and the proof are of the same nodes.                           *)

\* From the leaves up, what compute_seeds_to_publish flags is what tree_proof
\* does not: the AND of the one, the OR of the other.
LEMMA FlagsOpposite ==
  ASSUME chall_2 \in [Round -> 0..1],
         NEW s \in FlagArrays, LeavesFlagged(s), AndOn(s, InnerNode),
         NEW c \in Flags, LeafFlags(c), OrFrom(c, 0)
  PROVE  \A n \in Node : Known(n) => (c[n] = 1 <=> s[n] = 0)
<1> DEFINE Bad == {n \in Node : Known(n) /\ ~ (c[n] = 1 <=> s[n] = 0)}
<1>1. SUFFICES ASSUME Bad # {}
               PROVE  FALSE
  OBVIOUS
<1>2. PICK n \in Bad : \A m \in Bad : m <= n
  BY <1>1, LastNode
<1>3. n \in Node /\ Known(n) /\ ~ (c[n] = 1 <=> s[n] = 0)
  OBVIOUS
<1>4. CASE \E r \in Round : LeafNode[r] = n
  <2>1. PICK r \in Round : LeafNode[r] = n
    BY <1>4
  <2>2. s[n] = chall_2[r] /\ c[n] = (IF chall_2[r] = 0 THEN 1 ELSE 0)
    BY <2>1 DEF LeavesFlagged, LeafFlags
  <2> QED
    BY <1>3, <2>2
<1>5. CASE n \in InnerNode
  <2> DEFINE a == Kid(n)
             b == Kid(n) + 1
  <2>1. /\ n \in Nat /\ a \in Nat /\ n < a /\ a \in Node /\ b \in Node
        /\ Known(a) /\ Known(b)
    BY <1>5, KidFacts, KidsKnown
  <2>2. a \notin Bad /\ b \notin Bad
    <3>1. ~ (a <= n) /\ ~ (b <= n)
      BY <2>1
    <3> QED
      BY <1>2, <3>1
  <2>3. (c[a] = 1 <=> s[a] = 0) /\ (c[b] = 1 <=> s[b] = 0)
    BY <2>1, <2>2
  <2>4. /\ s[a] \in 0..1 /\ s[b] \in 0..1
    BY <2>1 DEF FlagArrays
  <2>5. c[n] = 1 <=> c[a] = 1 \/ c[b] = 1
    BY <1>5, <2>1 DEF OrFrom, Computes
  <2>6. s[n] = 0 <=> ~ (s[a] = 1 /\ s[b] = 1)
    BY <1>5 DEF AndOn, BothSet
  <2> HIDE DEF a, b
  <2> QED
    BY <1>3, <2>3, <2>4, <2>5, <2>6
<1> QED
  BY <1>3, <1>4, <1>5 DEF Known

\* A father one of whose children is computed misses the other one in the
\* proof; the seed path sends that child.
LEMMA SameCount ==
  ASSUME chall_2 \in [Round -> 0..1],
         NEW s \in FlagArrays, LeavesFlagged(s), AndOn(s, InnerNode),
         NEW c \in Flags, LeafFlags(c), OrFrom(c, 0)
  PROVE  CountTo(s, AllNodes) = SlotsFrom(c, 0)
<1> DEFINE P  == Mixed(c, 0)
           Q  == SentTo(s, AllNodes)
           to == [f \in P |-> Missing(c, f)]
<1>1. \A n \in Node : Known(n) => (c[n] = 1 <=> s[n] = 0) /\ c[n] \in 0..1 /\ s[n] \in 0..1
  BY FlagsOpposite DEF FlagArrays, Flags
<1>2. ASSUME NEW f \in InnerNode
      PROVE  /\ (c[Kid(f)] = 1 <=> s[Kid(f)] = 0)
             /\ (c[Kid(f) + 1] = 1 <=> s[Kid(f) + 1] = 0)
             /\ c[Kid(f)] \in 0..1 /\ s[Kid(f)] \in 0..1
             /\ c[Kid(f) + 1] \in 0..1 /\ s[Kid(f) + 1] \in 0..1
             /\ (s[f] = 0 <=> ~ (s[Kid(f)] = 1 /\ s[Kid(f) + 1] = 1))
  <2>1. Kid(f) \in Node /\ Kid(f) + 1 \in Node /\ Known(Kid(f)) /\ Known(Kid(f) + 1)
    BY <1>2, KidFacts, KidsKnown
  <2>2. s[f] = IF s[Kid(f)] = 1 /\ s[Kid(f) + 1] = 1 THEN 1 ELSE 0
    BY <1>2 DEF AndOn, BothSet
  <2> QED
    BY <1>1, <2>1, <2>2
<1>3. ASSUME NEW f \in P
      PROVE  f \in InnerNode /\ Missing(c, f) \in Q /\ KidOf(Missing(c, f), f)
  <2>1. f \in InnerNode /\ c[Kid(f)] # c[Kid(f) + 1]
    BY DEF Mixed
  <2> DEFINE n == Missing(c, f)
  <2>2. n \in Node /\ KidOf(n, f) /\ s[n] = 1 /\ s[f] = 0
    BY <1>2, <2>1, KidFacts DEF Missing, KidOf
  <2>3. n < AllNodes
    BY <2>2, RoundAssumption DEF Node, AllNodes
  <2> HIDE DEF n
  <2>4. n \in Q
    BY <2>1, <2>2, <2>3 DEF SentTo
  <2> QED
    BY <2>1, <2>2, <2>4 DEF n
<1>4. ASSUME NEW n \in Q
      PROVE  \E f \in P : Missing(c, f) = n
  <2>1. PICK f \in InnerNode : KidOf(n, f) /\ s[f] = 0
    BY DEF SentTo
  <2>2. s[n] = 1
    BY DEF SentTo
  <2>3. c[Kid(f)] # c[Kid(f) + 1] /\ Missing(c, f) = n
    BY <1>2, <2>1, <2>2 DEF Missing, KidOf
  <2>4. f >= 0
    BY KidFacts
  <2>5. f \in P
    BY <2>3, <2>4 DEF Mixed
  <2> QED
    BY <2>3, <2>5
<1>5. ASSUME NEW f \in P, NEW g \in P, Missing(c, f) = Missing(c, g)
      PROVE  f = g
  BY <1>3, <1>5, OneFather
<1>6. to \in Bijection(P, Q)
  <2> HIDE DEF P, Q
  <2>1. to \in [P -> Q]
    BY <1>3
  <2>2. \A f, g \in P : to[f] = to[g] => f = g
    BY <1>5
  <2>3. \A n \in Q : \E f \in P : to[f] = n
    BY <1>4
  <2> QED
    BY <2>1, <2>2, <2>3 DEF Bijection, Injection, Surjection, IsInjective
<1>7. Cardinality(Q) = Cardinality(P)
  <2>1. ExistsBijection(P, Q)
    BY <1>6 DEF ExistsBijection
  <2> QED
    BY <2>1, MixedFinite, FS_Bijection
<1> QED
  BY <1>7 DEF CountTo, SlotsFrom

\* Every node has a level.
LEMMA AllKnown ==
  ASSUME NEW n \in Node
  PROVE  Known(n)
<1> DEFINE above == {l \in Nat : l <= LOG2T+1 /\ First[l] > n}
<1>0. \A l \in Level : First[l] \in Nat /\ First[l+1] = First[l] + npl[l]
  BY LevelFacts
<1>1. LOG2T \in Nat /\ LOG2T+1 \in Nat /\ First[0] = 0 /\ First[LOG2T+1] = 2*T-1
  BY RoundAssumption, TableAssumption
<1>2. n \in Nat /\ n < 2*T-1
  BY RoundAssumption DEF Node
<1>3. LOG2T+1 \in above
  BY <1>1, <1>2
<1>4. PICK m \in above : \A l \in above : m <= l
  <2>1. above \in SUBSET Nat
    OBVIOUS
  <2> QED
    BY <1>3, <2>1, LeastOf
<1> DEFINE l == m - 1
<1>5. m \in Nat /\ m <= LOG2T+1 /\ n < First[m] /\ m # 0
  BY <1>1, <1>2
<1>6. l \in Level /\ l \in Nat /\ l + 1 = m
  BY <1>1, <1>5 DEF Level
<1>7. l \notin above
  BY <1>4, <1>6
<1>8. First[l] \in Nat /\ First[l] <= n /\ n < First[l] + npl[l] /\ npl[l] \in Nat
  <2>1. First[l] \in Nat /\ npl[l] \in Nat /\ First[m] = First[l] + npl[l]
    BY <1>6, LevelFacts
  <2>2. l <= LOG2T+1
    BY <1>1, <1>5, <1>6
  <2> QED
    BY <1>2, <1>5, <1>6, <1>7, <2>1, <2>2
<1>9. n - First[l] \in 0 .. npl[l]-1 /\ First[l] + (n - First[l]) = n
  BY <1>2, <1>8
<1> HIDE DEF l
<1> QED
  BY <1>6, <1>9, KnownOfLevel

-----------------------------------------------------------------------------
(* No two nodes have one seed.                                             *)

LEMMA ExpandRoot ==
  ASSUME NEW l \in Level, NEW k \in 0 .. npl[l]-1, k < Inner(l), NEW t, Seeds(t)
  PROVE  LET u == Expanded(t, l, First[l] + k)
         IN  Seeds(u) /\ u[0] = t[0]
<1> DEFINE f == First[l] + k
           u == Expanded(t, l, f)
<1>1. f \in InnerNode /\ Seeds(u) /\ \A n \in Node : ~ KidOf(n, f) => u[n] = t[n]
  BY ExpandFacts
<1> HIDE DEF f, u
<1>2. ~ KidOf(0, f)
  BY <1>1, KidFacts DEF KidOf
<1>3. 0 \in Node
  BY RoundAssumption DEF Node
<1>4. Seeds(u) /\ u[0] = t[0]
  BY <1>1, <1>2, <1>3
<1> QED
  BY <1>4 DEF f, u

RootKept == SignerSeedTree[0] = RootSeed

LEMMA RootKeeps ==
  ASSUME SeedInvariant, RootKept,
         [SeedTreeNext]_<<seedVars, chall_2, round_seeds, intact>>
  PROVE  RootKept'
<1> DEFINE t == SignerSeedTree
           n == start_node + i
<1>1. CASE GenPair \/ GenLast
  <2>1. GenPlace /\ Seeds(t)
    BY <1>1 DEF SeedInvariant, Growing, SeedShape, GenPair, GenLast
  <2>0. ASSUME NEW v, seed_tree' = [seed_tree EXCEPT !["signer"] = v]
        PROVE  SignerSeedTree' = v
    BY <2>0 DEF SeedInvariant, SeedShape, Party, SignerSeedTree
  <2>2. /\ level \in 0 .. LOG2T-1 /\ level \in Level /\ start_node = First[level]
        /\ First[level] \in Nat /\ Inner(level) \in Nat /\ npl[level] \in Nat
        /\ Inner(level) <= npl[level] /\ i \in Nat
    BY <2>1, LevelBelow, LevelFacts DEF GenPlace
  <2>3. CASE GenPair
    <3> DEFINE u == Expanded(t, level, n)
               w == Expanded(u, level, n + 1)
    <3>1. seed_tree' = [seed_tree EXCEPT !["signer"] = w] /\ i <= Inner(level) - 2
      BY <2>3 DEF GenPair, SignerSeedTree
    <3>2. /\ i \in 0 .. npl[level]-1 /\ i+1 \in 0 .. npl[level]-1
          /\ i < Inner(level) /\ i+1 < Inner(level) /\ n + 1 = First[level] + (i+1)
      BY <2>2, <3>1
    <3> HIDE DEF t
    <3>3. Seeds(u) /\ u[0] = t[0]
      BY <2>1, <2>2, <3>2, ExpandRoot
    <3> HIDE DEF u
    <3>4. w[0] = u[0]
      <4>1. Expanded(u, level, First[level] + (i+1))[0] = u[0]
        BY <2>2, <3>2, <3>3, ExpandRoot
      <4> QED
        BY <3>2, <4>1
    <3> HIDE DEF w
    <3>5. SignerSeedTree' = w
      BY <2>0, <3>1
    <3> QED
      BY <3>3, <3>4, <3>5 DEF RootKept, t
  <2>4. CASE GenLast
    <3>1. CASE i < Inner(level)
      <4> DEFINE u == Expanded(t, level, n)
      <4>1. seed_tree' = [seed_tree EXCEPT !["signer"] = u]
        BY <2>4, <3>1 DEF GenLast, SignerSeedTree
      <4> HIDE DEF t
      <4>2. i \in 0 .. npl[level]-1
        BY <2>2, <3>1
      <4>3. Expanded(t, level, First[level] + i)[0] = t[0]
        BY <2>1, <2>2, <3>1, <4>2, ExpandRoot
      <4>4. u[0] = t[0]
        BY <2>2, <4>3
      <4> HIDE DEF u
      <4> QED
        BY <2>0, <4>1, <4>4 DEF RootKept, t
    <3>2. CASE ~ (i < Inner(level))
      BY <2>4, <3>2 DEF GenLast, RootKept, SignerSeedTree
    <3> QED
      BY <3>1, <3>2
  <2> QED
    BY <1>1, <2>3, <2>4
<1>2. CASE RebuildPair
  <2>1. \E v : seed_tree' = [seed_tree EXCEPT !["verifier"] = v]
    BY <1>2 DEF RebuildPair
  <2>2. seed_tree = [p \in Party |-> seed_tree[p]] /\ "signer" \in Party
    BY DEF SeedInvariant, SeedShape, Party
  <2>3. SignerSeedTree' = SignerSeedTree
    BY <2>1, <2>2 DEF SignerSeedTree
  <2> QED
    BY <2>3 DEF RootKept
<1>3. ASSUME UNCHANGED seed_tree
      PROVE  RootKept'
  BY <1>3 DEF RootKept, SignerSeedTree
<1>4. CASE SeedLeaves \/ SeedChallenge \/ Computing
  BY <1>3, <1>4 DEF SeedLeaves, SeedChallenge, Computing, LabelLeaves, ComputeEight,
                    ComputePair, ComputeLevel
<1>5. CASE PathNode \/ PathLevel \/ PathDamaged \/ SeedReceived \/ RebuildLevel
  BY <1>3, <1>5 DEF PathNode, PathLevel, PathDamaged, SeedReceived, RebuildLevel
<1>6. CASE OutsideSeeds \/ UNCHANGED <<seedVars, chall_2, round_seeds, intact>>
  <2>1. UNCHANGED seedVars
    <3>1. CASE OutsideSeeds
      BY <3>1 DEF OutsideSeeds
    <3> QED
      BY <1>6, <3>1
  <2> QED
    BY <1>3, <2>1 DEF seedVars
<1> QED
  BY <1>1, <1>2, <1>4, <1>5, <1>6 DEF SeedTreeNext, SignerSeeds, PublishSeeds, RebuildSeeds

\* What is asked of the CSPRNG, of the seeds t that are expanded: outputs under
\* other separators, and the halves of one output, are told apart, and none is
\* a cleared slot or the root's seed again.
NoCollision(t) ==
  \A f, g \in InnerNode : \A h, j \in 0..1 :
    /\ Xof(t[f], f, h) = Xof(t[g], g, j) => f = g /\ h = j
    /\ Xof(t[f], f, h) # Zero /\ Xof(t[f], f, h) # RootSeed

LEMMA DistinctSeeds ==
  ASSUME RootSeed # Zero,
         NEW t, NoCollision(t), ExpandedTo(t, AllNodes), t[0] = RootSeed
  PROVE  /\ \A n \in Node : t[n] # Zero
         /\ \A n, m \in Node : t[n] = t[m] => n = m
<1>1. ASSUME NEW n \in Node, n # 0
      PROVE  \E f \in InnerNode, h \in 0..1 :
               n = Kid(f) + h /\ t[n] = Xof(t[f], f, h)
  <2>1. PICK f \in InnerNode : n = Kid(f) \/ n = Kid(f) + 1
    BY <1>1, AllKnown, HasFather
  <2>2. f \in Node /\ f < AllNodes /\ Kid(f) \in Nat
    BY KidFacts, RoundAssumption DEF Node, AllNodes
  <2>3. t[Kid(f)] = Xof(t[f], f, 0) /\ t[Kid(f) + 1] = Xof(t[f], f, 1)
    BY <2>2 DEF ExpandedTo
  <2>4. CASE n = Kid(f)
    <3>1. n = Kid(f) + 0 /\ 0 \in 0..1
      BY <2>2, <2>4
    <3> QED
      BY <2>2, <2>3, <2>4, <3>1
  <2>5. CASE n = Kid(f) + 1
    BY <2>2, <2>3, <2>5
  <2> QED
    BY <2>1, <2>4, <2>5
<1>2. ASSUME NEW n \in Node
      PROVE  t[n] # Zero
  BY <1>1, <1>2 DEF NoCollision
<1>3. ASSUME NEW n \in Node, n # 0
      PROVE  t[n] # t[0]
  BY <1>1, <1>3 DEF NoCollision
<1>4. ASSUME NEW n \in Node, NEW m \in Node, t[n] = t[m], n # 0, m # 0
      PROVE  n = m
  <2>1. PICK f \in InnerNode, h \in 0..1 :
          n = Kid(f) + h /\ t[n] = Xof(t[f], f, h)
    BY <1>1, <1>4
  <2>2. PICK g \in InnerNode, j \in 0..1 :
          m = Kid(g) + j /\ t[m] = Xof(t[g], g, j)
    BY <1>1, <1>4
  <2>3. Xof(t[f], f, h) = Xof(t[g], g, j)
    BY <1>4, <2>1, <2>2
  <2>4. f = g /\ h = j
    BY <2>1, <2>2, <2>3 DEF NoCollision
  <2> QED
    BY <2>1, <2>2, <2>4
<1> QED
  BY <1>2, <1>3, <1>4

\* gen_seed_tree reaches every node, writes none twice and gives each its own
\* domain separator: as long as the CSPRNG does not collide on the seeds it is
\* given, no two nodes have one seed, whatever the shape of the tree.
THEOREM SeedsDistinctHolds ==
  ASSUME RootSeed # Zero
  PROVE  SeedTreeSpec => [](NoCollision(SignerSeedTree) => SeedsDistinct)
<1>1. SeedTreeInit => RootKept
  <2>1. 0 \in Node /\ "signer" \in Party
    BY RoundAssumption DEF Node, Party
  <2> QED
    BY <2>1 DEF SeedTreeInit, SeedInit, RootKept, SignerSeedTree
<1>2. SeedInvariant /\ RootKept /\ [SeedTreeNext]_<<seedVars, chall_2, round_seeds, intact>>
        => RootKept'
  BY RootKeeps
<1>3. SeedInvariant /\ RootKept => (NoCollision(SignerSeedTree) => SeedsDistinct)
  <2>1. SUFFICES ASSUME SeedInvariant, RootKept, NoCollision(SignerSeedTree),
                        seed_at = "seed_leaves", seed_by = "signer"
                 PROVE  \A n \in Node :
                          /\ SignerSeedTree[n] # Zero
                          /\ \A m \in 0 .. n-1 : SignerSeedTree[m] # SignerSeedTree[n]
    BY DEF SeedsDistinct, SignerSeedTree
  <2>2. ExpandedTo(SignerSeedTree, AllNodes) /\ SignerSeedTree[0] = RootSeed
    BY <2>1 DEF SeedInvariant, Growing, RootKept
  <2>3. /\ \A n \in Node : SignerSeedTree[n] # Zero
        /\ \A n, m \in Node : SignerSeedTree[n] = SignerSeedTree[m] => n = m
    BY <2>1, <2>2, DistinctSeeds
  <2>4. ASSUME NEW n \in Node, NEW m \in 0 .. n-1
        PROVE  m \in Node /\ m # n
    BY RoundAssumption DEF Node
  <2> QED
    BY <2>3, <2>4
<1> QED
  BY <1>1, <1>2, <1>3, SeedInvariantHolds, PTL DEF SeedTreeSpec

-----------------------------------------------------------------------------
(* The nodes under a node.                                                 *)

\* With a father both children.
HasKids(S) == \A f \in InnerNode : f \in S => Kid(f) \in S /\ Kid(f) + 1 \in S

\* n and what hangs on it: the least set of nodes that has n and, with a
\* father, both children.
Under(n) == {m \in Node : \A S \in SUBSET Node : n \in S /\ HasKids(S) => m \in S}

LEMMA UnderLeast ==
  ASSUME NEW n \in Node
  PROVE  /\ Under(n) \in SUBSET Node /\ n \in Under(n) /\ HasKids(Under(n))
         /\ \A S \in SUBSET Node : n \in S /\ HasKids(S) => Under(n) \subseteq S
<1>1. HasKids(Under(n))
  <2>1. SUFFICES ASSUME NEW f \in InnerNode, f \in Under(n)
                 PROVE  Kid(f) \in Under(n) /\ Kid(f) + 1 \in Under(n)
    BY DEF HasKids
  <2>2. Kid(f) \in Node /\ Kid(f) + 1 \in Node
    BY KidFacts
  <2>3. ASSUME NEW S \in SUBSET Node, n \in S, HasKids(S)
        PROVE  Kid(f) \in S /\ Kid(f) + 1 \in S
    BY <2>1, <2>3 DEF Under, HasKids
  <2> QED
    BY <2>2, <2>3 DEF Under
<1> QED
  BY <1>1 DEF Under

\* Numbers rise on the way down.
LEMMA UnderBehind ==
  ASSUME NEW n \in Node, NEW m \in Under(n)
  PROVE  n \in Nat /\ m \in Nat /\ m \in Node /\ n <= m
<1> DEFINE S == {k \in Node : n <= k}
<1>1. n \in Nat /\ \A k \in Node : k \in Nat
  BY RoundAssumption DEF Node
<1>2. HasKids(S)
  BY <1>1, KidFacts DEF HasKids
<1>3. n \in S /\ S \in SUBSET Node
  BY <1>1
<1>4. m \in S
  BY <1>2, <1>3, UnderLeast
<1> QED
  BY <1>1, <1>4

\* What hangs on n hangs there by its father.
LEMMA UnderFather ==
  ASSUME NEW n \in Node, NEW m \in Under(n), m # n
  PROVE  \E f \in InnerNode : f \in Under(n) /\ KidOf(m, f)
<1> DEFINE S == {k \in Under(n) : k = n \/ \E f \in InnerNode : f \in Under(n) /\ KidOf(k, f)}
<1>1. S \in SUBSET Node /\ n \in S /\ S \subseteq Under(n)
  BY UnderLeast
<1>2. HasKids(S)
  BY UnderLeast DEF HasKids, KidOf
<1>3. m \in S
  BY <1>1, <1>2, UnderLeast
<1> QED
  BY <1>3

\* The nodes under a father are itself and those under its children ...
LEMMA UnderSplits ==
  ASSUME NEW f \in InnerNode
  PROVE  Under(f) = {f} \cup Under(Kid(f)) \cup Under(Kid(f) + 1)
<1> DEFINE a == Kid(f)
           b == Kid(f) + 1
           S == {f} \cup Under(a) \cup Under(b)
<1>1. f \in Node /\ a \in Node /\ b \in Node
  BY KidFacts
<1>2. /\ Under(f) \in SUBSET Node /\ f \in Under(f) /\ HasKids(Under(f))
      /\ Under(a) \in SUBSET Node /\ a \in Under(a) /\ HasKids(Under(a))
      /\ Under(b) \in SUBSET Node /\ b \in Under(b) /\ HasKids(Under(b))
  BY <1>1, UnderLeast
<1>3. HasKids(S) /\ S \in SUBSET Node
  BY <1>1, <1>2 DEF HasKids
<1>4. Under(f) \subseteq S
  BY <1>1, <1>3, UnderLeast
<1>5. a \in Under(f) /\ b \in Under(f)
  BY <1>2 DEF HasKids
<1>6. Under(a) \subseteq Under(f) /\ Under(b) \subseteq Under(f)
  BY <1>1, <1>2, <1>5, UnderLeast
<1> QED
  BY <1>2, <1>4, <1>6

\* ... and these are different.
LEMMA UnderApart ==
  ASSUME NEW f \in InnerNode
  PROVE  /\ f \notin Under(Kid(f)) /\ f \notin Under(Kid(f) + 1)
         /\ Under(Kid(f)) \cap Under(Kid(f) + 1) = {}
<1> DEFINE a == Kid(f)
           b == Kid(f) + 1
           S == Under(a) \cap Under(b)
<1>1. f \in Nat /\ f \in Node /\ a \in Node /\ b \in Node /\ a \in Nat /\ b = a + 1 /\ f < a
  BY KidFacts
<1> HIDE DEF a, b
<1>2. f \notin Under(a) /\ f \notin Under(b)
  BY <1>1, UnderBehind
<1>3. SUFFICES ASSUME S # {}
               PROVE  FALSE
  BY <1>2 DEF a, b
<1>4. S \in SUBSET Nat
  BY <1>1, UnderBehind
<1>5. PICK m \in S : \A k \in S : m <= k
  BY <1>3, <1>4, LeastOf
<1>6. m \in Under(a) /\ m \in Under(b) /\ m # a
  BY <1>1, UnderBehind
<1>7. PICK g \in InnerNode : g \in Under(a) /\ KidOf(m, g)
  BY <1>1, <1>6, UnderFather
<1>8. g \in Nat /\ Kid(g) \in Nat /\ g < Kid(g)
  BY KidFacts
<1>9. m # b
  <2>1. SUFFICES ASSUME m = b
                 PROVE  FALSE
    OBVIOUS
  <2>2. KidOf(b, f)
    BY DEF b, a, KidOf
  <2>3. g = f
    BY <1>7, <2>1, <2>2, OneFather
  <2> QED
    BY <1>2, <1>7, <2>3
<1>10. PICK h \in InnerNode : h \in Under(b) /\ KidOf(m, h)
  BY <1>1, <1>6, <1>9, UnderFather
<1>11. g = h
  BY <1>7, <1>10, OneFather
<1>12. g \in S /\ g < m
  BY <1>7, <1>8, <1>10, <1>11 DEF KidOf
<1> QED
  BY <1>4, <1>5, <1>8, <1>12

LEMMA UnderLeaf ==
  ASSUME NEW n \in Node, n \notin InnerNode
  PROVE  Under(n) = {n}
<1>1. HasKids({n}) /\ {n} \in SUBSET Node
  BY DEF HasKids
<1> QED
  BY <1>1, UnderLeast

LEMMA UnderRoot == 0 \in Node /\ Under(0) = Node
<1>1. 0 \in Node /\ \A n \in Node : n \in Nat
  BY RoundAssumption DEF Node
<1> DEFINE S == Node \ Under(0)
<1>2. SUFFICES ASSUME S # {}
               PROVE  FALSE
  BY <1>1, UnderLeast
<1>3. S \in SUBSET Nat
  BY <1>1
<1>4. PICK n \in S : \A m \in S : n <= m
  BY <1>2, <1>3, LeastOf
<1>5. n \in Node /\ n \notin Under(0) /\ n # 0
  BY <1>1, UnderLeast
<1>6. PICK f \in InnerNode : KidOf(n, f)
  BY <1>5, AllKnown, HasFather DEF KidOf
<1>7. f \in Nat /\ f \in Node /\ Kid(f) \in Nat /\ f < n
  BY <1>6, KidFacts DEF KidOf
<1>8. f \in Under(0)
  BY <1>1, <1>3, <1>4, <1>7
<1> QED
  BY <1>1, <1>5, <1>6, <1>8, UnderLeast DEF HasKids, KidOf

-----------------------------------------------------------------------------
(* What the seed of a node gives away.                                     *)

LEMMA ChildrenAre ==
  ASSUME NEW n \in Node
  PROVE  /\ n \in InnerNode => Children(n) = {Kid(n), Kid(n) + 1}
         /\ n \notin InnerNode => Children(n) = {}
<1>1. ASSUME n \in InnerNode
      PROVE  Children(n) = {Kid(n), Kid(n) + 1}
  <2>1. PICK l \in 0 .. LOG2T-1 : n - First[l] \in 0 .. Inner(l)-1
    BY <1>1 DEF InnerNode
  <2>2. \A m \in 0 .. LOG2T-1 : n - First[m] \in 0 .. Inner(m)-1 => LeftChild(m, n) = Kid(n)
    <3>1. ASSUME NEW m \in 0 .. LOG2T-1, n - First[m] \in 0 .. Inner(m)-1
          PROVE  LeftChild(m, n) = Kid(n)
      <4> DEFINE k == n - First[m]
      <4>1. First[m] \in Nat /\ n \in Nat /\ First[m] + k = n /\ k \in 0 .. Inner(m)-1
        BY <3>1, LevelBelow, LevelFacts, RoundAssumption DEF Node
      <4> HIDE DEF k
      <4>2. Kid(n) = First[m+1] + 2*k
        BY <4>1, KidIs
      <4>3. k \in 0 .. npl[m]-1
        BY <4>1, LevelBelow, LevelFacts
      <4>4. LeftChild(m, n) = First[m+1] + 2*k
        BY <4>1, PairOf
      <4> QED
        BY <4>2, <4>4
    <3> QED
      BY <3>1
  <2>3. Kid(n) \in Node /\ Kid(n) + 1 \in Node
    BY <1>1, KidFacts
  <2> QED
    BY <2>1, <2>2, <2>3 DEF Children
<1>2. ASSUME n \notin InnerNode
      PROVE  Children(n) = {}
  BY <1>2 DEF InnerNode, Children
<1> QED
  BY <1>1, <1>2

\* There is a function that satisfies the equation of RoundsOf: the rounds of n
\* are those whose leaves hang on it.
LEMMA RoundsOfIs ==
  RoundsOf = [n \in Node |->
    {r \in Round : LeafNode[r] = n} \cup UNION {RoundsOf[c] : c \in Children(n)}]
<1> DEFINE g == [n \in Node |-> {r \in Round : LeafNode[r] \in Under(n)}]
           Step(f, n) == {r \in Round : LeafNode[r] = n} \cup UNION {f[c] : c \in Children(n)}
<1>1. ASSUME NEW n \in Node
      PROVE  g[n] = Step(g, n)
  <2>1. CASE n \in InnerNode
    <3>1. Kid(n) \in Node /\ Kid(n) + 1 \in Node /\ Children(n) = {Kid(n), Kid(n) + 1}
      BY <2>1, KidFacts, ChildrenAre
    <3>2. UNION {g[c] : c \in Children(n)} = g[Kid(n)] \cup g[Kid(n) + 1]
      BY <3>1, Zenon
    <3>3. Under(n) = {n} \cup Under(Kid(n)) \cup Under(Kid(n) + 1)
      BY <2>1, UnderSplits
    <3> QED
      BY <3>1, <3>2, <3>3
  <2>2. CASE n \notin InnerNode
    <3>1. Children(n) = {} /\ Under(n) = {n}
      BY <2>2, ChildrenAre, UnderLeaf
    <3> QED
      BY <3>1
  <2> QED
    BY <2>1, <2>2
<1>2. g = [n \in Node |-> Step(g, n)]
  <2>1. g = [n \in Node |-> g[n]]
    OBVIOUS
  <2> HIDE DEF g, Step
  <2> QED
    BY <1>1, <2>1
<1> HIDE DEF g
<1>3. \E f : f = [n \in Node |-> Step(f, n)]
  BY <1>2
<1> QED
  BY <1>3, Zenon DEF RoundsOf

\* Where compute_seeds_to_publish has set a flag there is no hidden round below.
LEMMA NoneHidden ==
  ASSUME NEW s, LeavesFlagged(s), AndOn(s, InnerNode), NEW n \in Node, s[n] = 1
  PROVE  \A r \in RoundsOf[n] : chall_2[r] = 1
<1> DEFINE Bad == {m \in Node : s[m] = 1 /\ \E r \in RoundsOf[m] : chall_2[r] # 1}
<1>1. SUFFICES ASSUME Bad # {}
               PROVE  FALSE
  OBVIOUS
<1>2. Bad \in SUBSET Node
  OBVIOUS
<1>3. PICK m \in Bad : \A k \in Bad : k <= m
  BY <1>1, <1>2, LastNode
<1>4. m \in Node /\ s[m] = 1
  OBVIOUS
<1>5. PICK r \in RoundsOf[m] : chall_2[r] # 1
  OBVIOUS
<1>6. RoundsOf[m] = {q \in Round : LeafNode[q] = m} \cup UNION {RoundsOf[c] : c \in Children(m)}
  BY <1>4, RoundsOfIs, Zenon
<1>7. ~ (r \in Round /\ LeafNode[r] = m)
  BY <1>4, <1>5 DEF LeavesFlagged
<1>8. PICK c \in Children(m) : r \in RoundsOf[c]
  <2>1. r \in UNION {RoundsOf[c] : c \in Children(m)}
    BY <1>5, <1>6, <1>7
  <2> QED
    BY <2>1, Zenon
<1>9. m \in InnerNode /\ c \in {Kid(m), Kid(m) + 1}
  BY <1>4, ChildrenAre
<1>10. c \in Node /\ c \in Nat /\ m \in Nat /\ m < c
  BY <1>9, KidFacts
<1>11. s[c] = 1
  BY <1>4, <1>9 DEF AndOn, BothSet
<1>12. c \in Bad
  BY <1>5, <1>8, <1>10, <1>11
<1> QED
  BY <1>3, <1>10, <1>12

\* What seed_path has stored up to the node p.
LEMMA SlotsHidden ==
  ASSUME NEW s, NEW t, NEW pa, NEW p \in 0 .. 2*T-1,
         LeavesFlagged(s), AndOn(s, InnerNode),
         StoredTo(s, t, pa, p), EmptyFrom(s, pa, p), NEW k \in Slot
  PROVE  IF k < CountTo(s, p)
         THEN \E n \in Node : pa[k] = t[n] /\ \A r \in RoundsOf[n] : chall_2[r] = 1
         ELSE pa[k] = Zero
<1>1. k \in Nat /\ CountTo(s, p) \in Nat
  BY SentFinite, RoundAssumption DEF Slot
<1>2. CASE k < CountTo(s, p)
  <2>1. PICK n \in SentTo(s, p) : CountTo(s, n) = k
    BY <1>1, <1>2, SlotOfSent
  <2>2. n \in Node /\ s[n] = 1
    BY DEF SentTo
  <2>3. pa[k] = t[n]
    BY <2>1 DEF StoredTo
  <2>4. \A r \in RoundsOf[n] : chall_2[r] = 1
    BY <2>2, NoneHidden
  <2> QED
    BY <1>2, <2>2, <2>3, <2>4
<1>3. CASE ~ (k < CountTo(s, p))
  BY <1>1, <1>3 DEF EmptyFrom
<1> QED
  BY <1>2, <1>3

\* Whatever the challenge and the shape of the tree, and however far seed_path
\* has got: a slot that is filled holds the seed of a node below which no round
\* stays hidden, and the other slots hold no seed.
THEOREM HiddenSeedsHolds == SeedTreeSpec => []HiddenSeeds
<1>1. SeedInvariant => HiddenSeeds
  <2> SUFFICES ASSUME SeedInvariant, intact, NEW k \in Slot
               PROVE  IF k < num_seeds_published
                      THEN \E n \in Node : /\ path[k] = SignerSeedTree[n]
                                           /\ \A r \in RoundsOf[n] : chall_2[r] = 1
                      ELSE path[k] = Zero
    BY DEF HiddenSeeds, SignerSeedTree
  <2>1. CASE Unpublished
    BY <2>1, RoundAssumption DEF SeedInvariant, Sending, Slot
  <2>2. CASE ~ Unpublished
    <3> DEFINE s == SignerFlagTree
               p == IF seed_at = "seed_path" THEN NextNode ELSE AllNodes
    <3>1. (seed_at = "seed_path" \/ OnItsWay) /\ ~ (seed_at = "seed_path" /\ OnItsWay)
      BY <2>2 DEF SeedInvariant, SeedShape, Whose, Party, Unpublished, Early, OnItsWay
    <3>2. Published
      BY <3>1 DEF Published, OnItsWay
    <3>3. LeavesFlagged(s) /\ AndOn(s, InnerNode)
      BY <3>2 DEF SeedInvariant, Marked
    <3>4. p \in 0 .. 2*T-1
      <4>1. CASE seed_at = "seed_path"
        <5>1. level \in Level /\ start_node = First[level] /\ i \in 0 .. npl[level]
          BY <4>1, RoundAssumption DEF SeedInvariant, Sending, NodePlace, Level
        <5>2. First[level] \in Nat /\ npl[level] \in Nat /\ First[level+1] = First[level] + npl[level]
          BY <5>1, LevelFacts
        <5>3. First[level+1] <= 2*T-1 /\ First[level+1] \in Nat
          <6>1. CASE level = LOG2T
            BY <6>1, TableAssumption, RoundAssumption
          <6>2. CASE level # LOG2T
            <7>1. /\ level + 1 \in 0 .. LOG2T+1 /\ LOG2T+1 \in 0 .. LOG2T+1
                  /\ level + 1 < LOG2T+1
              BY <5>1, <6>2, RoundAssumption DEF Level
            <7>2. First[level+1] < First[LOG2T+1] /\ First[LOG2T+1] = 2*T-1
              BY <7>1, TableAssumption
            <7> QED
              BY <5>2, <7>2, RoundAssumption
          <6> QED
            BY <6>1, <6>2
        <5> QED
          BY <4>1, <5>1, <5>2, <5>3, RoundAssumption DEF NextNode
      <4>2. CASE seed_at # "seed_path"
        BY <4>2, RoundAssumption DEF AllNodes
      <4> QED
        BY <4>1, <4>2
    <3>5. /\ num_seeds_published = CountTo(s, p)
          /\ StoredTo(s, SignerSeedTree, path, p) /\ EmptyFrom(s, path, p)
      BY <3>1 DEF SeedInvariant, Sending
    <3> HIDE DEF s, p
    <3> QED
      BY <3>3, <3>4, <3>5, SlotsHidden
  <2> QED
    BY <2>1, <2>2
<1> QED
  BY <1>1, SeedInvariantHolds, PTL

-----------------------------------------------------------------------------
(* Rounds and published nodes of a part of the tree.                       *)

\* The rounds below n whose seed stays hidden.
HiddenRounds(n) == {r \in Round : chall_2[r] = 0 /\ LeafNode[r] \in Under(n)}
HiddenCount(n)  == Cardinality(HiddenRounds(n))

\* The nodes below n that are sent, without n.
SentUnder(s, n)  == {m \in SentTo(s, AllNodes) : m \in Under(n) /\ m # n}
SentInside(s, n) == Cardinality(SentUnder(s, n))

LEMMA RoundsFinite ==
  ASSUME NEW S \in SUBSET Round
  PROVE  IsFiniteSet(S) /\ Cardinality(S) \in Nat
<1>1. IsFiniteSet(Round)
  BY FS_Interval, RoundAssumption DEF Round
<1> QED
  BY <1>1, FS_Subset, FS_CardinalityType

LEMMA HiddenSplits ==
  ASSUME NEW f \in InnerNode
  PROVE  /\ HiddenCount(f) = HiddenCount(Kid(f)) + HiddenCount(Kid(f) + 1)
         /\ HiddenCount(f) \in Nat
         /\ HiddenCount(Kid(f)) \in Nat /\ HiddenCount(Kid(f) + 1) \in Nat
<1> DEFINE A == HiddenRounds(Kid(f))
           B == HiddenRounds(Kid(f) + 1)
<1>1. A \in SUBSET Round /\ B \in SUBSET Round /\ HiddenRounds(f) \in SUBSET Round
  BY DEF HiddenRounds
<1>2. HiddenRounds(f) = A \cup B
  BY UnderSplits, LeavesApart DEF HiddenRounds
<1>3. A \cap B = {}
  BY UnderApart DEF HiddenRounds
<1>4. /\ IsFiniteSet(A) /\ IsFiniteSet(B)
      /\ Cardinality(A) \in Nat /\ Cardinality(B) \in Nat
      /\ Cardinality(HiddenRounds(f)) \in Nat
  BY <1>1, RoundsFinite
<1> HIDE DEF A, B
<1>5. Cardinality(A \cap B) = 0
  BY <1>3, FS_EmptySet
<1>6. Cardinality(A \cup B) = Cardinality(A) + Cardinality(B) - Cardinality(A \cap B)
  BY <1>4, FS_Union
<1>7. Cardinality(HiddenRounds(f)) = Cardinality(A) + Cardinality(B)
  BY <1>2, <1>4, <1>5, <1>6
<1> QED
  BY <1>4, <1>7 DEF A, B, HiddenCount

\* What a child adds to the nodes that are sent below its father.
Adds(s, n) == IF s[n] = 1 THEN {n} ELSE SentUnder(s, n)

LEMMA SentSplits ==
  ASSUME NEW s \in FlagArrays, AndOn(s, InnerNode), NEW f \in InnerNode, s[f] = 0,
         s[Kid(f)] = 1 => SentUnder(s, Kid(f)) = {},
         s[Kid(f) + 1] = 1 => SentUnder(s, Kid(f) + 1) = {}
  PROVE  SentInside(s, f) <= Cardinality(Adds(s, Kid(f))) + Cardinality(Adds(s, Kid(f) + 1))
<1> DEFINE a == Kid(f)
           b == Kid(f) + 1
<1>1. f \in Node /\ a \in Node /\ b \in Node
  BY KidFacts
<1>2. s[a] \in 0..1 /\ s[b] \in 0..1
  BY <1>1 DEF FlagArrays
<1>3. ASSUME NEW n \in {a, b}, n \in SentTo(s, AllNodes)
      PROVE  s[n] = 1
  BY <1>3 DEF SentTo
<1>4. SentUnder(s, f) \subseteq Adds(s, a) \cup Adds(s, b)
  <2>1. SUFFICES ASSUME NEW m \in SentUnder(s, f)
                 PROVE  m \in Adds(s, a) \cup Adds(s, b)
    OBVIOUS
  <2>2. m \in SentTo(s, AllNodes) /\ (m \in Under(a) \/ m \in Under(b))
    BY UnderSplits DEF SentUnder
  <2>3. CASE m = a \/ m = b
    BY <1>3, <2>2, <2>3 DEF Adds
  <2>4. CASE m # a /\ m # b
    <3>1. m \in SentUnder(s, a) \/ m \in SentUnder(s, b)
      BY <2>2, <2>4 DEF SentUnder
    <3> QED
      BY <3>1 DEF Adds
  <2> QED
    BY <2>3, <2>4
<1>5. Adds(s, a) \in SUBSET Node /\ Adds(s, b) \in SUBSET Node /\ SentUnder(s, f) \in SUBSET Node
  BY <1>1 DEF Adds, SentUnder, SentTo
<1> DEFINE A == Adds(s, a)
           B == Adds(s, b)
<1>6. /\ IsFiniteSet(A) /\ IsFiniteSet(B) /\ A \cup B \in SUBSET Node
      /\ Cardinality(A) \in Nat /\ Cardinality(B) \in Nat
  BY <1>5, NodesFinite
<1>7. IsFiniteSet(A \cup B) /\ Cardinality(A \cap B) \in Nat /\ Cardinality(A \cup B) \in Nat
  <2>1. A \cap B \in SUBSET Node
    BY <1>5
  <2> QED
    BY <1>6, <2>1, NodesFinite
<1>8. Cardinality(SentUnder(s, f)) <= Cardinality(A \cup B)
  BY <1>4, <1>7, FS_Subset
<1> HIDE DEF A, B
<1>9. Cardinality(A \cup B) = Cardinality(A) + Cardinality(B) - Cardinality(A \cap B)
  BY <1>6, FS_Union
<1>10. Cardinality(SentUnder(s, f)) \in Nat
  BY <1>5, NodesFinite
<1>11. Cardinality(SentUnder(s, f)) <= Cardinality(A) + Cardinality(B)
  BY <1>6, <1>7, <1>8, <1>9, <1>10
<1> QED
  BY <1>11 DEF SentInside, A, B

-----------------------------------------------------------------------------
(* The rows of the nodes (CrossShape).                                     *)

\* A row of numbers, for at least one hidden leaf.
IsRow(q) == q \in Seq(Nat) /\ Len(q) > 0

\* Finite sets of numbers have a largest one.
LEMMA LargestOf ==
  ASSUME NEW S \in SUBSET Nat, S # {}, IsFiniteSet(S)
  PROVE  \E x \in S : \A z \in S : z <= x
<1> DEFINE None == {X \in SUBSET S : X # {} /\ ~ \E x \in X : \A z \in X : z <= x}
           D    == {Cardinality(X) : X \in None}
<1>1. SUFFICES ASSUME None # {}
               PROVE  FALSE
  OBVIOUS
<1>2. \A X \in SUBSET S : IsFiniteSet(X) /\ Cardinality(X) \in Nat
  BY FS_Subset, FS_CardinalityType
<1>3. D \in SUBSET Nat /\ D # {}
  BY <1>1, <1>2
<1>4. PICK d \in D : \A e \in D : d <= e
  BY <1>3, LeastOf
<1>5. PICK X \in None : d = Cardinality(X)
  OBVIOUS
<1>6. PICK u \in X : TRUE
  OBVIOUS
<1>7. /\ IsFiniteSet(X \ {u}) /\ Cardinality(X \ {u}) = Cardinality(X) - 1
      /\ Cardinality(X) \in Nat
  BY <1>2, <1>5, <1>6, FS_RemoveElement
<1>8. ~ (d <= Cardinality(X \ {u}))
  BY <1>5, <1>7
<1>9. X \ {u} \notin None /\ X \ {u} \in SUBSET S
  BY <1>4, <1>8
<1>10. CASE X \ {u} = {}
  <2>1. X = {u}
    BY <1>10
  <2> QED
    BY <1>5, <2>1
<1>11. CASE X \ {u} # {}
  <2>1. PICK v \in X \ {u} : \A z \in X \ {u} : z <= v
    BY <1>9, <1>11
  <2>2. u \in Nat /\ v \in Nat /\ \A z \in X : z \in Nat
    BY <1>6
  <2>3. CASE u <= v
    BY <1>5, <2>1, <2>3
  <2>4. CASE v < u
    <3>1. \A z \in X : z <= u
      BY <2>1, <2>2, <2>4
    <3> QED
      BY <1>5, <1>6, <3>1
  <2> QED
    BY <2>2, <2>3, <2>4
<1> QED
  BY <1>10, <1>11

LEMMA MaxIs ==
  ASSUME NEW S \in SUBSET Nat, IsFiniteSet(S), NEW z \in S
  PROVE  Max(S) \in S /\ Max(S) \in Nat /\ z <= Max(S)
<1>1. PICK x \in S : \A u \in S : u <= x
  BY LargestOf
<1>2. \E u \in S : \A v \in S : u >= v
  BY <1>1
<1>3. Max(S) \in S /\ \A v \in S : Max(S) >= v
  BY <1>2, Zenon DEF Max
<1> QED
  BY <1>3
LEMMA SentByNat ==
  ASSUME NEW q, IsRow(q), NEW x \in 0 .. Len(q)
  PROVE  SentBy(q, x) \in Nat
BY DEF SentBy, IsRow

\* The row of a father counts every way to share hidden leaves between its
\* children.
LEMMA JoinedRow ==
  ASSUME NEW a, IsRow(a), NEW b, IsRow(b), NEW hidden \in Nat \ {0}
  PROVE  LET row == Joined(a, b, hidden)
         IN  /\ IsRow(row)
             /\ \A y \in 0 .. Len(a), z \in 0 .. Len(b) : y + z > 0 /\ y + z <= hidden =>
                  /\ y + z \in 1 .. Len(row)
                  /\ SentBy(a, y) + SentBy(b, z) <= row[y + z]
<1> DEFINE n   == Min({Len(a) + Len(b), hidden})
           Splits(x) == {y \in 0 .. x : y <= Len(a) /\ x - y <= Len(b)}
           Sums(x)   == {SentBy(a, y) + SentBy(b, x - y) : y \in Splits(x)}
           whole == [x \in 1 .. n |-> Max(Sums(x))]
           row   == SubSeq(whole, 1, n)
<1>1. Len(a) \in Nat /\ Len(b) \in Nat /\ Len(a) > 0 /\ Len(b) > 0
  BY DEF IsRow
<1>2. /\ n \in Nat /\ n > 0 /\ n <= Len(a) + Len(b) /\ n <= hidden
      /\ n = Len(a) + Len(b) \/ n = hidden
  <2> DEFINE k == Len(a) + Len(b)
  <2>1. k \in Nat /\ k > 0
    BY <1>1
  <2> HIDE DEF k
  <2>2. \E x \in {k, hidden} : \A z \in {k, hidden} : x =< z
    BY <2>1
  <2>3. Min({k, hidden}) \in {k, hidden} /\ \A z \in {k, hidden} : Min({k, hidden}) =< z
    BY <2>2, Zenon DEF Min
  <2>4. Min({k, hidden}) \in Nat /\ Min({k, hidden}) > 0
        /\ Min({k, hidden}) <= k /\ Min({k, hidden}) <= hidden
        /\ (Min({k, hidden}) = k \/ Min({k, hidden}) = hidden)
    BY <2>1, <2>3
  <2> QED
    BY <2>4 DEF k
<1> HIDE DEF n
<1>3. ASSUME NEW x \in 1 .. n
      PROVE  /\ Sums(x) \in SUBSET Nat /\ IsFiniteSet(Sums(x)) /\ Sums(x) # {}
  <2>1. \A y \in Splits(x) : y \in 0 .. Len(a) /\ x - y \in 0 .. Len(b)
    BY <1>1, <1>2
  <2>2. Sums(x) \in SUBSET Nat
    BY <2>1, SentByNat
  <2>3. IsFiniteSet(Splits(x))
    <3>1. IsFiniteSet(0 .. x) /\ Splits(x) \subseteq 0 .. x
      BY FS_Interval
    <3> QED
      BY <3>1, FS_Subset
  <2>4. IsFiniteSet(Sums(x))
    <3> DEFINE f == [y \in Splits(x) |-> SentBy(a, y) + SentBy(b, x - y)]
    <3>1. f \in Surjection(Splits(x), Sums(x))
      BY DEF Surjection
    <3> QED
      BY <2>3, <3>1, FS_Surjection
  <2>5. Splits(x) # {}
    <3>1. CASE x <= Len(a)
      <4>1. x \in Splits(x)
        BY <1>1, <3>1
      <4> QED
        BY <4>1
    <3>2. CASE ~ (x <= Len(a))
      <4>1. Len(a) \in Splits(x)
        BY <1>1, <1>2, <3>2
      <4> QED
        BY <4>1
    <3> QED
      BY <3>1, <3>2
  <2> QED
    BY <2>2, <2>4, <2>5
<1>4. ASSUME NEW x \in 1 .. n
      PROVE  whole[x] \in Nat /\ whole[x] = Max(Sums(x))
  <2> HIDE DEF Sums
  <2>1. Max(Sums(x)) \in Nat
    BY <1>3, MaxIs
  <2> QED
    BY <2>1
<1> HIDE DEF whole
<1>9. \A x \in 1 .. n : whole[x] \in Nat
  <2> HIDE DEF Sums
  <2> QED
    BY <1>4
<1>5. /\ row \in Seq(Nat) /\ Len(row) = n
      /\ \A x \in 1 .. n : row[x] = whole[x]
  <2>1. /\ row \in Seq(Nat)
        /\ Len(row) = IF 1 <= n THEN n - 1 + 1 ELSE 0
        /\ \A x \in 1 .. n - 1 + 1 : row[x] = whole[1 + x - 1]
    <3>1. 1 \in Int /\ n \in Int /\ \A x \in 1 .. n : whole[x] \in Nat
      BY <1>2, <1>9
    <3> QED
      BY <3>1, SubSeqProperties
  <2> QED
    BY <1>2, <2>1
<1>6. IsRow(row)
  BY <1>2, <1>5 DEF IsRow
<1>7. ASSUME NEW y \in 0 .. Len(a), NEW z \in 0 .. Len(b), y + z > 0, y + z <= hidden
      PROVE  y + z \in 1 .. n /\ SentBy(a, y) + SentBy(b, z) <= row[y + z]
  <2>1. y + z \in 1 .. n
    BY <1>1, <1>2, <1>7
  <2>2. y \in Splits(y + z) /\ (y + z) - y = z
    BY <1>1
  <2>3. SentBy(a, y) + SentBy(b, z) \in Sums(y + z)
    BY <2>2
  <2>4. Sums(y + z) \in SUBSET Nat /\ IsFiniteSet(Sums(y + z))
    BY <1>3, <2>1
  <2> HIDE DEF Sums
  <2>5. SentBy(a, y) + SentBy(b, z) <= Max(Sums(y + z))
    BY <2>3, <2>4, MaxIs
  <2> QED
    BY <1>4, <1>5, <2>1, <2>5
<1>8. Joined(a, b, hidden) = row
  BY DEF Joined, row, whole, n
<1> QED
  BY <1>5, <1>6, <1>7, <1>8
\* row solves the equation by which MostSent goes through the tree.
WorstRows(row) ==
  \A l \in Level : \A k \in 0 .. npl[l]-1 :
    row[<<l, k>>] = IF k >= Inner(l) THEN <<0>>
                ELSE Joined(row[<<l+1, 2*k>>], row[<<l+1, 2*k + 1>>], T-W)

LevelOf(n)    == CHOOSE l \in Level : n - First[l] \in 0 .. npl[l]-1
RowAt(row, n) == row[<<LevelOf(n), n - First[LevelOf(n)]>>]

LEMMA RowOfNode ==
  ASSUME NEW row, NEW l \in Level, NEW k \in 0 .. npl[l]-1
  PROVE  RowAt(row, First[l] + k) = row[<<l, k>>]
<1> DEFINE n == First[l] + k
<1>1. First[l] \in Nat /\ npl[l] \in Nat /\ k \in Int
  BY LevelFacts
<1>2. n - First[l] = k /\ n - First[l] \in 0 .. npl[l]-1 /\ n \in Int
  BY <1>1
<1>3. LevelOf(n) \in Level /\ n - First[LevelOf(n)] \in 0 .. npl[LevelOf(n)]-1
  <2>1. \E m \in Level : n - First[m] \in 0 .. npl[m]-1
    BY <1>2
  <2> HIDE DEF n
  <2> QED
    BY <2>1, Zenon DEF LevelOf
<1> DEFINE m == LevelOf(n)
<1> HIDE DEF m
<1>4. m \in Level /\ n - First[m] \in 0 .. npl[m]-1
  BY <1>3 DEF m
<1>5. First[m] \in Nat
  BY <1>4, LevelFacts
<1>6. First[m] + (n - First[m]) = First[l] + k
  BY <1>1, <1>5
<1> HIDE DEF n
<1>7. m = l /\ n - First[m] = k
  BY <1>4, <1>6, OneLevel
<1>8. RowAt(row, n) = row[<<m, n - First[m]>>]
  BY DEF RowAt, m
<1>9. row[<<m, n - First[m]>>] = row[<<l, k>>]
  BY <1>7, Zenon
<1> QED
  BY <1>8, <1>9 DEF n

LEMMA RowsOfNodes ==
  ASSUME NEW row, WorstRows(row)
  PROVE  /\ RowAt(row, 0) = row[<<0, 0>>]
         /\ \A r \in Round : RowAt(row, LeafNode[r]) = <<0>>
         /\ \A f \in InnerNode :
              RowAt(row, f) = Joined(RowAt(row, Kid(f)), RowAt(row, Kid(f) + 1), T-W)
<1>1. RowAt(row, 0) = row[<<0, 0>>]
  <2>1. 0 \in Level /\ 0 \in 0 .. npl[0]-1 /\ First[0] + 0 = 0
    BY FirstNode, RoundAssumption DEF Level
  <2>2. RowAt(row, First[0] + 0) = row[<<0, 0>>]
    BY <2>1, RowOfNode
  <2> QED
    BY <2>1, <2>2
<1>2. ASSUME NEW r \in Round
      PROVE  RowAt(row, LeafNode[r]) = <<0>>
  <2> DEFINE n == LeafNode[r]
  <2>1. n \in Node /\ IsLeaf(n)
    BY LeafAssumption
  <2>2. PICK l \in Level : n - First[l] \in Inner(l) .. npl[l]-1
    BY <2>1 DEF IsLeaf
  <2> DEFINE k == n - First[l]
  <2>3. First[l] \in Nat /\ Inner(l) \in Nat /\ npl[l] \in Nat /\ n \in Nat
    BY <2>1, LevelFacts, RoundAssumption DEF Node
  <2> HIDE DEF n
  <2>4. k \in 0 .. npl[l]-1 /\ k >= Inner(l) /\ First[l] + k = n
    BY <2>2, <2>3
  <2> HIDE DEF k
  <2>5. RowAt(row, First[l] + k) = row[<<l, k>>]
    BY <2>4, RowOfNode
  <2>6. row[<<l, k>>] = <<0>>
    BY <2>4, Zenon DEF WorstRows
  <2> QED
    BY <2>4, <2>5, <2>6 DEF n
<1>3. ASSUME NEW f \in InnerNode
      PROVE  RowAt(row, f) = Joined(RowAt(row, Kid(f)), RowAt(row, Kid(f) + 1), T-W)
  <2>1. PICK l \in 0 .. LOG2T-1, k \in Nat : k \in 0 .. Inner(l)-1 /\ f = First[l] + k
    BY PlaceOf
  <2>2. /\ l \in Level /\ l+1 \in Level /\ k \in 0 .. npl[l]-1 /\ ~ (k >= Inner(l))
        /\ First[l+1] \in Nat
    BY <2>1, LevelBelow, LevelFacts
  <2>3. /\ Kid(f) = First[l+1] + 2*k
        /\ 2*k \in 0 .. npl[l+1]-1 /\ 2*k+1 \in 0 .. npl[l+1]-1
    BY <2>1, KidIs
  <2>4. Kid(f) + 1 = First[l+1] + (2*k + 1)
    BY <2>1, <2>2, <2>3
  <2>5. RowAt(row, First[l] + k) = row[<<l, k>>]
    BY <2>2, RowOfNode
  <2>6. RowAt(row, First[l+1] + 2*k) = row[<<l+1, 2*k>>]
    BY <2>2, <2>3, RowOfNode
  <2>7. RowAt(row, First[l+1] + (2*k + 1)) = row[<<l+1, 2*k + 1>>]
    BY <2>2, <2>3, RowOfNode
  <2>8. row[<<l, k>>] = Joined(row[<<l+1, 2*k>>], row[<<l+1, 2*k + 1>>], T-W)
    BY <2>2, Zenon DEF WorstRows
  <2> QED
    BY <2>1, <2>3, <2>4, <2>5, <2>6, <2>7, <2>8
<1> QED
  BY <1>1, <1>2, <1>3

\* A challenge of weight W hides the seeds of the other rounds.
LEMMA HiddenAll ==
  ASSUME chall_2 \in Challenges
  PROVE  /\ HiddenCount(0) = T-W
         /\ \A n \in Node : HiddenCount(n) \in Nat /\ HiddenCount(n) <= T-W
<1> DEFINE Z == {r \in Round : chall_2[r] = 0}
           O == {r \in Round : chall_2[r] = 1}
<1>1. chall_2 \in [Round -> 0..1] /\ Cardinality(O) = W
  BY DEF Challenges
<1>2. Cardinality(Round) = T
  BY FS_Interval, RoundAssumption DEF Round
<1>3. O \in SUBSET Round /\ Z \in SUBSET Round /\ Z \cup O = Round /\ Z \cap O = {}
  BY <1>1
<1> HIDE DEF Z, O
<1>4. IsFiniteSet(O) /\ IsFiniteSet(Z) /\ Cardinality(Z) \in Nat
  BY <1>3, RoundsFinite
<1>5. Cardinality(Z \cap O) = 0
  BY <1>3, FS_EmptySet
<1>6. Cardinality(Z \cup O) = Cardinality(Z) + Cardinality(O) - Cardinality(Z \cap O)
  BY <1>4, FS_Union
<1>7. Cardinality(Z) = T-W
  BY <1>1, <1>2, <1>3, <1>4, <1>5, <1>6, RoundAssumption
<1>8. HiddenRounds(0) = Z
  BY UnderRoot, LeavesApart DEF HiddenRounds, Z
<1>9. ASSUME NEW n \in Node
      PROVE  HiddenCount(n) \in Nat /\ HiddenCount(n) <= T-W
  <2>1. HiddenRounds(n) \subseteq Z /\ HiddenRounds(n) \in SUBSET Round
    BY DEF HiddenRounds, Z
  <2> QED
    BY <1>4, <1>7, <2>1, FS_Subset, RoundsFinite DEF HiddenCount
<1> QED
  BY <1>7, <1>8, <1>9 DEF HiddenCount
\* What holds of every node: it is published when nothing below it is hidden,
\* then nothing below it is sent, and otherwise no more than its row says.
Counted(s, q, n) ==
  /\ IsRow(q) /\ HiddenCount(n) <= Len(q)
  /\ s[n] = 1 <=> HiddenCount(n) = 0
  /\ s[n] = 1 => SentUnder(s, n) = {}
  /\ s[n] = 0 => SentInside(s, n) <= q[HiddenCount(n)]

LEMMA CountedLeaf ==
  ASSUME chall_2 \in Challenges, NEW s \in FlagArrays, LeavesFlagged(s), NEW r \in Round
  PROVE  Counted(s, <<0>>, LeafNode[r])
<1> DEFINE n == LeafNode[r]
<1>1. n \in Node /\ n \notin InnerNode
  BY LeavesApart
<1>2. Under(n) = {n}
  BY <1>1, UnderLeaf
<1>3. SentUnder(s, n) = {}
  BY <1>2 DEF SentUnder
<1>4. SentInside(s, n) = 0
  BY <1>3, FS_EmptySet DEF SentInside
<1>5. HiddenRounds(n) = IF chall_2[r] = 0 THEN {r} ELSE {}
  <2>1. \A q \in Round : LeafNode[q] \in Under(n) <=> q = r
    BY <1>2, LeafAssumption
  <2> QED
    BY <2>1 DEF HiddenRounds
<1>6. HiddenCount(n) = IF chall_2[r] = 0 THEN 1 ELSE 0
  BY <1>5, FS_EmptySet, FS_Singleton DEF HiddenCount
<1>7. s[n] = chall_2[r] /\ chall_2[r] \in 0..1
  BY DEF LeavesFlagged, Challenges
<1>8. IsRow(<<0>>) /\ Len(<<0>>) = 1 /\ <<0>>[1] = 0
  BY DEF IsRow
<1> HIDE DEF n
<1> QED
  BY <1>3, <1>4, <1>6, <1>7, <1>8 DEF Counted, n

\* What a child adds is what its row says.
LEMMA AddsBySent ==
  ASSUME NEW s \in FlagArrays, NEW q, NEW n \in Node, Counted(s, q, n), HiddenCount(n) \in Nat
  PROVE  /\ HiddenCount(n) \in 0 .. Len(q)
         /\ Cardinality(Adds(s, n)) <= SentBy(q, HiddenCount(n))
<1>1. Len(q) \in Nat /\ HiddenCount(n) \in 0 .. Len(q)
  BY DEF Counted, IsRow
<1>2. s[n] \in 0..1
  BY DEF FlagArrays
<1>3. CASE s[n] = 1
  <2>1. HiddenCount(n) = 0 /\ Cardinality(Adds(s, n)) = 1
    BY <1>3, FS_Singleton DEF Counted, Adds
  <2> QED
    BY <1>1, <2>1 DEF SentBy
<1>4. CASE s[n] = 0
  <2>1. /\ HiddenCount(n) # 0 /\ Adds(s, n) = SentUnder(s, n)
        /\ SentInside(s, n) <= q[HiddenCount(n)]
    BY <1>4 DEF Counted, Adds
  <2> QED
    BY <1>1, <2>1 DEF SentBy, SentInside
<1> QED
  BY <1>2, <1>3, <1>4
LEMMA CountedFather ==
  ASSUME chall_2 \in Challenges, NEW s \in FlagArrays, AndOn(s, InnerNode),
         NEW f \in InnerNode, NEW qa, NEW qb,
         Counted(s, qa, Kid(f)), Counted(s, qb, Kid(f) + 1)
  PROVE  Counted(s, Joined(qa, qb, T-W), f)
<1> DEFINE a == Kid(f)
           b == Kid(f) + 1
           q == Joined(qa, qb, T-W)
           y == HiddenCount(a)
           z == HiddenCount(b)
<1>1. f \in Node /\ a \in Node /\ b \in Node /\ T-W \in Nat \ {0}
  BY KidFacts, RoundAssumption
<1>2. HiddenCount(f) = y + z /\ y \in Nat /\ z \in Nat /\ y + z <= T-W
  BY <1>1, HiddenSplits, HiddenAll
<1>3. s[f] \in 0..1 /\ s[a] \in 0..1 /\ s[b] \in 0..1
  BY <1>1 DEF FlagArrays
<1>4. s[f] = 1 <=> s[a] = 1 /\ s[b] = 1
  BY <1>3 DEF AndOn, BothSet
<1>5. (s[a] = 1 <=> y = 0) /\ (s[b] = 1 <=> z = 0) /\ IsRow(qa) /\ IsRow(qb)
  BY DEF Counted
<1>6. s[f] = 1 <=> HiddenCount(f) = 0
  BY <1>2, <1>4, <1>5
<1>7. /\ y \in 0 .. Len(qa) /\ Cardinality(Adds(s, a)) <= SentBy(qa, y)
      /\ z \in 0 .. Len(qb) /\ Cardinality(Adds(s, b)) <= SentBy(qb, z)
  BY <1>1, <1>2, AddsBySent
<1>8. /\ IsRow(q)
      /\ y + z > 0 => y + z \in 1 .. Len(q) /\ SentBy(qa, y) + SentBy(qb, z) <= q[y + z]
  BY <1>1, <1>2, <1>5, <1>7, JoinedRow
<1>9. HiddenCount(f) <= Len(q)
  BY <1>2, <1>8 DEF IsRow
<1>10. (s[a] = 1 => SentUnder(s, a) = {}) /\ (s[b] = 1 => SentUnder(s, b) = {})
  BY DEF Counted
<1>11. ASSUME s[f] = 1
       PROVE  SentUnder(s, f) = {}
  <2>1. SUFFICES ASSUME NEW m \in SentUnder(s, f)
                 PROVE  FALSE
    OBVIOUS
  <2>2. m \in SentTo(s, AllNodes) /\ (m \in Under(a) \/ m \in Under(b))
    BY UnderSplits DEF SentUnder
  <2>3. PICK g \in InnerNode : KidOf(m, g) /\ s[g] = 0
    BY <2>2 DEF SentTo
  <2>4. m # a /\ m # b
    <3>1. g # f
      BY <1>11, <2>3
    <3> QED
      BY <2>3, <3>1, OneFather DEF KidOf
  <2>5. m \in SentUnder(s, a) \/ m \in SentUnder(s, b)
    BY <2>2, <2>4 DEF SentUnder
  <2> QED
    BY <1>4, <1>10, <1>11, <2>5
<1>12. ASSUME s[f] = 0
       PROVE  SentInside(s, f) <= q[HiddenCount(f)]
  <2>1. SentInside(s, f) <= Cardinality(Adds(s, a)) + Cardinality(Adds(s, b))
    BY <1>10, <1>12, SentSplits
  <2>2. y + z > 0
    BY <1>2, <1>6, <1>12
  <2>3. y + z \in 1 .. Len(q) /\ SentBy(qa, y) + SentBy(qb, z) <= q[y + z]
    BY <1>8, <2>2
  <2>4. /\ Adds(s, a) \in SUBSET Node /\ Adds(s, b) \in SUBSET Node
        /\ SentUnder(s, f) \in SUBSET Node
    BY <1>1 DEF Adds, SentUnder, SentTo
  <2>5. /\ Cardinality(Adds(s, a)) \in Nat /\ Cardinality(Adds(s, b)) \in Nat
        /\ SentInside(s, f) \in Nat
    BY <2>4, NodesFinite DEF SentInside
  <2>6. SentBy(qa, y) \in Nat /\ SentBy(qb, z) \in Nat
    BY <1>5, <1>7, SentByNat
  <2>7. q[y + z] \in Nat
    BY <1>8, <2>3 DEF IsRow
  <2> HIDE DEF q, y, z, a, b
  <2> QED
    BY <1>2, <1>7, <2>1, <2>3, <2>5, <2>6, <2>7
<1> QED
  BY <1>6, <1>8, <1>9, <1>11, <1>12 DEF Counted

\* No challenge makes seed_path send more nodes than MostSent says.
LEMMA SentAtMost ==
  ASSUME chall_2 \in Challenges,
         NEW s \in FlagArrays, LeavesFlagged(s), AndOn(s, InnerNode),
         NEW row, WorstRows(row)
  PROVE  /\ row[<<0, 0>>][T-W] \in Nat
         /\ CountTo(s, AllNodes) <= row[<<0, 0>>][T-W]
<1> DEFINE Bad == {n \in Node : ~ Counted(s, RowAt(row, n), n)}
<1>1. Bad = {}
  <2>1. SUFFICES ASSUME Bad # {}
                 PROVE  FALSE
    OBVIOUS
  <2>2. Bad \in SUBSET Node
    OBVIOUS
  <2>3. PICK n \in Bad : \A m \in Bad : m <= n
    BY <2>1, <2>2, LastNode
  <2>4. n \in Node /\ ~ Counted(s, RowAt(row, n), n) /\ Known(n)
    BY AllKnown
  <2>5. CASE \E r \in Round : LeafNode[r] = n
    BY <2>4, <2>5, CountedLeaf, RowsOfNodes
  <2>6. CASE n \in InnerNode
    <3>1. /\ n \in Nat /\ Kid(n) \in Nat /\ n < Kid(n)
          /\ Kid(n) \in Node /\ Kid(n) + 1 \in Node
      BY <2>6, KidFacts
    <3>2. Kid(n) \notin Bad /\ Kid(n) + 1 \notin Bad
      <4>1. ~ (Kid(n) <= n) /\ ~ (Kid(n) + 1 <= n)
        BY <3>1
      <4> QED
        BY <2>3, <4>1
    <3>3. Counted(s, RowAt(row, Kid(n)), Kid(n)) /\ Counted(s, RowAt(row, Kid(n) + 1), Kid(n) + 1)
      BY <3>1, <3>2
    <3>4. Counted(s, Joined(RowAt(row, Kid(n)), RowAt(row, Kid(n) + 1), T-W), n)
      BY <2>6, <3>3, CountedFather
    <3> QED
      BY <2>4, <2>6, <3>4, RowsOfNodes
  <2> QED
    BY <2>4, <2>5, <2>6 DEF Known
<1>2. 0 \in Node /\ Under(0) = Node
  BY UnderRoot
<1>3. Counted(s, row[<<0, 0>>], 0)
  <2>1. Counted(s, RowAt(row, 0), 0)
    BY <1>1, <1>2
  <2> QED
    BY <2>1, RowsOfNodes
<1>4. HiddenCount(0) = T-W /\ T-W \in Nat /\ T-W # 0
  BY HiddenAll, RoundAssumption
<1>5. SentUnder(s, 0) = SentTo(s, AllNodes)
  <2>1. \A m \in SentTo(s, AllNodes) : m \in Node /\ m # 0
    BY KidFacts DEF SentTo, KidOf
  <2> QED
    BY <1>2, <2>1 DEF SentUnder
<1>6. s[0] = 0
  BY <1>2, <1>3, <1>4 DEF Counted, FlagArrays
<1>7. row[<<0, 0>>] \in Seq(Nat) /\ T-W <= Len(row[<<0, 0>>]) /\ T-W \in 1 .. Len(row[<<0, 0>>])
  BY <1>3, <1>4 DEF Counted, IsRow
<1>8. SentInside(s, 0) <= row[<<0, 0>>][T-W]
  BY <1>3, <1>4, <1>6 DEF Counted
<1> QED
  BY <1>5, <1>7, <1>8 DEF SentInside, CountTo
-----------------------------------------------------------------------------
(* The buffers of the path and of the proof are large enough.              *)

LEMMA CountAtMost ==
  ASSUME NEW s, NEW p
  PROVE  CountTo(s, p) <= CountTo(s, AllNodes) /\ CountTo(s, p) \in Nat
         /\ CountTo(s, AllNodes) \in Nat
<1>1. \A n \in Node : n < AllNodes
  BY RoundAssumption DEF Node, AllNodes
<1>2. SentTo(s, p) \subseteq SentTo(s, AllNodes)
  BY <1>1 DEF SentTo
<1>3. Cardinality(SentTo(s, p)) <= Cardinality(SentTo(s, AllNodes))
  BY <1>2, SentFinite, FS_Subset
<1> QED
  BY <1>3, SentFinite DEF CountTo

\* What compute_seeds_to_publish comes to, and what tree_proof comes to.
PublishedFlags == [n \in Node |-> IF HiddenCount(n) = 0 THEN 1 ELSE 0]
ComputedFlags  == [n \in Node |-> IF HiddenCount(n) = 0 THEN 0 ELSE 1]

LEMMA FinalFlags ==
  ASSUME chall_2 \in Challenges
  PROVE  /\ PublishedFlags \in FlagArrays /\ LeavesFlagged(PublishedFlags)
         /\ AndOn(PublishedFlags, InnerNode)
         /\ ComputedFlags \in Flags /\ LeafFlags(ComputedFlags) /\ OrFrom(ComputedFlags, 0)
<1>1. ASSUME NEW r \in Round
      PROVE  /\ LeafNode[r] \in Node /\ chall_2[r] \in 0..1
             /\ HiddenCount(LeafNode[r]) = 0 <=> chall_2[r] = 1
  <2>1. LeafNode[r] \in Node /\ LeafNode[r] \notin InnerNode /\ chall_2[r] \in 0..1
    BY LeavesApart DEF Challenges
  <2>2. Under(LeafNode[r]) = {LeafNode[r]}
    BY <2>1, UnderLeaf
  <2>3. \A q \in Round : LeafNode[q] \in Under(LeafNode[r]) <=> q = r
    BY <2>2, LeafAssumption
  <2>4. HiddenRounds(LeafNode[r]) = IF chall_2[r] = 0 THEN {r} ELSE {}
    BY <2>3 DEF HiddenRounds
  <2>5. HiddenCount(LeafNode[r]) = IF chall_2[r] = 0 THEN 1 ELSE 0
    BY <2>4, FS_EmptySet, FS_Singleton DEF HiddenCount
  <2> QED
    BY <2>1, <2>5
<1>2. ASSUME NEW f \in InnerNode
      PROVE  /\ f \in Node /\ Kid(f) \in Node /\ Kid(f) + 1 \in Node
             /\ HiddenCount(f) = 0 <=> HiddenCount(Kid(f)) = 0 /\ HiddenCount(Kid(f) + 1) = 0
  BY KidFacts, HiddenSplits
<1>3. LeavesFlagged(PublishedFlags)
  BY <1>1 DEF LeavesFlagged, PublishedFlags
<1>4. LeafFlags(ComputedFlags)
  BY <1>1 DEF LeafFlags, ComputedFlags
<1>5. AndOn(PublishedFlags, InnerNode)
  BY <1>2 DEF AndOn, BothSet, PublishedFlags
<1>6. OrFrom(ComputedFlags, 0)
  BY <1>2 DEF OrFrom, Computes, ComputedFlags
<1>7. PublishedFlags \in FlagArrays /\ ComputedFlags \in Flags
  BY DEF PublishedFlags, ComputedFlags, FlagArrays, Flags
<1> QED
  BY <1>3, <1>4, <1>5, <1>6, <1>7

\* tree_proof has no other flags on its way.
LEMMA FlagsOnTheWay ==
  ASSUME chall_2 \in Challenges,
         NEW c \in Flags, NEW a \in Int, LeafFlags(c), OrFrom(c, a)
  PROVE  SlotsFrom(c, a) <= SlotsFrom(ComputedFlags, 0)
<1> DEFINE d   == ComputedFlags
           Bad == {n \in Node : (n \in InnerNode => n >= a) /\ c[n] # d[n]}
<1>1. d \in Flags /\ LeafFlags(d) /\ OrFrom(d, 0)
  BY FinalFlags
<1> HIDE DEF d
<1>2. \A f \in InnerNode : f \in Nat /\ f \in Node
  BY KidFacts
<1>3. Bad = {}
  <2>1. SUFFICES ASSUME Bad # {}
                 PROVE  FALSE
    OBVIOUS
  <2>2. Bad \in SUBSET Node
    OBVIOUS
  <2>3. PICK n \in Bad : \A m \in Bad : m <= n
    BY <2>1, <2>2, LastNode
  <2>4. n \in Node /\ (n \in InnerNode => n >= a) /\ c[n] # d[n] /\ Known(n)
    BY AllKnown
  <2>5. CASE \E r \in Round : LeafNode[r] = n
    BY <1>1, <2>4, <2>5 DEF LeafFlags
  <2>6. CASE n \in InnerNode
    <3>1. /\ n \in Nat /\ Kid(n) \in Nat /\ n < Kid(n) /\ n >= a
          /\ Kid(n) \in Node /\ Kid(n) + 1 \in Node
      BY <2>4, <2>6, KidFacts
    <3>2. Kid(n) \notin Bad /\ Kid(n) + 1 \notin Bad
      <4>1. ~ (Kid(n) <= n) /\ ~ (Kid(n) + 1 <= n)
        BY <3>1
      <4> QED
        BY <2>3, <4>1
    <3>3. Kid(n) >= a /\ Kid(n) + 1 >= a
      BY <3>1
    <3>4. c[Kid(n)] = d[Kid(n)] /\ c[Kid(n) + 1] = d[Kid(n) + 1]
      BY <3>1, <3>2, <3>3
    <3>5. c[n] = (IF Computes(c, n) THEN 1 ELSE 0) /\ d[n] = (IF Computes(d, n) THEN 1 ELSE 0)
      BY <1>1, <2>6, <3>1 DEF OrFrom
    <3> QED
      BY <2>4, <3>4, <3>5 DEF Computes
  <2> QED
    BY <2>4, <2>5, <2>6 DEF Known
<1>4. Mixed(c, a) \subseteq Mixed(d, 0)
  <2>1. SUFFICES ASSUME NEW f \in InnerNode, f >= a, c[Kid(f)] # c[Kid(f) + 1]
                 PROVE  f >= 0 /\ d[Kid(f)] # d[Kid(f) + 1]
    BY DEF Mixed
  <2>2. f \in Nat /\ Kid(f) \in Nat /\ f < Kid(f) /\ Kid(f) \in Node /\ Kid(f) + 1 \in Node
    BY KidFacts
  <2>3. Kid(f) >= a /\ Kid(f) + 1 >= a
    BY <2>1, <2>2
  <2>4. c[Kid(f)] = d[Kid(f)] /\ c[Kid(f) + 1] = d[Kid(f) + 1]
    BY <1>3, <2>2, <2>3
  <2> QED
    BY <2>1, <2>2, <2>4
<1>5. Cardinality(Mixed(c, a)) <= Cardinality(Mixed(d, 0))
  BY <1>4, MixedFinite, FS_Subset
<1> QED
  BY <1>5 DEF SlotsFrom, d

\* seed_path never writes behind the buffer of the signature when the worst
\* challenge fits: the number it has stored is bounded by the solution of the
\* equation of MostSent, whatever the challenge and the shape of the tree.
THEOREM PathFitsHolds ==
  ASSUME NEW row, WorstRows(row), row[<<0, 0>>][T-W] <= NodesToStore
  PROVE  SeedTreeSpec => []PathFits
<1>1. SeedInvariant => PathFits
  <2>1. SUFFICES ASSUME SeedInvariant
                 PROVE  num_seeds_published <= NodesToStore
    BY DEF PathFits
  <2>2. NodesToStore \in Nat
    BY RoundAssumption
  <2>3. CASE Unpublished
    BY <2>1, <2>2, <2>3 DEF SeedInvariant, Sending
  <2>4. CASE ~ Unpublished
    <3>1. seed_at = "seed_path" \/ OnItsWay
      BY <2>1, <2>4
         DEF SeedInvariant, SeedShape, Whose, Party, Unpublished, Early, OnItsWay
    <3>2. Published /\ ~ Early
      BY <2>1, <2>4, <3>1
         DEF Published, OnItsWay, Unpublished
    <3>3. /\ chall_2 \in Challenges /\ SignerFlagTree \in FlagArrays
          /\ LeavesFlagged(SignerFlagTree) /\ AndOn(SignerFlagTree, InnerNode)
      BY <2>1, <3>2 DEF SeedInvariant, SeedShape, Chosen, Marked, SignerFlagTree, Party
    <3>4. \E p : num_seeds_published = CountTo(SignerFlagTree, p)
      BY <2>1, <3>1 DEF SeedInvariant, Sending
    <3>5. /\ CountTo(SignerFlagTree, AllNodes) <= row[<<0, 0>>][T-W]
          /\ row[<<0, 0>>][T-W] \in Nat
      BY <3>3, SentAtMost
    <3> QED
      BY <2>2, <3>4, <3>5, CountAtMost
  <2> QED
    BY <2>3, <2>4
<1> QED
  BY <1>1, SeedInvariantHolds, PTL

\* The same of tree_proof and of the digests it stores.
THEOREM ProofFitsHolds ==
  ASSUME NEW row, WorstRows(row), row[<<0, 0>>][T-W] <= NodesToStore
  PROVE  MerkleTreeSpec => []ProofFits
<1>1. MerkleInvariant => ProofFits
  <2>1. SUFFICES ASSUME MerkleInvariant
                 PROVE  published["signer"] <= NodesToStore
    BY DEF ProofFits
  <2>2. NodesToStore \in Nat
    BY RoundAssumption
  <2>3. CASE mk_at \in AtCommitting
    BY <2>1, <2>2, <2>3 DEF MerkleInvariant, Unsent
  <2>4. CASE mk_at \notin AtCommitting
    <3>1. mk_at = "tree_proof" \/ mk_at \in AtSent
      BY <2>1, <2>4 DEF MerkleInvariant, MerkleShape
    <3>2. chall_2 \in Challenges /\ SFlags \in Flags
      BY <2>1, <3>1 DEF MerkleInvariant, Challenged, MerkleShape, SFlags, Party
    <3>3. PICK a \in Int : /\ LeafFlags(SFlags) /\ OrFrom(SFlags, a)
                           /\ published["signer"] = SlotsFrom(SFlags, a)
      <4>1. CASE mk_at = "tree_proof"
        <5>1. /\ At /\ LeafFlags(SFlags) /\ OrFrom(SFlags, Here)
              /\ published["signer"] = SlotsFrom(SFlags, Here)
          BY <2>1, <4>1 DEF MerkleInvariant, Making
        <5>2. Here \in Int
          BY <5>1, PlaceFacts DEF At, Here
        <5> QED
          BY <5>1, <5>2
      <4>2. CASE mk_at \in AtSent
        BY <2>1, <4>2 DEF MerkleInvariant, Made
      <4> QED
        BY <3>1, <4>1, <4>2
    <3>4. SlotsFrom(SFlags, a) <= SlotsFrom(ComputedFlags, 0)
      BY <3>2, <3>3, FlagsOnTheWay
    <3>5. CountTo(PublishedFlags, AllNodes) = SlotsFrom(ComputedFlags, 0)
      <4>1. chall_2 \in [Round -> 0..1]
        BY <3>2 DEF Challenges
      <4> QED
        BY <3>2, <4>1, FinalFlags, SameCount
    <3>6. /\ CountTo(PublishedFlags, AllNodes) <= row[<<0, 0>>][T-W]
          /\ row[<<0, 0>>][T-W] \in Nat
      BY <3>2, FinalFlags, SentAtMost
    <3>7. SlotsFrom(SFlags, a) \in Nat /\ SlotsFrom(ComputedFlags, 0) \in Nat
      BY MixedFinite
    <3> QED
      BY <2>2, <3>3, <3>4, <3>5, <3>6, <3>7
  <2> QED
    BY <2>3, <2>4
<1> QED
  BY <1>1, MerkleInvariantHolds, PTL
==============================================================================
