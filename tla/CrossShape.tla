------------------------------ MODULE CrossShape ------------------------------
(***************************************************************************)
(* Trees of CROSS as records with the numbers parameters.h gives for them: *)
(* whether those describe a tree with t leaves, and how many of its nodes  *)
(* a challenge that publishes w leaves can make one side send.  Levels are *)
(* counted from 0, sequences from 1.                                       *)
(***************************************************************************)
EXTENDS Integers, Sequences, Folds, Functions, FiniteSetsExt

InnerOf(tree, l) == tree.npl[l+1] - tree.lpl[l+1]

\* The first node of level l.
FirstOf(tree, l) == FoldFunctionOnSet(+, 0, tree.npl, 1 .. l)

\* Every inner node has two children on the next level, where TREE_OFFSETS
\* leads to.
LevelsFit(tree) ==
  /\ tree.npl[1] = 1 /\ InnerOf(tree, tree.log2) = 0
  /\ FirstOf(tree, tree.log2 + 1) = 2 * tree.t - 1
  /\ \A l \in 0 .. tree.log2 - 1 :
       /\ tree.npl[l+2] = 2 * InnerOf(tree, l)
       /\ FirstOf(tree, l+1) = 2 * FirstOf(tree, l) + 1 - tree.off[l+1]

\* The blocks of leaves are the right ends of different levels, from the
\* lowest one up, and hold all leaves.
BlocksFit(tree) ==
  LET BlockAt(s, l) == /\ tree.start[s] = FirstOf(tree, l) + InnerOf(tree, l)
                       /\ tree.leaves[s] = tree.lpl[l+1]
  IN  /\ FoldFunction(+, 0, tree.leaves) = tree.t
      /\ \A s \in DOMAIN tree.start : \E l \in 0 .. tree.log2 : BlockAt(s, l)
      /\ \A s \in 2 .. Len(tree.start) : tree.start[s] < tree.start[s-1]

-----------------------------------------------------------------------------
(* For a subtree that can hide up to n leaves, its row is a sequence of    *)
(* length n: the largest number of published nodes with an unpublished     *)
(* father when x of its leaves are hidden.                                 *)

\* A subtree without a hidden leaf is sent as one node.
SentBy(row, x) == IF x = 0 THEN 1 ELSE row[x]

Joined(a, b, hidden) ==
  LET n         == Min({Len(a) + Len(b), hidden})
      Splits(x) == {y \in 0 .. x : y <= Len(a) /\ x - y <= Len(b)}
  IN  SubSeq([x \in 1 .. n |->
                Max({SentBy(a, y) + SentBy(b, x-y) : y \in Splits(x)})], 1, n)

\* The largest number of nodes any challenge makes one side send: row[l, k]
\* is that of the node at place k of level l.
MostSent(tree) ==
  LET hidden == tree.t - tree.w
      row[l \in 0 .. tree.log2, k \in Nat] ==
        IF k >= InnerOf(tree, l) THEN <<0>>
        ELSE Joined(row[l+1, 2*k], row[l+1, 2*k + 1], hidden)
  IN  row[0, 0][hidden]
===============================================================================
