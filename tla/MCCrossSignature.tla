--------------------------- MODULE MCCrossSignature ---------------------------
(***************************************************************************)
(* CrossSignature on a tree of 9 leaves that is truncated as the one of    *)
(* the 256 bit parameter set is: one block of leaves ends far above the    *)
(* lowest level.  The levels below the root have 2, 2, 4 and 8 nodes and   *)
(* the number of rounds is odd: every way through the unrolled loops is    *)
(* taken, and as many nodes are stored as the worst challenge needs.       *)
(*                                                                         *)
(* Digests and responses are terms, seeds are numbers that stand for       *)
(* terms: two are equal only when they were computed in the same way.      *)
(***************************************************************************)
EXTENDS CrossSignature, CrossShape

PerLevel(s) == [l \in 0 .. Len(s)-1 |-> s[l+1]]

MCTree ==
  [t |-> 9, w |-> 6, log2 |-> 4,
   off |-> <<0, 0, 2, 2, 2>>, npl |-> <<1, 2, 2, 4, 8>>, lpl |-> <<0, 1, 0, 0, 8>>,
   start |-> <<9, 2>>, leaves |-> <<8, 1>>, store |-> 5]

MCOff        == PerLevel(MCTree.off)
MCNpl        == PerLevel(MCTree.npl)
MCLpl        == PerLevel(MCTree.lpl)
MCFirst      == PerLevel(<<0, 1, 3, 5, 9, 17>>)
MCLeafStart  == MCTree.start
MCConsLeaves == MCTree.leaves

ASSUME LevelsFit(MCTree) /\ BlocksFit(MCTree) /\ MostSent(MCTree) = NodesToStore

Seed(s)           == <<s>>
MCRootSeed        == Seed(39)
MCZero            == Seed(0)
MCXof(s, d, h)    == Seed(40*s[1] + 2*d + h + 1)
MCAlteredSeed     == {Seed(-1)}

MCHash(m, d)      == <<"hash", m, d>>
MCHash2(a, b)     == <<"node", a, b>>
MCY(s)            == <<"y", s>>
MCV(s)            == <<"v", s>>
MCSyndrome(yy, v) == IF yy[1] = "y" /\ v[1] = "v" /\ yy[2] = v[2]
                     THEN <<"syndrome", yy[2]>> ELSE <<"syndrome", yy, v>>
MCGarbage         == <<"garbage", "">>
MCAltered         == {<<"altered", "">>}
MCRestricted(v)   == v # <<"altered", "">>
===============================================================================
