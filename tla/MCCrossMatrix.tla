---------------------------- MODULE MCCrossMatrix ----------------------------
(***************************************************************************)
(* The numbers of the parameter sets: either a column of a product with    *)
(* the 128 bit set and the elements at both ends of each range, or the     *)
(* tree of one of the sets.  TLC's integers are too small for 2^32; with a *)
(* narrower word sums wrap around earlier.                                 *)
(***************************************************************************)
EXTENDS CrossMatrix, CrossParameters

MCFzElem == {0, 1, 126}
MCWord   == 2^25
MCFpElem == {0, 1, 508}

MCInit == Init /\ tree \in Trees \cup {NoTree}
MCNext == /\ \/ tree = NoTree /\ Next
             \/ tree # NoTree /\ UNCHANGED vars
          /\ UNCHANGED tree
MCSpec == MCInit /\ [][MCNext]_<<vars, tree>>
===============================================================================
