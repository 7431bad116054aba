SPECIFICATION MCSpec
CONSTANTS
  M = 25
  K = 36
  FzElem <- MCFzElem
  FpElem <- MCFpElem
  WORD <- MCWord
INVARIANTS ExponentRight SyndromeRight
  TreeFits StoreSuffices
