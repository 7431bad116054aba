SPECIFICATION FairSpec
CONSTANTS
  T = 9
  W = 6
  LOG2T = 4
  off <- MCOff
  npl <- MCNpl
  lpl <- MCLpl
  First <- MCFirst
  LeafStart <- MCLeafStart
  ConsLeaves <- MCConsLeaves
  NodesToStore = 5
  RootSeed <- MCRootSeed
  Zero <- MCZero
  Altered <- MCAlteredSeed
  Xof <- MCXof
  Hash2 <- MCHash2
  NoDigest <- MCZero
  Unset <- MCGarbage
  AlteredDigest <- MCAltered
  Y <- MCY
  V <- MCV
  Syndrome <- MCSyndrome
  Hash <- MCHash
  Empty <- MCZero
  Garbage <- MCGarbage
  AlteredValue <- MCAltered
  Restricted <- MCRestricted
  CwstrBytes = 9
INVARIANTS
  TypeOK
  WeightKept
  PathFits RebuiltSeeds HiddenSeeds PathUsedUp SeedsDistinct
  TreeComplete RecomputedRoot ProofUsedUp
  OwnCommitments VerifierAgrees
  VerdictRight
PROPERTIES
  ImplementsParts
  Completes
