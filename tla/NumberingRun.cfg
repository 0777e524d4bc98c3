SPECIFICATION NumberingFairSpec
CONSTANTS
  nbi = nbi
  msa = msa
  Tx = {t1, t2, t3}
  Scope = {nbi, msa, NoBranch}
  NoBranch = NoBranch
  Nobody = Nobody
  ExistingScopes <- NbiRow
  Issued <- OneEach
  BranchInPattern = FALSE
  HasFallback = TRUE
INVARIANTS NoCollisionInRow NumbersWithoutGap
PROPERTY EveryDocumentEnds
CHECK_DEADLOCK FALSE
