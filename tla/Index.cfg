SPECIFICATION FairSpec
CONSTANTS
  Setups <- IndexSetups
INVARIANTS IndexLinked UpdatedIndexOnChain
PROPERTIES RollbackOnChain IndexCatchesUp
CHECK_DEADLOCK FALSE
