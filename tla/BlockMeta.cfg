CONSTANTS
  Partitions <- MCPartitions
  Contents = {a, b}
  MaxBlocks <- MCMaxBlocks
  MaxRequests = 1
  MaxFaults = 3
SPECIFICATION FairSpec
INVARIANT RowIsBlock
PROPERTY EveryBlockRegistered
CHECK_DEADLOCK FALSE
