CONSTANTS
  Clusters <- MCClusters
  WaitAttempts = 3
  MaxFaults = 5
SPECIFICATION FairSpec
INVARIANTS IInv OwnRank OnePeerProcess
PROPERTIES SessionForms
