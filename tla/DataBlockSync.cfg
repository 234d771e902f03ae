SPECIFICATION FairSpec
CONSTANTS
  Contents = {a, b}
  BufferSize = 1
  MaxBlocks = 3
  MaxFaults = 2
INVARIANTS NeverRefused MetaHasData IInv
PROPERTIES ImplementsLog ReachesUnlessStuck
