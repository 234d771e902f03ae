SPECIFICATION FairSpec
CONSTANTS
  Keys = {"start", "data"}
  DataKeys = {"data"}
  KeyOf <- MCKeyOf
  Streams = {g1, g2}
  NoStream = nullptr
  MaxSeq = 4
  MaxFailures = 2
INVARIANTS NoMessageLost OneOwner DataReturnedOnce
PROPERTIES ImplementsChannel DeliveredUnlessStuck RecoversUnlessStuck
CHECK_DEADLOCK FALSE
