SPECIFICATION FairSpec
CONSTANTS
  Keys = {"start", "data", "grad"}
  DataKeys = {"data", "grad"}
  KeyOf <- MCKeyOf
  MaxSeq = 6
INVARIANTS DataReturnedOnce
PROPERTIES ImplementsChannel EventuallyReturned
