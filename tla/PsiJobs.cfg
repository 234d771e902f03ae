SPECIFICATION FairSpec
CONSTANTS
  Ids <- MCIds
  Numeric <- MCNumeric
  HashOf <- MCHashOf
  Scenarios <- MCScenarios
  MaxFaults = 1
INVARIANTS IInv BlocksWorkedOnce ExactResult ReportedCounts
PROPERTIES BothSucceed EndsUnlessHung
