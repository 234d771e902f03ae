SPECIFICATION FairFlow
CONSTANTS
  HashedIds <- MCIds
  Inputs <- MCInputs
  Offers <- MCOffers
  Batch = 2
  Window = 1
  MaxLinkErrors = 2
INVARIANTS FlowInv TakesCommon
PROPERTIES BothReturn EndsUnlessReceiverDies
