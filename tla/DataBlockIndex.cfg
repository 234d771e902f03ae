SPECIFICATION FairSearch
CONSTANT Threshold = 40
INVARIANT FindsLast
PROPERTIES Ends
CHECK_DEADLOCK FALSE
