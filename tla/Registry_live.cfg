SPECIFICATION FairSpec
CONSTANTS
  Workers = {w1, w2}
  LockTimes = 3
  LockTtl = 1
  MaxFaults = 0
PROPERTIES StartsUnlessLost
CHECK_DEADLOCK FALSE
