SPECIFICATION LockSpec
CONSTANTS
  Workers = {w1, w2}
  LockTimes = 2
  LockTtl = 1
  MaxFaults = 0
INVARIANT AcknowledgedKept
CHECK_DEADLOCK FALSE
