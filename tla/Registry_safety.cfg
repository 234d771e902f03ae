SPECIFICATION Spec
CONSTANTS
  Workers = {w1, w2}
  LockTimes = 2
  LockTtl = 1
  MaxFaults = 1
SYMMETRY Symmetry
INVARIANTS CompleteMeansAll KeptUnlessStaleWrite
CHECK_DEADLOCK FALSE
