SPECIFICATION Spec
CONSTANTS
  Threads = {t1, t2}
  Randoms = {2, 5}
INVARIANTS OwnBufferMatches
CHECK_DEADLOCK FALSE
