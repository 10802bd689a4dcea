SPECIFICATION FairSpec
CONSTANTS
  c1 = c1
  c2 = c2
  Threads = {t1, t2, t3}
  Controls = {c1, c2}
  Nests <- InOrder
INVARIANTS TypeOK RunsOnce ReturnsAfterRun
PROPERTY CallsReturn
CHECK_DEADLOCK FALSE
