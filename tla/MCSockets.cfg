SPECIFICATION Spec
CONSTANTS
  Threads = {t1, t2}
  NoTime = NoTime
  Kinds <- SomeKinds
  Rooms = {0, 16}
  Timeouts = {3}
  Backlog = 1
  VLen = 2
INVARIANTS STypeOK NothingLost DeadlineKept OptionRestored
PROPERTIES TimedReceiveReturns
