SPECIFICATION StackSpec
CONSTANTS
  Nodes = {n1, n2, n3}
  Null = Null
  MaxPush = 4
INVARIANTS StackTypeOK ExactlyOnce
PROPERTIES NewestFirst ExitEnds
CHECK_DEADLOCK FALSE
