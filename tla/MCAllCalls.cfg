SPECIFICATION CallsSpec
CONSTANTS
  HostErrs <- SomeHostErrs
  AppErrs <- SomeAppErrs
  Failures = {35}
  Symbols <- SomeSymbols
  Names <- SomeNames
  RuleSets <- SomeRules
  FlagWords <- SomeFlags
  PtrValue = 100
  Options <- SomeOptions
  Addresses <- SomeAddresses
  Hints <- SomeHints
  HostLists <- SomeLists
  HostIfs <- SomeIfs
  StackSizes = {1, 5}
  StackMin = 4
  Priorities = {0, 7}
INVARIANTS CallsTypeOK SuccessKeepsErrno SameFile BlocksOwned AnswersAgree
PROPERTIES OneErrno PolicyRestored
