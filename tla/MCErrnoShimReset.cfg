SPECIFICATION Spec
CONSTANTS
  HostErrs <- SomeHostErrs
  AppErrs <- SomeAppErrs
INVARIANTS ErrnoResetWorks
