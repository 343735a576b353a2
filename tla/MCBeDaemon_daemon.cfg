CONSTANTS
  MaxStarts = 3
  Scenarios = {{"destroy", "throw", "fail"}, {"destroy", "early"}, {"reuse"}, {"sweep"}}
SPECIFICATION LiveSpec
INVARIANTS DependenciesReady LockAfterPid
PROPERTIES WaitersProceed LockFilesAppear
CHECK_DEADLOCK FALSE
