CONSTANTS
  MaxStarts = 2
  Scenarios = {{"destroy"}}
SPECIFICATION Spec
INVARIANTS DestroyKillsTools
CHECK_DEADLOCK FALSE
