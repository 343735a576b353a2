CONSTANTS
  MaxStarts = 2
  Scenarios = {{"reuse"}}
SPECIFICATION Spec
INVARIANTS BinaryFound
CHECK_DEADLOCK FALSE
