CONSTANTS
  e1 = e1
  p1 = p1
  p2 = p2
  NoPid = NoPid
  ZeroPid = ZeroPid
  Pids = {p1, p2}
  External = {}
  MaxId = 2
  ReqTypes = {"LaunchMPIR", "DeregisterApp", "Shutdown"}
SPECIFICATION Spec
INVARIANTS CleanedUp
SYMMETRY ChildSymmetry
