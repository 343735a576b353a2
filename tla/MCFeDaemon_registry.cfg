CONSTANTS
  e1 = e1
  p1 = p1
  p2 = p2
  NoPid = NoPid
  ZeroPid = ZeroPid
  Pids = {e1, p1}
  External = {e1}
  MaxId = 2
  ReqTypes = {"LaunchMPIRShim", "AttachMPIR", "ReleaseMPIR", "WaitMPIR", "TerminateMPIR", "RegisterApp", "RegisterUtil", "ForkExecvpApp", "DeregisterApp", "SIGTERM"}
SPECIFICATION Spec
INVARIANTS MapsAgree UtilsOwned MPIRRespHonest
