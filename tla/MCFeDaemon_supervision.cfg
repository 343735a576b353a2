CONSTANTS
  e1 = e1
  p1 = p1
  p2 = p2
  NoPid = NoPid
  ZeroPid = ZeroPid
  Pids = {p1, p2}
  External = {}
  MaxId = 1
  ReqTypes = {"LaunchMPIR", "ForkExecvpUtil_Async", "ForkExecvpUtil_Sync", "DeregisterApp", "ReleaseApp", "Shutdown"}
SPECIFICATION LiveSpec
INVARIANTS AppsSupervised CleanExit
PROPERTIES DaemonEnds
