SPECIFICATION Spec
CONSTANTS
    t1 = t1
    t2 = t2
    c = c
    None = None
    ToolThreads <- MCToolThreads
    Forked = c
    MaxCalls = 2
    Setups <- MCSetups
INVARIANTS
    OneFrontend
    UsesPublished
    DirKept
    ExitCleans
    SigchldRestored
    SlurmNotMissed
PROPERTIES
    ForkedHarmless
    CallReturns
CHECK_DEADLOCK FALSE
