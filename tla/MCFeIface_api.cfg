SPECIFICATION Spec
CONSTANT Limits <- MCLimits
INVARIANTS
    IdsOwned
    HeldCanBeReleased
    FilesCleaned
    LaunchedDieWithTool
PROPERTIES
    ImplementsTable
CHECK_DEADLOCK FALSE
