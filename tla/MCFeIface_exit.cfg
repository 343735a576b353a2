SPECIFICATION Spec
CONSTANT Limits <- MCLaunchLimits
INVARIANT ReleaseDecides
CHECK_DEADLOCK FALSE
