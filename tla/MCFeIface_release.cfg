SPECIFICATION Spec
CONSTANT Limits <- MCSessionLimits
INVARIANT SessionsFollowApp
CHECK_DEADLOCK FALSE
