----------------------------- MODULE MCFeDaemon -----------------------------
EXTENDS FeDaemon, TLC
CONSTANTS e1, p1, p2
ChildSymmetry == Permutations({p1, p2})
=============================================================================
