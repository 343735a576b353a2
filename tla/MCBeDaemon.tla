----------------------------- MODULE MCBeDaemon -----------------------------
EXTENDS BeDaemon
=============================================================================
