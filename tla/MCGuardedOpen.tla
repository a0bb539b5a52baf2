---------------------------- MODULE MCGuardedOpen ----------------------------
EXTENDS GuardedOpen
=============================================================================
