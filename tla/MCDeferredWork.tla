--------------------------- MODULE MCDeferredWork ---------------------------
EXTENDS DeferredWork
=============================================================================
