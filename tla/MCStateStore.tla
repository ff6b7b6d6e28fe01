---------------------------- MODULE MCStateStore ----------------------------
\* The instances of StateStore.  They check liveness, so no symmetry is used.
EXTENDS StateStore, TLC
=============================================================================
