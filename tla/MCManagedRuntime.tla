-------------------------- MODULE MCManagedRuntime --------------------------
\* Two managers, which may be given the same state root.
EXTENDS ManagedRuntime, TLC

CONSTANTS m1, m2

TwoManagers == {m1, m2}
=============================================================================
