------------------------- MODULE MCAdapterRuntimes -------------------------
(* The instance of AdapterRuntimes.  It checks liveness, so no symmetry is  *)
(* used.                                                                    *)
EXTENDS AdapterRuntimes, TLC

CONSTANTS n1, n2, n3

ThreeNumbers == <<n1, n2, n3>>
=============================================================================
