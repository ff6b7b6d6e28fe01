------------------------- MODULE MCCodeBuddyRuntime -------------------------
(* The instance of CodeBuddyRuntime alone.                                  *)
EXTENDS CodeBuddyRuntime, TLC

CONSTANT n1

OneNumber == <<n1>>
=============================================================================
