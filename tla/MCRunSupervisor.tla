-------------------------- MODULE MCRunSupervisor --------------------------
(* TLC instances of RunSupervisor.                                         *)
EXTENDS RunSupervisor
=============================================================================
