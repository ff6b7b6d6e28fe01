----------------------------- MODULE MCEventHub -----------------------------
(* The TLC instance of EventHub.                                           *)
EXTENDS EventHub
=============================================================================
