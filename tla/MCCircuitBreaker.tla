-------------------------- MODULE MCCircuitBreaker --------------------------
(***************************************************************************)
(* Instance of CircuitBreaker for TLC.                                     *)
(***************************************************************************)
EXTENDS CircuitBreaker
=============================================================================
