-------------------------- MODULE MCCircuitBreaker --------------------------
(* Small instances of CircuitBreaker for TLC. *)
EXTENDS BreakerRefinement, TLC

Symmetry == Permutations(Call)
=============================================================================
