------------------------------- MODULE MCTrip -------------------------------
(* Small instances of Trip for TLC. *)
EXTENDS Trip, TLC

Symmetry == Permutations(Proc)
=============================================================================
