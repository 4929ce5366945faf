---------------------------- MODULE MCAgentWatch ----------------------------
(* Small instances of AgentWatch for TLC. *)
EXTENDS AgentWatch, TLC

Symmetry == Permutations(Instance) \cup Permutations(Starter)
=============================================================================
