--------------------------- MODULE MCAgentSession ---------------------------
(* AgentSession for TLC: the callers are interchangeable. *)
EXTENDS AgentSession, TLC

Symmetry == Permutations(Callers)
=============================================================================
