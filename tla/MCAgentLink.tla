---------------------------- MODULE MCAgentLink ----------------------------
(* Instances of AgentLink for TLC: a few batches and connections. *)
EXTENDS AgentLink, TLC

Symmetric == Permutations(Batches) \cup Permutations(Conns)
=============================================================================
