-------------------------- MODULE MCAgentLifecycle --------------------------
(* AgentLifecycle on a small instance. *)
EXTENDS AgentLifecycle, TLC

\* Sound where no liveness property is checked.
Symmetry == Permutations(Server) \cup Permutations(Agent) \cup Permutations(Token)
=============================================================================
