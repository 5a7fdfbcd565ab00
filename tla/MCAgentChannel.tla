--------------------------- MODULE MCAgentChannel ---------------------------
(* Small instances of AgentChannel: agents, providers, tasks and places are  *)
(* model values; agents are interchangeable.                                 *)
EXTENDS AgentChannel, TLC

Symmetric == Permutations(Agents)
=============================================================================
