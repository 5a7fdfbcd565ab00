---------------------------- MODULE MCAgentInput ----------------------------
(* Small instances of AgentInput: readers, terminals, handles and lines are  *)
(* model values.                                                             *)
EXTENDS AgentInput, TLC

Symmetric == Permutations(Readers) \union Permutations(Terminals)
                \union Permutations(EnterIds) \union Permutations(Texts)
=============================================================================
