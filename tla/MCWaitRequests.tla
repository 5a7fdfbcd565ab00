--------------------------- MODULE MCWaitRequests ---------------------------
(* Small instances of WaitRequests: connections, buffers and terminals are   *)
(* model values.                                                             *)
EXTENDS WaitRequests, TLC

Symmetric == Permutations(Conns) \union Permutations(Buffers)
                \union Permutations(Terminals)
=============================================================================
