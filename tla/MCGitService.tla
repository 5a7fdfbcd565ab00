---------------------------- MODULE MCGitService ----------------------------
(* Small instances of GitService: a repository with a shared read and a      *)
(* mutation, and a discovery beside it.                                      *)
EXTENDS GitService

CONSTANTS repo, start, status, stage

Shared == [repository |-> repo, kind |-> "read", key |-> status]
Stage == [repository |-> repo, kind |-> "mutate", key |-> stage]
Discover == [repository |-> start, kind |-> "discover", key |-> start]
MCOperations == {Shared, Stage, Discover}
=============================================================================
