---------------------------- MODULE MCGitRefresh ----------------------------
(* Small instances of GitRefresh: a few changes, requests and failures.      *)
EXTENDS GitRefresh
=============================================================================
