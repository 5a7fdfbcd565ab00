----------------------------- MODULE MCEndpoint -----------------------------
(* Three host processes of one workspace.                                  *)
EXTENDS Endpoint

CONSTANTS first, second, third

MCHosts == {first, second, third}
=============================================================================
