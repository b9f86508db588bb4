------------------------------ MODULE MCPairings ------------------------------
(* See the README for the bounds. *)
EXTENDS MatchMaking
=============================================================================
