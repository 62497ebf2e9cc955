---------------------------- MODULE MCFederation ----------------------------
(* An agent, a joining replica and a command line client, and two calls of the federation service. *)
EXTENDS Federation
=============================================================================
