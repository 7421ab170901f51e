-------------------------- MODULE MCGatewaySession --------------------------
(* Model values of GatewaySession for TLC. *)
EXTENDS GatewaySession, TLC

Symmetry == Permutations(Channels) \cup Permutations(Attempts)
=============================================================================
