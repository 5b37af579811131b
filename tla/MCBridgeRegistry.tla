-------------------------- MODULE MCBridgeRegistry --------------------------
(* BridgeRegistry for TLC: the bounds are given by the configurations. *)
EXTENDS BridgeRegistry
=============================================================================
