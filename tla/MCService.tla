----------------------------- MODULE MCService ------------------------------
(* Service for TLC: the bounds are given by the configuration. *)
EXTENDS Service
=============================================================================
