------------------------------ MODULE MCL3Net -------------------------------
(* L3Net for TLC.  The bounds are constants of L3Net; nothing is replaced. *)
EXTENDS L3Net
=============================================================================
