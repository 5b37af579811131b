------------------------------ MODULE MCBridge ------------------------------
(* Bridge for TLC.  Sessions are interchangeable. *)
EXTENDS Bridge, TLC
CONSTANTS PublicBytes, HostBytes
MCSupply == [x \in Side |-> IF x = "public" THEN PublicBytes ELSE HostBytes]
Symmetry == Permutations(Session)
=============================================================================
