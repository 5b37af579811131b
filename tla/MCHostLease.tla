----------------------------- MODULE MCHostLease -----------------------------
(* Two supervisors on one host, one after the other or side by side.        *)
EXTENDS HostLease
==============================================================================
