---------------------------- MODULE MCSupervisor -----------------------------
(***************************************************************************)
(* Instances of Supervisor: two routes with iptables, whose policies are   *)
(* installed in three commands each, or nftables; two lives.               *)
(***************************************************************************)
EXTENDS Supervisor
=============================================================================
