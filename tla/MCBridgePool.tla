---------------------------- MODULE MCBridgePool ----------------------------
(***************************************************************************)
(* What wakes the dispatcher of the bridge: its own queues, and the queue  *)
(* of runtime events.  Bridge applies an event in the step that reads it,  *)
(* HostEvents knows sessions by their tokens only: Init chooses which of   *)
(* the two is looked at (layer), the state of the other one stays initial. *)
(***************************************************************************)
EXTENDS MCBridge, HostEvents

VARIABLE layer

MCInit == Init /\ EventsInit /\ layer \in {"bridge", "events"}

MCNext ==
    \/ layer = "bridge" /\ Next /\ UNCHANGED <<layer, eventVars>>
    \/ layer = "events" /\ EventsNext /\ UNCHANGED <<layer, vars>>

MCSpec == MCInit /\ [][MCNext]_<<layer, vars, eventVars>>
=============================================================================
