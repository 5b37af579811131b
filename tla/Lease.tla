-------------------------------- MODULE Lease --------------------------------
(***************************************************************************)
(* What acquire_host_network and HostNetworkLease.close of                 *)
(* tools/tcpcc_host.py promise the instances of one host: an instance gets *)
(* its whole ingress path at once or gets nothing, gives all of it back,   *)
(* and touches nobody else's.  HostLease is shown to implement this.       *)
(***************************************************************************)
CONSTANT Proc             \* process incarnations that run on the host

VARIABLES
  state,                  \* what each instance is: idle, held, done or dead
  policy,                 \* the instances with firewall objects to account for
  excused                 \* the instances one of whose commands went wrong

vars == <<state, policy, excused>>

Init ==
  /\ state = [p \in Proc |-> "idle"]
  /\ policy = {}
  /\ excused = {}

\* A firewall command of p fails while p undoes its work, or p is told that a
\* command failed which did take effect.
Excuse(p) ==
  /\ state[p] \in {"idle", "held"}
  /\ excused' = excused \cup {p}
  /\ UNCHANGED <<state, policy>>

\* The transaction of p succeeds: the whole path is there at once.
Grant(p) ==
  /\ state[p] = "idle"
  /\ state' = [state EXCEPT ![p] = "held"]
  /\ policy' = policy \cup {p}
  /\ UNCHANGED excused

\* p ends, refused, failed or closed.  Nothing of it stays, unless excused.
Finish(p) ==
  /\ state[p] \in {"idle", "held"}
  /\ state' = [state EXCEPT ![p] = "done"]
  /\ \/ policy' = policy \ {p}
     \/ p \in excused /\ policy' = policy \cup {p}
  /\ UNCHANGED excused

\* p is killed and can clean nothing up.
Kill(p) ==
  /\ state[p] \in {"idle", "held"}
  /\ state' = [state EXCEPT ![p] = "dead"]
  /\ policy' \in {policy \ {p}, policy \cup {p}}
  /\ excused' = excused \ {p}

\* The operator removes what a finished or killed instance has left.
Remove(p) ==
  /\ state[p] \in {"done", "dead"}
  /\ policy' = policy \ {p}
  /\ UNCHANGED <<state, excused>>

Next ==
  \E p \in Proc :
    Excuse(p) \/ Grant(p) \/ Finish(p) \/ Kill(p) \/ Remove(p)

Spec == Init /\ [][Next]_vars
==============================================================================
