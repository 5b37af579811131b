------------------------------ MODULE Service -------------------------------
(***************************************************************************)
(* The hosted service (service.c): listeners that share one accept policy, *)
(* the service thread that accepts connections, starts a bridge session    *)
(* for each and reaps the finished ones, and the control thread that       *)
(* starts, drains and stops the service.                                   *)
(*                                                                         *)
(* The bridge is met through its interface: a start takes time and may     *)
(* fail, a session finishes by itself or because it was cancelled, and a   *)
(* finished session notifies the service and can be joined once.           *)
(*                                                                         *)
(* A thread keeps the processor between the places where it may sleep: on  *)
(* work_ready, in tcpcc_bridge_start, on tcpcc_service_lock and on         *)
(* tcpcc_bridge_control_lock.  Two locks are held over such a place, and   *)
(* ServiceLocked and ControlLocked say when.                               *)
(***************************************************************************)
EXTENDS Integers, Sequences, FiniteSets

CONSTANTS
    Listener,            \* listening sockets of the control client
    Conn,                \* bound: the connections that ever arrive
    MAX_CONNECTIONS,     \* config.max_connections, 0 for no limit
    ACCEPT_BATCH,        \* config.accept_batch
    MAX_LISTENERS,       \* TCPCC_SERVICE_MAX_LISTENERS
    WORK_LIMIT,          \* bound: signals of work_ready told apart
    Timeouts,            \* which of "drain", "stop" may time out
    Faults               \* which of "accept", "bridge", "enomem", "thread"

ASSUME ConstantsAssumption ==
    /\ IsFiniteSet(Listener) /\ IsFiniteSet(Conn)
    /\ MAX_CONNECTIONS \in Nat
    /\ {ACCEPT_BATCH, MAX_LISTENERS, WORK_LIMIT} \subseteq Nat \ {0}
    /\ Timeouts \subseteq {"drain", "stop"}
    /\ Faults \subseteq {"accept", "bridge", "enomem", "thread"}

VARIABLES
    state,               \* stats.state, "none" while not allocated
    draining, stopping,  \* the flags of the manager
    listeners,           \* the members of manager.listeners
    installed,           \* the listeners with callback_installed
    socket,              \* each listening socket: "listen", "shut", "released"
    ready_list,          \* manager.ready_list
    bridges,             \* the connections on manager.bridges
    conn,                \* what became of each connection
    at,                  \* the listener each connection arrived at
    active, accepted, completed, peak, rejected,   \* the counters of stats
    work_ready, drained, stopped,                  \* the completions
    thread,              \* the service thread
    caller               \* the control thread

flagVars == <<state, draining, stopping>>
listenerVars == <<listeners, installed, socket>>
connVars == <<bridges, conn, at>>
statVars == <<active, accepted, completed, peak, rejected>>
doneVars == <<drained, stopped>>
vars == <<flagVars, listenerVars, ready_list, connVars, statVars, work_ready,
          doneVars, thread, caller>>

NoConn == "none"
Allocated == state # "none"
Elements(q) == {q[n] : n \in 1..Len(q)}

\* The control thread keeps tcpcc_service_lock while it cancels the bridges,
\* and tcpcc_bridge_start keeps the bridge's lock until it is connected.
ServiceLocked == caller.op = "stop_cancel"
ControlLocked == thread.pc = "starting"

Init ==
    /\ state = "none" /\ draining = FALSE /\ stopping = FALSE
    /\ listeners = {} /\ installed = {}
    /\ socket = [l \in Listener |-> "listen"]
    /\ ready_list = <<>>
    /\ bridges = {} /\ conn = [c \in Conn |-> "none"]
    /\ at \in [Conn -> Listener]
    /\ active = 0 /\ accepted = 0 /\ completed = 0 /\ peak = 0 /\ rejected = 0
    /\ work_ready = 0 /\ drained = FALSE /\ stopped = FALSE
    /\ thread = [pc |-> "none", c |-> NoConn, l |-> NoConn, budget |-> 0, todo |-> {}]
    /\ caller = [op |-> "idle", l |-> NoConn, todo |-> {}]

-----------------------------------------------------------------------------
(* Signals and the ready list *)

\* complete(&work_ready), sent n times.
Complete(n) == work_ready' = IF work_ready + n > WORK_LIMIT THEN WORK_LIMIT
                                                            ELSE work_ready + n

\* Slip: a listener is queued while the service drains.
QueueListenerAlways(l) ==
    IF l \notin Elements(ready_list) /\ l \in installed /\ Allocated
    THEN ready_list' = Append(ready_list, l) /\ Complete(1)
    ELSE UNCHANGED <<ready_list, work_ready>>

\* tcpcc_service_queue_listener.
QueueListener(l) ==
    IF /\ l \notin Elements(ready_list) /\ l \in installed
       /\ Allocated /\ ~draining /\ ~stopping
    THEN ready_list' = Append(ready_list, l) /\ Complete(1)
    ELSE UNCHANGED <<ready_list, work_ready>>

\* tcpcc_service_shutdown_listeners: connections not accepted are reset.
ShutdownListeners ==
    /\ socket' = [l \in Listener |-> IF l \in listeners /\ socket[l] = "listen"
                                     THEN "shut" ELSE socket[l]]
    /\ conn' = [c \in Conn |-> IF conn[c] = "backlog" /\ at[c] \in listeners
                               THEN "reset" ELSE conn[c]]

\* Slip: the limit is tested off by one.
AvailableOneMore ==
    /\ ~draining /\ ~stopping
    /\ MAX_CONNECTIONS = 0 \/ active <= MAX_CONNECTIONS

\* tcpcc_service_admission_available.
Available ==
    /\ ~draining /\ ~stopping
    /\ MAX_CONNECTIONS = 0 \/ active < MAX_CONNECTIONS

-----------------------------------------------------------------------------
(* The service thread *)

At(pc) == thread.pc = pc

ThreadWake ==
    /\ At("wait") /\ work_ready > 0
    /\ work_ready' = work_ready - 1
    /\ thread' = [thread EXCEPT !.pc = "reap", !.todo = bridges]
    /\ UNCHANGED <<flagVars, listenerVars, ready_list, connVars, statVars,
                   doneVars, caller>>

\* tcpcc_bridge_try_join_result of one bridge: -EAGAIN, or it is joined.
ReapJoin ==
    /\ At("reap")
    /\ \E c \in thread.todo :
          \/ /\ conn[c] = "finished"
             /\ conn' = [conn EXCEPT ![c] = "joined"]
             /\ thread' = [thread EXCEPT !.pc = "reaped", !.c = c, !.todo = @ \ {c}]
          \/ /\ conn[c] # "finished"
             /\ thread' = [thread EXCEPT !.todo = @ \ {c}]
             /\ UNCHANGED conn
    /\ UNCHANGED <<flagVars, listenerVars, ready_list, bridges, at, statVars,
                   work_ready, doneVars, caller>>

\* Slip: the connection is counted as completed and is still active.
ReapCountTwice ==
    /\ At("reaped") /\ ~ServiceLocked
    /\ bridges' = bridges \ {thread.c}
    /\ completed' = completed + 1
    /\ thread' = [thread EXCEPT !.pc = "reap", !.c = NoConn]
    /\ UNCHANGED <<flagVars, listenerVars, ready_list, conn, at, active, accepted,
                   peak, rejected, work_ready, doneVars, caller>>

ReapCount ==
    /\ At("reaped") /\ ~ServiceLocked
    /\ bridges' = bridges \ {thread.c}
    /\ active' = active - 1 /\ completed' = completed + 1
    /\ thread' = [thread EXCEPT !.pc = "reap", !.c = NoConn]
    /\ UNCHANGED <<flagVars, listenerVars, ready_list, conn, at, accepted, peak,
                   rejected, work_ready, doneVars, caller>>

ReapDone ==
    /\ At("reap") /\ thread.todo = {}
    /\ thread' = IF draining \/ stopping
                 THEN [thread EXCEPT !.pc = "check"]
                 ELSE [thread EXCEPT !.pc = "accept", !.budget = ACCEPT_BATCH]
    /\ UNCHANGED <<flagVars, listenerVars, ready_list, connVars, statVars,
                   work_ready, doneVars, caller>>

\* One turn of tcpcc_service_accept_ready up to tcpcc_service_pop_ready.
PopReady ==
    /\ At("accept") /\ ~ServiceLocked
    /\ thread.budget > 0 /\ Available /\ ready_list # <<>>
    /\ ready_list' = Tail(ready_list)
    /\ thread' = [thread EXCEPT !.pc = "accept_one", !.l = Head(ready_list)]
    /\ UNCHANGED <<flagVars, listenerVars, connVars, statVars, work_ready,
                   doneVars, caller>>

\* The batch is used up, the service is full or drains, or nobody is ready.
AcceptEnd ==
    /\ At("accept") /\ ~ServiceLocked
    /\ thread.budget = 0 \/ ~Available \/ ready_list = <<>>
    /\ Complete(IF thread.budget = 0 /\ ready_list # <<>> THEN 1 ELSE 0)
    /\ thread' = [thread EXCEPT !.pc = "check", !.budget = 0]
    /\ UNCHANGED <<flagVars, listenerVars, ready_list, connVars, statVars,
                   doneVars, caller>>

\* tcpcc_service_accept_one asks for admission again.
Admit ==
    /\ At("accept_one") /\ ~ServiceLocked
    /\ thread' = IF Available THEN [thread EXCEPT !.pc = "accepting"]
                              ELSE [thread EXCEPT !.pc = "accept", !.l = NoConn]
    /\ UNCHANGED <<flagVars, listenerVars, ready_list, connVars, statVars,
                   work_ready, doneVars, caller>>

\* Slip: the listener is not queued again after one accept.
AcceptConnOnce ==
    /\ At("accepting") /\ socket[thread.l] = "listen"
    /\ \E c \in Conn :
          /\ conn[c] = "backlog" /\ at[c] = thread.l
          /\ conn' = [conn EXCEPT ![c] = "starting"]
          /\ thread' = [thread EXCEPT !.pc = "starting", !.c = c, !.l = NoConn]
    /\ UNCHANGED <<flagVars, listenerVars, ready_list, bridges, at, statVars,
                   work_ready, doneVars, caller>>

\* kernel_accept returns a connection.  The listener goes to the tail of the
\* ready list before the bridge is started.
AcceptConn ==
    /\ At("accepting") /\ socket[thread.l] = "listen"
    /\ \E c \in Conn :
          /\ conn[c] = "backlog" /\ at[c] = thread.l
          /\ conn' = [conn EXCEPT ![c] = "starting"]
          /\ \E pc \in {"starting"} \cup (IF "enomem" \in Faults THEN {"reject"} ELSE {}) :
                thread' = [thread EXCEPT !.pc = pc, !.c = c, !.l = NoConn]
    /\ QueueListener(thread.l)
    /\ UNCHANGED <<flagVars, listenerVars, bridges, at, statVars, doneVars, caller>>

AcceptAgain ==
    /\ At("accepting") /\ socket[thread.l] = "listen"
    /\ ~\E c \in Conn : conn[c] = "backlog" /\ at[c] = thread.l
    /\ thread' = [thread EXCEPT !.pc = "accept", !.l = NoConn]
    /\ UNCHANGED <<flagVars, listenerVars, ready_list, connVars, statVars,
                   work_ready, doneVars, caller>>

\* kernel_accept fails, as it does once the listener is shut down:
\* tcpcc_service_fail.
AcceptFail ==
    /\ At("accepting") /\ ~ServiceLocked
    /\ socket[thread.l] # "listen" \/ "accept" \in Faults
    /\ draining' = TRUE
    /\ state' = IF draining THEN state ELSE "failed"
    /\ ready_list' = <<>>
    /\ ShutdownListeners
    /\ thread' = [thread EXCEPT !.pc = "check", !.l = NoConn, !.budget = 0]
    /\ UNCHANGED <<stopping, listeners, installed, bridges, at, statVars,
                   work_ready, doneVars, caller>>

\* tcpcc_bridge_start returns.
BridgeStarted ==
    /\ At("starting")
    /\ \/ /\ conn' = [conn EXCEPT ![thread.c] = "running"]
          /\ thread' = [thread EXCEPT !.pc = "add"]
       \/ /\ "bridge" \in Faults
          /\ thread' = [thread EXCEPT !.pc = "reject"]
          /\ UNCHANGED conn
    /\ UNCHANGED <<flagVars, listenerVars, ready_list, bridges, at, statVars,
                   work_ready, doneVars, caller>>

\* The connection is closed and counted as rejected.
Reject ==
    /\ At("reject") /\ ~ServiceLocked
    /\ conn' = [conn EXCEPT ![thread.c] = "rejected"]
    /\ rejected' = rejected + 1
    /\ thread' = [thread EXCEPT !.pc = "accept", !.c = NoConn, !.budget = @ - 1]
    /\ UNCHANGED <<flagVars, listenerVars, ready_list, bridges, at, active,
                   accepted, completed, peak, work_ready, doneVars, caller>>

\* Slip: a stop that came during tcpcc_bridge_start is not noticed.
AddBridgeDeaf ==
    /\ At("add") /\ ~ServiceLocked
    /\ bridges' = bridges \cup {thread.c}
    /\ accepted' = accepted + 1 /\ active' = active + 1
    /\ peak' = IF active + 1 > peak THEN active + 1 ELSE peak
    /\ thread' = [thread EXCEPT !.pc = "accept", !.c = NoConn, !.budget = @ - 1]
    /\ UNCHANGED <<flagVars, listenerVars, ready_list, conn, at, completed,
                   rejected, work_ready, doneVars, caller>>

\* The session joins the list; one that started while the service was told to
\* stop was missed by tcpcc_service_cancel_bridges and is cancelled next.
AddBridge ==
    /\ At("add") /\ ~ServiceLocked
    /\ bridges' = bridges \cup {thread.c}
    /\ accepted' = accepted + 1 /\ active' = active + 1
    /\ peak' = IF active + 1 > peak THEN active + 1 ELSE peak
    /\ thread' = IF stopping THEN [thread EXCEPT !.pc = "cancel"]
                 ELSE [thread EXCEPT !.pc = "accept", !.c = NoConn, !.budget = @ - 1]
    /\ UNCHANGED <<flagVars, listenerVars, ready_list, conn, at, completed,
                   rejected, work_ready, doneVars, caller>>

\* tcpcc_bridge_cancel_session: a finished session stays finished.
Cancelled(c) == IF conn[c] = "running" THEN "cancelled" ELSE conn[c]

CancelNew ==
    /\ At("cancel")
    /\ conn' = [conn EXCEPT ![thread.c] = Cancelled(thread.c)]
    /\ thread' = [thread EXCEPT !.pc = "accept", !.c = NoConn, !.budget = @ - 1]
    /\ UNCHANGED <<flagVars, listenerVars, ready_list, bridges, at, statVars,
                   work_ready, doneVars, caller>>

\* Slip: the flag alone counts as drained.
CheckEarly ==
    /\ At("check") /\ ~ServiceLocked
    /\ drained' = (drained \/ draining)
    /\ stopped' = (stopped \/ (stopping /\ active = 0))
    /\ thread' = [thread EXCEPT !.pc = IF stopping /\ active = 0 THEN "exited" ELSE "wait"]
    /\ UNCHANGED <<flagVars, listenerVars, ready_list, connVars, statVars,
                   work_ready, caller>>

\* Slip: the thread ends with sessions on its list.
CheckHasty ==
    /\ At("check") /\ ~ServiceLocked
    /\ drained' = (drained \/ (draining /\ active = 0))
    /\ stopped' = (stopped \/ stopping)
    /\ thread' = [thread EXCEPT !.pc = IF stopping THEN "exited" ELSE "wait"]
    /\ UNCHANGED <<flagVars, listenerVars, ready_list, connVars, statVars,
                   work_ready, caller>>

\* tcpcc_service_should_stop, and the end of the thread.
Check ==
    /\ At("check") /\ ~ServiceLocked
    /\ drained' = (drained \/ (draining /\ active = 0))
    /\ stopped' = (stopped \/ (stopping /\ active = 0))
    /\ thread' = [thread EXCEPT !.pc = IF stopping /\ active = 0 THEN "exited" ELSE "wait"]
    /\ UNCHANGED <<flagVars, listenerVars, ready_list, connVars, statVars,
                   work_ready, caller>>

-----------------------------------------------------------------------------
(* The control thread *)

Idle == [op |-> "idle", l |-> NoConn, todo |-> {}]

\* tcpcc_service_start up to the thread: the first listener sets the manager
\* up, a later one is refused while the service drains or has no room.
ServiceStart(l) ==
    /\ caller.op = "idle" /\ l \notin listeners /\ socket[l] = "listen"
    /\ \/ /\ ~Allocated
          /\ state' = "running" /\ draining' = FALSE /\ stopping' = FALSE
          /\ active' = 0 /\ accepted' = 0 /\ completed' = 0 /\ peak' = 0
          /\ rejected' = 0
          /\ work_ready' = 0 /\ drained' = FALSE /\ stopped' = FALSE
          /\ ready_list' = <<>> /\ bridges' = {}
          /\ caller' = [op |-> "first", l |-> l, todo |-> {}]
       \/ /\ Allocated /\ ~draining /\ ~stopping
          /\ Cardinality(listeners) < MAX_LISTENERS
          /\ caller' = [op |-> "added", l |-> l, todo |-> {}]
          /\ UNCHANGED <<flagVars, statVars, work_ready, doneVars, ready_list, bridges>>
    /\ listeners' = listeners \cup {l}
    /\ installed' = installed \cup {l}
    /\ UNCHANGED <<socket, conn, at, thread>>

\* The listener is queued once by hand, for what arrived before its callback.
ServiceStarted ==
    /\ caller.op \in {"first", "added"}
    /\ QueueListener(caller.l)
    /\ thread' = IF caller.op = "first" THEN [thread EXCEPT !.pc = "wait"] ELSE thread
    /\ caller' = Idle
    /\ UNCHANGED <<flagVars, listenerVars, connVars, statVars, doneVars>>

\* The thread cannot be created: the listener is unlinked and stays with the
\* client, and the manager is free again.
ServiceStartFailed ==
    /\ "thread" \in Faults /\ caller.op = "first"
    /\ listeners' = listeners \ {caller.l} /\ installed' = installed \ {caller.l}
    /\ ready_list' = <<>>
    /\ state' = "none"
    /\ caller' = Idle
    /\ UNCHANGED <<draining, stopping, socket, connVars, statVars, work_ready,
                   doneVars, thread>>

Drain ==
    /\ caller.op = "idle" /\ Allocated
    /\ draining' = TRUE
    /\ state' = IF state = "running" THEN "draining" ELSE state
    /\ caller' = [Idle EXCEPT !.op = "drain"]
    /\ UNCHANGED <<stopping, listenerVars, ready_list, connVars, statVars,
                   work_ready, doneVars, thread>>

DrainListeners ==
    /\ caller.op = "drain"
    /\ ready_list' = <<>>
    /\ ShutdownListeners
    /\ Complete(1)
    /\ caller' = [Idle EXCEPT !.op = "drain_wait"]
    /\ UNCHANGED <<flagVars, listeners, installed, bridges, at, statVars, doneVars,
                   thread>>

DrainReturn ==
    /\ caller.op = "drain_wait" /\ (drained \/ "drain" \in Timeouts)
    /\ caller' = Idle
    /\ UNCHANGED <<flagVars, listenerVars, ready_list, connVars, statVars,
                   work_ready, doneVars, thread>>

Stop ==
    /\ caller.op = "idle" /\ Allocated
    /\ draining' = TRUE /\ stopping' = TRUE /\ state' = "stopping"
    /\ caller' = [Idle EXCEPT !.op = "stop"]
    /\ UNCHANGED <<listenerVars, ready_list, connVars, statVars, work_ready,
                   doneVars, thread>>

StopListeners ==
    /\ caller.op = "stop"
    /\ ready_list' = <<>>
    /\ ShutdownListeners
    /\ caller' = [Idle EXCEPT !.op = "stop_cancel", !.todo = bridges]
    /\ UNCHANGED <<flagVars, listeners, installed, bridges, at, statVars,
                   work_ready, doneVars, thread>>

\* tcpcc_service_cancel_bridges, one bridge at a time under both locks.
StopCancel ==
    /\ caller.op = "stop_cancel" /\ ~ControlLocked
    /\ \E c \in caller.todo :
          /\ conn' = [conn EXCEPT ![c] = Cancelled(c)]
          /\ caller' = [caller EXCEPT !.todo = @ \ {c}]
    /\ UNCHANGED <<flagVars, listenerVars, ready_list, bridges, at, statVars,
                   work_ready, doneVars, thread>>

StopWake ==
    /\ caller.op = "stop_cancel" /\ caller.todo = {}
    /\ Complete(1)
    /\ caller' = [Idle EXCEPT !.op = "stop_wait"]
    /\ UNCHANGED <<flagVars, listenerVars, ready_list, connVars, statVars,
                   doneVars, thread>>

\* The thread has ended: the notifier is cleared, the listeners are released
\* and the manager is free.
StopReturn ==
    /\ caller.op = "stop_wait" /\ stopped
    /\ listeners' = {} /\ installed' = {} /\ ready_list' = <<>>
    /\ socket' = [l \in Listener |-> IF l \in listeners THEN "released" ELSE socket[l]]
    /\ state' = "none"
    /\ thread' = [thread EXCEPT !.pc = "none"]
    /\ caller' = Idle
    /\ UNCHANGED <<draining, stopping, connVars, statVars, work_ready, doneVars>>

StopTimeout ==
    /\ caller.op = "stop_wait" /\ ~stopped /\ "stop" \in Timeouts
    /\ caller' = Idle
    /\ UNCHANGED <<flagVars, listenerVars, ready_list, connVars, statVars,
                   work_ready, doneVars, thread>>

-----------------------------------------------------------------------------
(* The network and the bridge *)

\* A connection is established; tcpcc_service_listener_data_ready runs.
Arrive(c) ==
    /\ conn[c] = "none" /\ socket[at[c]] = "listen"
    /\ conn' = [conn EXCEPT ![c] = "backlog"]
    /\ QueueListener(at[c])
    /\ UNCHANGED <<flagVars, listenerVars, bridges, at, statVars, doneVars, thread,
                   caller>>

\* The dispatcher finishes a session and tells the service.
SessionFinish(c) ==
    /\ conn[c] \in {"running", "cancelled"}
    /\ conn' = [conn EXCEPT ![c] = "finished"]
    /\ Complete(IF Allocated THEN 1 ELSE 0)
    /\ UNCHANGED <<flagVars, listenerVars, ready_list, bridges, at, statVars,
                   doneVars, thread, caller>>

-----------------------------------------------------------------------------
Thread ==
    \/ ThreadWake \/ ReapJoin \/ ReapCount \/ ReapDone
    \/ PopReady \/ AcceptEnd \/ Admit \/ AcceptConn \/ AcceptAgain \/ AcceptFail
    \/ BridgeStarted \/ Reject \/ AddBridge \/ CancelNew \/ Check

Control ==
    \/ ServiceStarted \/ ServiceStartFailed
    \/ DrainListeners \/ DrainReturn
    \/ StopListeners \/ StopCancel \/ StopWake \/ StopReturn

Request == Drain \/ Stop \/ \E l \in Listener : ServiceStart(l)

Next ==
    \/ Thread \/ Control \/ StopTimeout \/ Request
    \/ \E c \in Conn : Arrive(c) \/ SessionFinish(c)

Spec == Init /\ [][Next]_vars

(***************************************************************************)
(* Both threads run when they can; tcpcc_bridge_start returns after three  *)
(* seconds at the latest; and the dispatcher finishes what is cancelled,   *)
(* the property StopFinishes of Bridge.  A running session may run for     *)
(* ever, and no stop needs its time limit to come back.                    *)
(***************************************************************************)
FairSpec ==
    /\ Spec /\ WF_vars(Thread) /\ WF_vars(Control)
    /\ \A c \in Conn : WF_vars(conn[c] = "cancelled" /\ SessionFinish(c))

-----------------------------------------------------------------------------
(* Properties *)

Session == {c \in Conn : conn[c] \in {"running", "cancelled", "finished"}}

\* The variables have their types, and no more connections are active than
\* config.max_connections allows.
TypeOK ==
    /\ state \in {"none", "running", "draining", "failed", "stopping"}
    /\ draining \in BOOLEAN /\ stopping \in BOOLEAN
    /\ listeners \subseteq Listener /\ installed \subseteq Listener
    /\ socket \in [Listener -> {"listen", "shut", "released"}]
    /\ ready_list \in Seq(Listener)
    /\ bridges \subseteq Conn /\ at \in [Conn -> Listener]
    /\ conn \in [Conn -> {"none", "backlog", "reset", "starting", "rejected",
                          "running", "cancelled", "finished", "joined"}]
    /\ {active, accepted, completed, peak, rejected} \subseteq Nat
    /\ work_ready \in 0..WORK_LIMIT
    /\ drained \in BOOLEAN /\ stopped \in BOOLEAN
    /\ thread \in [pc : {"none", "wait", "reap", "reaped", "accept", "accept_one",
                         "accepting", "starting", "reject", "add", "cancel",
                         "check", "exited"},
                   c : Conn \cup {NoConn}, l : Listener \cup {NoConn},
                   budget : 0..ACCEPT_BATCH, todo : SUBSET Conn]
    /\ caller \in [op : {"idle", "first", "added", "drain", "drain_wait", "stop",
                         "stop_cancel", "stop_wait"},
                   l : Listener \cup {NoConn}, todo : SUBSET Conn]
    /\ MAX_CONNECTIONS > 0 => peak <= MAX_CONNECTIONS

\* The counters agree with the list of bridges, and every session of the
\* bridge is on that list or in the hands of the service thread: none is
\* forgotten, whatever drains, stops and failed starts came between.
Accounting ==
    /\ active = Cardinality(bridges)
    /\ accepted = active + completed
    /\ active <= peak
    /\ Session \subseteq bridges \cup {thread.c}
    /\ \A c \in bridges : c \in Session \/ (thread.pc = "reaped" /\ thread.c = c)

\* A listener on the ready list is linked, has its callback installed and is
\* there once; and the list stays empty from the moment a drain, a stop or a
\* failure has cleared it, though callbacks go on (the queue node of a
\* listener never outlives it).
ReadyListSound ==
    /\ Elements(ready_list) \subseteq listeners \cap installed
    /\ Cardinality(Elements(ready_list)) = Len(ready_list)
    /\ caller.op \in {"drain_wait", "stop_cancel", "stop_wait"} \/ state = "failed" =>
          ready_list = <<>>

\* While the service thread sleeps and nothing has been signalled, no session
\* waits to be reaped, and a connection waits only because the service is
\* full: its listener is on the ready list.
NoLostWork ==
    At("wait") /\ work_ready = 0 =>
        /\ \A c \in bridges : conn[c] # "finished"
        /\ ~draining => \A c \in Conn :
              conn[c] = "backlog" /\ at[c] \in installed \ {caller.l} =>
                 ~Available /\ at[c] \in Elements(ready_list)

\* A drain is reported done only when no session is left, and none starts
\* after it.
DrainedIsEmpty ==
    drained => Session = {} /\ bridges = {} /\ thread.pc \notin {"starting", "add", "reject"}

\* When a stop returns, no session and no thread is left, and every listener
\* the service owned is released.
StopLeavesNothing ==
    [][state # "none" /\ state' = "none" /\ caller.op = "stop_wait" =>
          /\ Session' = {} /\ thread'.pc = "none" /\ listeners' = {}
          /\ accepted' = completed']_vars

\* A stop without a time limit, tcpcc_service_cancel, returns: whatever the
\* sessions do, whichever locks are held when it begins.
StopReturns == caller.op = "stop" ~> caller.op = "idle"

\* If sessions end, every connection that reaches a listener of the service
\* is served, rejected or reset, unless the listener goes back to the client:
\* being full and sharing the thread with other listeners only delays it.
EveryConnectionServed ==
    (\A c \in Conn : WF_vars(SessionFinish(c))) =>
        \A c \in Conn :
            conn[c] = "backlog" /\ at[c] \in listeners
                ~> conn[c] # "backlog" \/ at[c] \notin listeners

\* The queue of ready listeners is sound and no work is lost in it.
QueueSound == ReadyListSound /\ NoLostWork

\* The counters are exact, and a drain that is done means what it says.
BooksExact == Accounting /\ DrainedIsEmpty

\* A stop returns with nothing left behind, and every connection is served.
ServiceEnds == StopReturns /\ StopLeavesNothing /\ EveryConnectionServed

=============================================================================
