--------------------------- MODULE BridgeRegistry ---------------------------
(***************************************************************************)
(* The control plane of the bridge (bridge.c): slots and generations, the  *)
(* handles given to callers and the tokens given to epoll, the start of a  *)
(* session up to its connected backend, joining, cancelling and reaping,   *)
(* and the life of the dispatcher thread.                                  *)
(*                                                                         *)
(* What a running session forwards is in Bridge.  Here the dispatcher's    *)
(* pump either leaves a running session running or finishes it.            *)
(*                                                                         *)
(* Every caller holds tcpcc_bridge_control_lock from its first step to its *)
(* return, so one variable says where the caller is.  It gives the         *)
(* processor to the dispatcher where it waits for a completion.  The idle  *)
(* loop may read host events whenever the dispatcher is not in a round.    *)
(***************************************************************************)
EXTENDS Integers, Sequences, FiniteSets

CONSTANTS
    SESSION_LIMIT,       \* TCPCC_BRIDGE_SESSION_LIMIT, the slots
    GENERATION_MASK,     \* TCPCC_BRIDGE_HANDLE_GENERATION_MASK
    QUEUE_LIMIT,         \* bound: events waiting in the runtime queue
    MaxStarts,           \* bound: sessions ever allocated
    Faults               \* which of "enomem", "host", "eio" may happen

ASSUME ConstantsAssumption ==
    /\ {SESSION_LIMIT, GENERATION_MASK, QUEUE_LIMIT, MaxStarts} \subseteq Nat \ {0}
    /\ Faults \subseteq {"enomem", "host", "eio"}

VARIABLES
    slots,               \* manager.slots: generation and session of each slot
    free_slots,          \* manager.free_slots, the last released first
    active,              \* the members of manager.active
    active_sessions,     \* manager.active_sessions
    session,             \* the sessions in the order of their allocation
    ready,               \* the members of manager.ready
    retired,             \* the members of manager.retired
    queue,               \* the runtime event queue
    disp,                \* the dispatcher thread
    dispatcher_pending,  \* manager.dispatcher_pending
    caller               \* the holder of tcpcc_bridge_control_lock

registryVars == <<slots, free_slots, active, active_sessions>>
dispVars == <<disp, dispatcher_pending>>
vars == <<registryVars, session, ready, retired, queue, dispVars, caller>>

None == 0
Id == 1..MaxStarts
Allocated(i) == session[i].state \in {"connecting", "running", "finished", "reaping"}
Is(i, flag) == flag \in session[i].is

Init ==
    /\ slots = <<>> /\ free_slots = <<>>
    /\ active = {} /\ active_sessions = 0
    /\ session = <<>> /\ ready = {} /\ retired = {}
    /\ queue = <<>>
    /\ disp = [pc |-> "none", i |-> None] /\ dispatcher_pending = FALSE
    /\ caller = [op |-> "none", i |-> None]

-----------------------------------------------------------------------------
(* Names *)

\* Slip: the generation is masked and zero is not skipped.
NextGenerationZero(g) == (g + 1) % (GENERATION_MASK + 1)

NextGeneration(g) ==
    LET n == (g + 1) % (GENERATION_MASK + 1) IN IF n = 0 THEN 1 ELSE n

\* A handle and a token carry the same two fields, at different places.
Name(i) == <<session[i].slot, session[i].generation>>

\* The session that the slot of a name holds, if it has that very name.
Lookup(name) ==
    LET i == IF name[1] \in DOMAIN slots THEN slots[name[1]].session ELSE None
    IN  IF i # None /\ Name(i) = name THEN i ELSE None

\* tcpcc_bridge_find_handle; generation 0 is never a handle.
FindHandle(handle) ==
    LET i == Lookup(handle)
    IN  IF i # None /\ handle[2] # 0 /\ Allocated(i) THEN i ELSE None

-----------------------------------------------------------------------------
(* Stopping and finishing *)

\* What tcpcc_bridge_session_stop leaves of a session, for i allocated.
Stopped(i, st) ==
    [session[i] EXCEPT !.status = IF @ = "ok" THEN st ELSE @,
                       !.is = @ \cup {"stopping", "connect_ready"}]

\* The sessions of X that it puts on the ready list: those that connect are
\* left to tcpcc_bridge_start.
Requeued(X) == ready \cup {i \in X : session[i].state # "connecting"}

\* What tcpcc_bridge_session_finish leaves of a session: it acts once.
Finished(r) ==
    IF r.state # "running" THEN r
    ELSE [r EXCEPT !.state = "finished", !.is = @ \cup {"finished", "stopping"}]

-----------------------------------------------------------------------------
(* tcpcc_bridge_start *)

\* The slot released last, or a new one.
HasSlot == free_slots # <<>> \/ Len(slots) < SESSION_LIMIT
Slot == IF free_slots # <<>> THEN Head(free_slots) ELSE Len(slots) + 1
OldGeneration == IF Slot \in DOMAIN slots THEN slots[Slot].generation ELSE 0
SetSlot(entry) == slots' = IF Slot \in DOMAIN slots THEN [slots EXCEPT ![Slot] = entry]
                                                    ELSE Append(slots, entry)
SlotTaken == free_slots' = IF free_slots # <<>> THEN Tail(free_slots) ELSE <<>>
SlotKept == free_slots' = IF free_slots # <<>> THEN free_slots ELSE <<Slot>>

CanStart == caller.op = "none" /\ disp.pc # "failed" /\ HasSlot

\* The first start creates the dispatcher thread.
StartDispatcher == disp' = IF disp.pc = "none" THEN [pc |-> "wait", i |-> None] ELSE disp

NewSession(g, state, flags) ==
    session' = Append(session, [slot |-> Slot, generation |-> g, state |-> state,
                                status |-> "ok", connect_events |-> {}, is |-> flags])

\* A session is allocated; its host fd is registered with epoll and connects.
Start ==
    /\ CanStart /\ Len(session) < MaxStarts
    /\ LET g == NextGeneration(OldGeneration)
           i == Len(session) + 1
       IN  /\ SetSlot([generation |-> g, session |-> i])
           /\ NewSession(g, "connecting", {"accept", "registered"})
           /\ active' = active \cup {i}
           /\ caller' = [op |-> "connect", i |-> i]
    /\ SlotTaken
    /\ active_sessions' = active_sessions + 1
    /\ StartDispatcher
    /\ dispatcher_pending' = (dispatcher_pending \/ disp.pc = "none")
    /\ UNCHANGED <<ready, retired, queue>>

\* There is no memory for the session: the slot goes to the free list.
StartNoMemory ==
    /\ "enomem" \in Faults /\ CanStart
    /\ SetSlot([generation |-> OldGeneration, session |-> None])
    /\ SlotKept
    /\ StartDispatcher
    /\ dispatcher_pending' = (dispatcher_pending \/ disp.pc = "none")
    /\ UNCHANGED <<active, active_sessions, session, ready, retired, queue, caller>>

\* The host refuses the socket, the registration or the connection at once:
\* the session is retired before anyone else ran.
StartRefused ==
    /\ "host" \in Faults /\ CanStart /\ Len(session) < MaxStarts
    /\ LET g == NextGeneration(OldGeneration)
       IN  /\ SetSlot([generation |-> g, session |-> None])
           /\ NewSession(g, "retired", {})
           /\ retired' = retired \cup {Len(session) + 1}
    /\ SlotKept
    /\ StartDispatcher
    /\ dispatcher_pending' = TRUE
    /\ UNCHANGED <<active, active_sessions, ready, queue, caller>>

\* The memory of a retired session is read no more, except for its name.
Retired(r) == [r EXCEPT !.state = "retired", !.status = "ok", !.connect_events = {},
                        !.is = @ \cap {"issued"}]

\* Slip: the slot keeps pointing at the session that is retired.
ReleaseLinked(i) ==
    /\ free_slots' = <<session[i].slot>> \o free_slots
    /\ active' = active \ {i}
    /\ active_sessions' = active_sessions - 1
    /\ session' = [session EXCEPT ![i] = Retired(@)]
    /\ ready' = ready \ {i}
    /\ retired' = retired \cup {i}
    /\ dispatcher_pending' = TRUE
    /\ UNCHANGED slots

\* How a failed start and a reap leave session i: unqueued, out of its slot
\* and of the list of active sessions, and retired for the dispatcher to free.
Release(i) ==
    /\ slots' = [slots EXCEPT ![session[i].slot].session = None]
    /\ free_slots' = <<session[i].slot>> \o free_slots
    /\ active' = active \ {i}
    /\ active_sessions' = active_sessions - 1
    /\ session' = [session EXCEPT ![i] = Retired(@)]
    /\ ready' = ready \ {i}
    /\ retired' = retired \cup {i}
    /\ dispatcher_pending' = TRUE

Return == caller' = [op |-> "none", i |-> None]

\* The wait for the connection ends: with a session that runs, or with an
\* error of the session, of the socket, or of the registration.
ConnectReturn ==
    /\ caller.op = "connect" /\ Is(caller.i, "connect_ready")
    /\ LET i == caller.i
           connected == session[i].status = "ok" /\ session[i].connect_events = {"writable"}
       IN  \/ /\ connected
              /\ session' = [session EXCEPT ![i].state = "running",
                                            ![i].is = @ \cup {"issued"}]
              /\ ready' = ready \cup {i}
              /\ dispatcher_pending' = TRUE
              /\ UNCHANGED <<registryVars, retired>>
           \/ /\ ~connected \/ "host" \in Faults
              /\ Release(i)
    /\ Return
    /\ UNCHANGED <<queue, disp>>

\* TCPCC_BRIDGE_CONNECT_TIMEOUT_MS passes first.
ConnectTimeout ==
    /\ caller.op = "connect" /\ ~Is(caller.i, "connect_ready")
    /\ Release(caller.i)
    /\ Return
    /\ UNCHANGED <<queue, disp>>

-----------------------------------------------------------------------------
(* Joining and cancelling; j is a session whose handle a caller was given *)

Issued(j) == j \in DOMAIN session /\ Is(j, "issued")

\* tcpcc_bridge_join and tcpcc_bridge_try_join_result, which waits no time.
Join(j) ==
    /\ caller.op = "none" /\ Issued(j)
    /\ FindHandle(Name(j)) # None
    /\ caller' = [op |-> "join", i |-> FindHandle(Name(j))]
    /\ UNCHANGED <<registryVars, session, ready, retired, queue, dispVars>>

\* tcpcc_bridge_disable_events, up to its wait for the dispatcher.
ReapBegin(i, op) ==
    /\ Is(i, "finished")
    /\ session' = [session EXCEPT ![i].state = "reaping",
                       ![i].is = @ \ {"accept", "registered", "finished"}]
    /\ caller' = [op |-> op, i |-> i]
    /\ UNCHANGED <<registryVars, ready, retired, queue, dispVars>>

JoinReturn == caller.op = "join" /\ ReapBegin(caller.i, "reap")

JoinTimeout ==
    /\ caller.op = "join" /\ ~Is(caller.i, "finished")
    /\ Return
    /\ UNCHANGED <<registryVars, session, ready, retired, queue, dispVars>>

\* Slip: the dispatcher's reference to the session is not waited for.
ReapEndUnwaited ==
    /\ caller.op \in {"reap", "cancel_reap"}
    /\ Release(caller.i)
    /\ caller' = [op |-> IF caller.op = "reap" THEN "none" ELSE "cancel", i |-> None]
    /\ UNCHANGED <<queue, disp>>

\* No event is being applied to the session: the rest of tcpcc_bridge_reap.
ReapEnd ==
    /\ caller.op \in {"reap", "cancel_reap"}
    /\ ~(disp.pc = "apply" /\ disp.i = caller.i)
    /\ Release(caller.i)
    /\ caller' = [op |-> IF caller.op = "reap" THEN "none" ELSE "cancel", i |-> None]
    /\ UNCHANGED <<queue, disp>>

CancelSession(j) ==
    /\ caller.op = "none" /\ Issued(j)
    /\ LET i == FindHandle(Name(j))
       IN  /\ i # None
           /\ session' = [session EXCEPT ![i] = Stopped(i, "canceled")]
           /\ ready' = Requeued({i})
    /\ dispatcher_pending' = TRUE
    /\ UNCHANGED <<registryVars, retired, queue, disp, caller>>

\* tcpcc_bridge_cancel: stop all, wait for each and reap it, then stop the
\* dispatcher thread.
Cancel ==
    /\ caller.op = "none" /\ disp.pc # "none"
    /\ session' = [i \in DOMAIN session |->
                      IF i \in active THEN Stopped(i, "canceled") ELSE session[i]]
    /\ ready' = Requeued(active)
    /\ dispatcher_pending' = (dispatcher_pending \/ active # {})
    /\ caller' = [op |-> "cancel", i |-> None]
    /\ UNCHANGED <<registryVars, retired, queue, disp>>

CancelReap == caller.op = "cancel" /\ \E i \in active : ReapBegin(i, "cancel_reap")

\* Slip: the sessions that were not finished are left behind.
CancelStopHasty ==
    /\ caller.op = "cancel" /\ ~\E i \in active : Is(i, "finished")
    /\ dispatcher_pending' = TRUE
    /\ caller' = [op |-> "stop", i |-> None]
    /\ UNCHANGED <<registryVars, session, ready, retired, queue, disp>>

CancelStop ==
    /\ caller.op = "cancel" /\ active = {}
    /\ dispatcher_pending' = TRUE
    /\ caller' = [op |-> "stop", i |-> None]
    /\ UNCHANGED <<registryVars, session, ready, retired, queue, disp>>

\* kthread_stop of a thread that has failed and left its loop.
CancelReturn ==
    /\ caller.op = "stop" /\ disp.pc = "failed"
    /\ disp' = [pc |-> "none", i |-> None]
    /\ Return
    /\ UNCHANGED <<registryVars, session, ready, retired, queue, dispatcher_pending>>

-----------------------------------------------------------------------------
(* The dispatcher thread *)

\* tcpcc_bridge_drain_retired.
FreeRetired == retired' = {} /\ session' = [i \in DOMAIN session |->
    IF i \in retired THEN [session[i] EXCEPT !.state = "freed"] ELSE session[i]]

DispatcherWake ==
    /\ disp.pc = "wait" /\ dispatcher_pending /\ caller.op # "stop"
    /\ dispatcher_pending' = FALSE
    /\ FreeRetired
    /\ disp' = [pc |-> "drain", i |-> None]
    /\ UNCHANGED <<registryVars, ready, queue, caller>>

\* Slip: the token's slot is looked up and its generation is not compared.
AcceptsBySlot(event) ==
    LET i == IF event.token[1] \in DOMAIN slots THEN slots[event.token[1]].session ELSE None
    IN  IF i # None /\ Is(i, "accept") THEN i ELSE None

\* The session that takes an event: the one of the token, while it accepts.
Accepts(event) ==
    LET i == Lookup(event.token)
    IN  IF i # None /\ Allocated(i) /\ Is(i, "accept") THEN i ELSE None

\* One turn of tcpcc_bridge_drain_host_events.
Dispatch ==
    /\ disp.pc = "drain" /\ queue # <<>>
    /\ queue' = Tail(queue)
    /\ LET event == Head(queue)
           i == Accepts(event)
           connecting == i # None /\ session[i].state = "connecting"
           error == "error" \in event.events
       IN  \/ /\ i = None
              /\ UNCHANGED <<session, ready, dispVars>>
           \/ /\ connecting
              /\ session' = [session EXCEPT ![i].is = @ \cup {"connect_ready"},
                                 ![i].connect_events = @ \cup event.events]
              /\ UNCHANGED <<ready, dispVars>>
           \/ /\ i # None /\ ~connecting /\ ~error
              /\ ready' = ready \cup {i} /\ dispatcher_pending' = TRUE
              /\ UNCHANGED <<session, disp>>
           \/ /\ i # None /\ ~connecting /\ error
              /\ session' = [session EXCEPT ![i] = Stopped(i, "error")]
              /\ ready' = ready \cup {i} /\ dispatcher_pending' = TRUE
              /\ disp' = [pc |-> "apply", i |-> i]
    /\ UNCHANGED <<registryVars, retired, caller>>

\* The sockets are shut down; the session is queued again and its reference
\* is dropped.
DispatchEnd ==
    /\ disp.pc = "apply"
    /\ ready' = IF Allocated(disp.i) THEN ready \cup {disp.i} ELSE ready
    /\ dispatcher_pending' = TRUE
    /\ disp' = [pc |-> "drain", i |-> None]
    /\ UNCHANGED <<registryVars, session, retired, queue, caller>>

\* Slip: the sessions that are stopping are not finished by the pump.
PumpPassing ==
    /\ disp.pc = "drain" /\ queue = <<>>
    /\ \E X \in SUBSET {i \in ready : session[i].state = "running" /\ ~Is(i, "stopping")} :
          session' = [i \in DOMAIN session |->
                         IF i \in X THEN Finished(session[i]) ELSE session[i]]
    /\ ready' = {}
    /\ disp' = [pc |-> "wait", i |-> None]
    /\ UNCHANGED <<registryVars, retired, queue, dispatcher_pending, caller>>

\* Every ready session is pumped: one that is stopping finishes, one that
\* runs may finish, cleanly or by an error of its own.
Pump ==
    /\ disp.pc = "drain" /\ queue = <<>>
    /\ LET running == {i \in ready : session[i].state = "running"}
       IN  \E X \in SUBSET running :
              /\ {i \in running : Is(i, "stopping")} \subseteq X
              /\ session' = [i \in DOMAIN session |->
                                IF i \in X THEN Finished(session[i]) ELSE session[i]]
    /\ ready' = {}
    /\ disp' = [pc |-> "wait", i |-> None]
    /\ UNCHANGED <<registryVars, retired, queue, dispatcher_pending, caller>>

InRegistry == {slots[s].session : s \in DOMAIN slots} \ {None}

\* tcpcc_bridge_abort_all: a session that connects is only told to stop.
Aborted(i) == Finished(Stopped(i, "error"))

\* The runtime queue reports an error: the thread stops every session, frees
\* the retired ones and ends.
DispatcherFail ==
    /\ "eio" \in Faults /\ disp.pc = "drain"
    /\ session' = [i \in DOMAIN session |->
                      IF i \in InRegistry THEN Aborted(i)
                      ELSE IF i \in retired THEN [session[i] EXCEPT !.state = "freed"]
                      ELSE session[i]]
    /\ ready' = Requeued(InRegistry)
    /\ retired' = {}
    /\ dispatcher_pending' = TRUE
    /\ disp' = [pc |-> "failed", i |-> None]
    /\ UNCHANGED <<registryVars, queue, caller>>

\* The thread is stopped by tcpcc_bridge_cancel, which returns.
DispatcherExit ==
    /\ disp.pc = "wait" /\ caller.op = "stop"
    /\ FreeRetired
    /\ disp' = [pc |-> "none", i |-> None]
    /\ Return
    /\ UNCHANGED <<registryVars, ready, queue, dispatcher_pending>>

-----------------------------------------------------------------------------
(* The host and the public network *)

\* The idle loop reads an event of a registered fd: the end of a connection
\* attempt, later readiness or an error.
HostEvent(i) ==
    /\ disp.pc \in {"wait", "failed"} /\ Len(queue) < QUEUE_LIMIT
    /\ Is(i, "registered")
    /\ \E events \in {{"writable"}, {"writable", "error"}} :
          queue' = Append(queue, [token |-> Name(i), events |-> events, from |-> i])
    /\ dispatcher_pending' = TRUE
    /\ UNCHANGED <<registryVars, session, ready, retired, disp, caller>>

\* A callback of the public socket, until tcpcc_bridge_reap restores them.
PublicCallback(i) ==
    /\ session[i].state \in {"running", "finished", "reaping"}
    /\ disp.pc # "none"
    /\ ready' = ready \cup {i} /\ dispatcher_pending' = TRUE
    /\ UNCHANGED <<registryVars, session, retired, queue, disp, caller>>

-----------------------------------------------------------------------------
Caller ==
    \/ ConnectReturn \/ ConnectTimeout \/ JoinReturn \/ JoinTimeout \/ ReapEnd
    \/ CancelReap \/ CancelStop \/ CancelReturn

Call ==
    \/ Start \/ StartNoMemory \/ StartRefused \/ Cancel
    \/ \E j \in Id : Join(j) \/ CancelSession(j)

Dispatcher ==
    \/ DispatcherWake \/ Dispatch \/ DispatchEnd \/ Pump \/ DispatcherFail
    \/ DispatcherExit

Next ==
    \/ Call \/ Caller \/ Dispatcher
    \/ \E i \in DOMAIN session : HostEvent(i) \/ PublicCallback(i)

Spec == Init /\ [][Next]_vars

(***************************************************************************)
(* The dispatcher thread runs whenever it is woken; a caller goes on when  *)
(* its completion is signalled or its time is over.                        *)
(***************************************************************************)
FairSpec == Spec /\ WF_vars(Dispatcher) /\ WF_vars(Caller)

-----------------------------------------------------------------------------
(* Properties *)

\* The variables have their types; generation 0 is given to no session.
TypeOK ==
    /\ slots \in Seq([generation : 0..GENERATION_MASK, session : 0..MaxStarts])
    /\ Len(slots) <= SESSION_LIMIT
    /\ free_slots \in Seq(1..SESSION_LIMIT)
    /\ active \subseteq Id /\ ready \subseteq Id /\ retired \subseteq Id
    /\ active_sessions \in Nat
    /\ session \in Seq([slot : 1..SESSION_LIMIT, generation : 1..GENERATION_MASK,
           state : {"connecting", "running", "finished", "reaping", "retired", "freed"},
           status : {"ok", "error", "canceled"},
           connect_events : SUBSET {"writable", "error"},
           is : SUBSET {"accept", "registered", "connect_ready", "stopping",
                        "finished", "issued"}])
    /\ queue \in Seq([token : (1..SESSION_LIMIT) \X (1..GENERATION_MASK),
                      events : SUBSET {"writable", "error"}, from : Id])
    /\ disp \in [pc : {"none", "wait", "drain", "apply", "failed"}, i : 0..MaxStarts]
    /\ dispatcher_pending \in BOOLEAN
    /\ caller \in [op : {"none", "connect", "join", "reap", "cancel", "cancel_reap",
                         "stop"}, i : 0..MaxStarts]

\* Slots, free list, active list and the counter tell one story: a slot is
\* free or holds one allocated session that points back at it, no slot is
\* free twice, and active_sessions counts the sessions held.
SlotsConsistent ==
    /\ active_sessions = Cardinality(active)
    /\ active = InRegistry
    /\ active = {i \in DOMAIN session : Allocated(i)}
    /\ \A i \in active : slots[session[i].slot].session = i
    /\ \A a, b \in DOMAIN free_slots : free_slots[a] = free_slots[b] => a = b
    /\ {free_slots[a] : a \in DOMAIN free_slots} =
          {s \in DOMAIN slots : slots[s].session = None}

\* How often the slot of session i was given out after i and up to j.
Reuses(i, j) == Cardinality({k \in i + 1 .. j : session[k].slot = session[i].slot})

\* A queued event reaches no session but the one whose fd it is of, though
\* its session may have failed to connect, timed out or been reaped since and
\* the slot be in use again: until the slot's generations are used up.
NoStaleEvent ==
    \A n \in DOMAIN queue :
        LET i == queue[n].from
            j == Accepts(queue[n])
        IN  j # None /\ j # i => Reuses(i, j) >= GENERATION_MASK

\* A handle finds its own session or none, until the generations of its slot
\* are used up: a caller never joins or cancels another caller's session.
NoStaleHandle ==
    \A i \in DOMAIN session :
        LET j == FindHandle(Name(i))
        IN  j # None /\ j # i => Reuses(i, j) >= GENERATION_MASK

\* A name, be it the token of a queued event or the handle of a caller, finds the
\* session it was made for or none, until the generations of the slot are used up
\* (tcpcc_bridge_dispatch_event, tcpcc_bridge_find_handle).
NoStaleName == NoStaleEvent /\ NoStaleHandle

\* A freed session is referred to by no list, no slot, no caller and not by
\* the dispatcher; and the sockets of a session are not released while the
\* dispatcher applies an event to it: disable_events waits for its reference.
NoUseAfterFree ==
    /\ \A i \in DOMAIN session : session[i].state = "freed" =>
          /\ i \notin ready \cup active \cup retired \cup InRegistry
          /\ disp.i # i /\ caller.i # i
    /\ disp.pc = "apply" => Allocated(disp.i)

\* When tcpcc_bridge_cancel returns, no session is left and no thread: the
\* next start finds every slot free.
CancelLeavesNothing ==
    [][caller.op = "stop" /\ caller'.op = "none" =>
          /\ active' = {} /\ disp'.pc = "none"
          /\ Len(free_slots') = Len(slots')]_vars

\* Every call returns: a start by its timeout, a reap and a cancel because
\* the dispatcher finishes what is stopped, even when it fails.
CallsReturn == caller.op # "none" ~> caller.op = "none"

\* The registry is sound: slots and lists agree, a name finds its own session or
\* none, and what is freed is referred to by nobody.
RegistrySound == SlotsConsistent /\ NoStaleName /\ NoUseAfterFree

\* Every call returns, and a cancel leaves nothing behind.
CallsEnd == CallsReturn /\ CancelLeavesNothing

=============================================================================
