------------------------------- MODULE Bridge -------------------------------
(***************************************************************************)
(* The data plane of the bridge (bridge.c): one dispatcher thread that     *)
(* forwards bytes between the public socket and the host socket of every   *)
(* session, under edge-triggered readiness, per-direction and per-round    *)
(* budgets, and a pool of forwarding buffers shared by all the sessions.   *)
(*                                                                         *)
(* A session enters this module as bridge_start leaves it: running, all    *)
(* four readiness flags set, and on the ready list.  It leaves by being    *)
(* finished by the dispatcher, reaped by a control caller and freed by the *)
(* dispatcher.  How sessions are started and named is in BridgeRegistry.   *)
(*                                                                         *)
(* The dispatcher gives up the processor between any two steps that have   *)
(* different values of disp.pc: a flag is taken in one step and the socket *)
(* is used in the next, so socket callbacks and peers run in between.      *)
(***************************************************************************)
EXTENDS Integers, Sequences, FiniteSets

CONSTANTS
    Session,             \* the sessions started before the dispatcher ran
    BUFFER_LIMIT,        \* TCPCC_BRIDGE_BUFFER_LIMIT, the size of a buffer
    TOTAL_BUFFER_LIMIT,  \* TCPCC_BRIDGE_TOTAL_BUFFER_LIMIT, of the pool
    DIRECTION_BUDGET,    \* TCPCC_BRIDGE_DIRECTION_BUDGET
    DISPATCH_BUDGET,     \* TCPCC_BRIDGE_DISPATCH_BUDGET
    SOCKET_SPACE,        \* bytes a socket queues in either direction
    Supply,              \* bytes the peer of each side sends in all
    Joined,              \* the sessions some caller joins, and so reaps
    Faults               \* which of "reset", "enomem", "cancel" may happen

Side == {"public", "host"}
Dir == {"p2b", "b2p"}
Flow == Session \X Dir
End == Session \X Side

ASSUME ConstantsAssumption ==
    /\ IsFiniteSet(Session) /\ Session # {}
    /\ BUFFER_LIMIT \in Nat \ {0}
    /\ TOTAL_BUFFER_LIMIT \in Nat
    /\ DIRECTION_BUDGET \in Nat \ {0}
    /\ DISPATCH_BUDGET \in Nat \ {0}
    /\ SOCKET_SPACE \in Nat \ {0}
    /\ Supply \in [Side -> Nat]
    /\ Joined \subseteq Session
    /\ Faults \subseteq {"reset", "enomem", "cancel"}

VARIABLES
    phase,               \* the session's flags, see Phase
    status,              \* session->status: "ok", or the first error
    ready,               \* manager.ready, FIFO
    dispatcher_pending,  \* manager.dispatcher_pending
    disp,                \* where the dispatcher is
    readable,            \* ends with public_readable / host_readable set
    writable,            \* ends with public_writable / host_writable set
    buffer,              \* flows that hold a forwarding buffer
    buffer_bytes,        \* manager.buffer_bytes
    buffer_waiters,      \* manager.buffer_waiters, FIFO
    waiting,             \* flows with public_/backend_buffer_waiting set
    unsent,              \* length - offset of each flow
    done,                \* flows with *_done set
    bytes,               \* public_to_backend_bytes, backend_to_public_bytes
    sock,                \* the two sockets of each session, external
    edge                 \* sessions whose host fd has an edge to report

queueVars == <<ready, dispatcher_pending>>
poolVars == <<buffer, buffer_bytes, buffer_waiters, waiting>>
flagVars == <<readable, writable>>
flowVars == <<unsent, done, bytes>>
sockVars == <<sock, edge>>
sessionVars == <<phase, status>>
vars == <<queueVars, disp, poolVars, flagVars, flowVars, sockVars, sessionVars>>

Src(d) == IF d = "p2b" THEN "public" ELSE "host"
Dst(d) == IF d = "p2b" THEN "host" ELSE "public"

(***************************************************************************)
(* running: allocated, running.  stopping: allocated, stopping.  finished: *)
(* finished_notified, callbacks and events still delivered.  reaping: the  *)
(* callbacks are restored and accept_events is false.  retired: allocated  *)
(* is false and the session is on the retired list.  freed: kfree'd.       *)
(***************************************************************************)
Phase == {"running", "stopping", "finished", "reaping", "retired", "freed"}
Allocated(s) == phase[s] \in {"running", "stopping", "finished", "reaping"}
Notified(s) == phase[s] \in {"running", "stopping", "finished"}

Elements(q) == {q[i] : i \in 1..Len(q)}

\* The members of X in the order in which q lists them.
InOrder(X, q) ==
    {p \in [1..Cardinality(X) -> X] :
        \A i, j \in 1..Cardinality(X) : i < j =>
            \E a, b \in 1..Len(q) : a < b /\ q[a] = p[i] /\ q[b] = p[j]}

Without(q, s) ==
    IF s \in Elements(q)
    THEN LET i == CHOOSE i \in 1..Len(q) : q[i] = s
         IN  SubSeq(q, 1, i - 1) \o SubSeq(q, i + 1, Len(q))
    ELSE q

\* tcpcc_bridge_queue_session: at most one entry per allocated session.
Queued(q, s) == IF Allocated(s) /\ s \notin Elements(q) THEN Append(q, s) ELSE q
QueueSession(s) == ready' = Queued(ready, s) /\ dispatcher_pending' = TRUE

(***************************************************************************)
(* A socket as the bridge meets it: bytes to read, bytes written and not   *)
(* yet taken by the peer, bytes the peer sent in all, and what happened to *)
(* it.  eof: the peer's FIN, or our SHUT_RD.  shut: our SHUT_WR.  err: a   *)
(* reset.  nospace: a send met a full queue.  closed: TCP_CLOSE.           *)
(***************************************************************************)
Socket == [rx : 0..SOCKET_SPACE, tx : 0..SOCKET_SPACE, made : Nat,
           is : SUBSET {"eof", "shut", "err", "nospace", "closed"}]

Is(e, event) == event \in sock[e].is

\* As tcpcc_bridge_start leaves the sessions, before the dispatcher runs.
Init ==
    /\ phase = [s \in Session |-> "running"]
    /\ status = [s \in Session |-> "ok"]
    /\ ready \in {q \in [1..Cardinality(Session) -> Session] :
                     Elements(q) = Session}
    /\ dispatcher_pending = TRUE
    /\ disp = [pc |-> "wait", s |-> ready[1], d |-> "p2b", ops |-> 0,
               dispatched |-> 0]
    /\ readable = End /\ writable = End
    /\ buffer = {} /\ buffer_bytes = 0 /\ buffer_waiters = <<>> /\ waiting = {}
    /\ unsent = [f \in Flow |-> 0]
    /\ done = {}
    /\ bytes = [f \in Flow |-> 0]
    /\ sock = [e \in End |-> [rx |-> 0, tx |-> 0, made |-> 0, is |-> {}]]
    /\ edge = {}

-----------------------------------------------------------------------------
(* Buffers *)

\* Slip: the limit is tested before the new buffer is counted.
HasRoomUncounted(f) == f \in buffer \/ buffer_bytes < TOTAL_BUFFER_LIMIT + 1

\* tcpcc_bridge_acquire_buffer's limit test: a flow keeps the one it has.
HasRoom(f) == f \in buffer \/ buffer_bytes + BUFFER_LIMIT <= TOTAL_BUFFER_LIMIT

AcquireBuffer(f) ==
    /\ buffer' = buffer \cup {f}
    /\ buffer_bytes' = IF f \in buffer THEN buffer_bytes
                                       ELSE buffer_bytes + BUFFER_LIMIT

WaitForBuffer(f) ==
    /\ waiting' = waiting \cup {f}
    /\ buffer_waiters' = IF f[1] \in Elements(buffer_waiters)
                         THEN buffer_waiters
                         ELSE Append(buffer_waiters, f[1])

\* Slip: the buffer is freed and nobody is told.
ReleaseBuffersSilently(F, w, flags, q) ==
    /\ buffer' = buffer \ F
    /\ buffer_bytes' = buffer_bytes - BUFFER_LIMIT * Cardinality(F)
    /\ buffer_waiters' = w /\ waiting' = flags /\ ready' = q
    /\ UNCHANGED dispatcher_pending

(***************************************************************************)
(* tcpcc_bridge_release_buffer for the flows of F, when w is the list of   *)
(* waiters, flags their flows and q the ready list: every waiter is taken  *)
(* off the list, loses both flags and is queued.                           *)
(***************************************************************************)
ReleaseBuffers(F, w, flags, q) ==
    /\ buffer' = buffer \ F
    /\ buffer_bytes' = buffer_bytes - BUFFER_LIMIT * Cardinality(F)
    /\ \/ /\ F = {}
          /\ buffer_waiters' = w /\ waiting' = flags /\ ready' = q
          /\ UNCHANGED dispatcher_pending
       \/ /\ F # {}
          /\ buffer_waiters' = <<>>
          /\ waiting' = {f \in flags : f[1] \notin Elements(w)}
          /\ LET woken == {s \in Elements(w) : Allocated(s)} \ Elements(q)
             IN  \E p \in InOrder(woken, w) : ready' = q \o p
          /\ dispatcher_pending' = (dispatcher_pending \/ w # <<>>)

-----------------------------------------------------------------------------
(* Stopping and finishing *)

\* The result recorded by tcpcc_bridge_session_stop: the first error wins.
FirstStatus(s, st) ==
    status' = [status EXCEPT ![s] = IF @ = "ok" THEN st ELSE @]

\* Both sockets are shut down, by the first stop only.
AbortSockets(s) ==
    sock' = IF phase[s] = "running"
            THEN [e \in End |-> IF e[1] = s
                                THEN [sock[e] EXCEPT !.is = @ \cup {"eof", "shut"}]
                                ELSE sock[e]]
            ELSE sock

\* shutdown wakes whoever watches the socket: the epoll entry of the host fd,
\* the sk_state_change callback of the public socket.
AbortEdge(s) == IF phase[s] = "running" THEN {s} ELSE {}
AbortMark(s) == IF phase[s] = "running" THEN {<<s, "public">>} ELSE {}

SessionStop(s, st) ==
    /\ FirstStatus(s, st)
    /\ phase' = [phase EXCEPT ![s] = IF @ = "running" THEN "stopping" ELSE @]
    /\ AbortSockets(s)
    /\ QueueSession(s)

\* Slip: only one of the two buffers is released.
SessionFinishHalf(s, q) ==
    /\ phase' = [phase EXCEPT ![s] = "finished"]
    /\ ReleaseBuffers(buffer \cap {<<s, "b2p">>}, Without(buffer_waiters, s),
                      {f \in waiting : f[1] # s}, q)

\* tcpcc_bridge_session_finish of a session that was not finished before.
SessionFinish(s, q) ==
    /\ phase' = [phase EXCEPT ![s] = "finished"]
    /\ ReleaseBuffers({f \in buffer : f[1] = s}, Without(buffer_waiters, s),
                      {f \in waiting : f[1] # s}, q)

-----------------------------------------------------------------------------
(* How the readiness of a socket reaches its session *)

\* The callbacks of the public socket mark it ready and queue the session; a
\* change of the host socket leaves an edge for epoll to report.
Notify(e, r, w) ==
    \/ /\ e[2] = "public" /\ Notified(e[1])
       /\ readable' = IF r THEN readable \cup {e} ELSE readable
       /\ writable' = IF w THEN writable \cup {e} ELSE writable
       /\ QueueSession(e[1])
       /\ UNCHANGED edge
    \/ /\ e[2] = "host" /\ Notified(e[1])
       /\ edge' = edge \cup {e[1]}
       /\ UNCHANGED <<flagVars, queueVars>>
    \/ /\ ~Notified(e[1])
       /\ UNCHANGED <<flagVars, queueVars, edge>>

-----------------------------------------------------------------------------
(* The dispatcher thread *)

At(pc) == disp.pc = pc
NextSession == disp' = [disp EXCEPT !.pc = "round", !.d = "p2b", !.ops = 0,
                                    !.dispatched = @ + 1]

\* wait_event returns; sessions retired since are freed.
DispatcherWake ==
    /\ At("wait") /\ dispatcher_pending
    /\ dispatcher_pending' = FALSE
    /\ phase' = [s \in Session |-> IF phase[s] = "retired" THEN "freed"
                                                           ELSE phase[s]]
    /\ disp' = [disp EXCEPT !.pc = "round"]
    /\ UNCHANGED <<ready, poolVars, flagVars, flowVars, sockVars, status>>

TakeReady ==
    /\ At("round") /\ disp.dispatched < DISPATCH_BUDGET /\ ready # <<>>
    /\ ready' = Tail(ready)
    /\ disp' = [disp EXCEPT !.pc = "pump", !.s = Head(ready)]
    /\ UNCHANGED <<dispatcher_pending, poolVars, flagVars, flowVars, sockVars,
                   sessionVars>>

\* Slip: a round cut short by its budget does not wake the next one.
RoundEndAsleep ==
    /\ At("round") /\ (disp.dispatched = DISPATCH_BUDGET \/ ready = <<>>)
    /\ disp' = [disp EXCEPT !.pc = "wait", !.dispatched = 0]
    /\ UNCHANGED <<queueVars, poolVars, flagVars, flowVars, sockVars, sessionVars>>

RoundEnd ==
    /\ At("round") /\ (disp.dispatched = DISPATCH_BUDGET \/ ready = <<>>)
    /\ disp' = [disp EXCEPT !.pc = "wait", !.dispatched = 0]
    /\ dispatcher_pending' =
          (dispatcher_pending \/ disp.dispatched = DISPATCH_BUDGET)
    /\ UNCHANGED <<ready, poolVars, flagVars, flowVars, sockVars, sessionVars>>

\* Slip: a session that is stopping is passed over.
PumpBeginPassing ==
    /\ At("pump")
    /\ \/ phase[disp.s] = "running" /\ disp' = [disp EXCEPT !.pc = "flow"]
       \/ phase[disp.s] # "running" /\ NextSession
    /\ UNCHANGED <<queueVars, poolVars, flagVars, flowVars, sockVars, sessionVars>>

\* tcpcc_bridge_pump_session up to the first direction.
PumpBegin ==
    /\ At("pump")
    /\ \/ /\ phase[disp.s] = "running"
          /\ disp' = [disp EXCEPT !.pc = "flow"]
          /\ UNCHANGED <<queueVars, poolVars, phase>>
       \/ /\ phase[disp.s] = "stopping"
          /\ SessionFinish(disp.s, ready)
          /\ NextSession
       \/ /\ phase[disp.s] \notin {"running", "stopping"}
          /\ NextSession
          /\ UNCHANGED <<queueVars, poolVars, phase>>
    /\ UNCHANGED <<flagVars, flowVars, sockVars, status>>

Cur == <<disp.s, disp.d>>
Source == <<disp.s, Src(disp.d)>>
Sink == <<disp.s, Dst(disp.d)>>
InLoop == disp.ops < DIRECTION_BUDGET /\ Cur \notin done

\* What ends the loop of a direction before its next operation.
Blocked ==
    \/ ~InLoop
    \/ unsent[Cur] > 0 /\ Sink \notin writable
    \/ unsent[Cur] = 0 /\ (Cur \in waiting \/ Source \notin readable)

\* The tail of a direction: a used-up budget queues the session again.
FlowLeave ==
    /\ At("leave") \/ (At("flow") /\ Blocked)
    /\ IF disp.ops = DIRECTION_BUDGET THEN QueueSession(disp.s)
                                      ELSE UNCHANGED queueVars
    /\ disp' = IF disp.d = "p2b"
               THEN [disp EXCEPT !.pc = "flow", !.d = "b2p", !.ops = 0]
               ELSE [disp EXCEPT !.pc = "end"]
    /\ UNCHANGED <<poolVars, flagVars, flowVars, sockVars, sessionVars>>

TakeWritable ==
    /\ At("flow") /\ ~Blocked /\ unsent[Cur] > 0
    /\ writable' = writable \ {Sink}
    /\ disp' = [disp EXCEPT !.pc = "send"]
    /\ UNCHANGED <<queueVars, poolVars, readable, flowVars, sockVars,
                   sessionVars>>

\* Slip: the next bytes are read over bytes not yet sent.
MayReadEarly == At("flow") /\ InLoop /\ Cur \notin waiting /\ Source \in readable

MayRead == At("flow") /\ ~Blocked /\ unsent[Cur] = 0

TakeReadable ==
    /\ MayRead /\ HasRoom(Cur)
    /\ readable' = readable \ {Source}
    /\ AcquireBuffer(Cur)
    /\ disp' = [disp EXCEPT !.pc = "recv"]
    /\ UNCHANGED <<queueVars, buffer_waiters, waiting, writable, flowVars,
                   sockVars, sessionVars>>

\* Slip: the flag taken for the read is not set again.
TakeReadableForgotten ==
    /\ MayRead /\ ~HasRoom(Cur)
    /\ WaitForBuffer(Cur)
    /\ readable' = readable \ {Source}
    /\ disp' = [disp EXCEPT !.pc = "leave"]
    /\ UNCHANGED <<queueVars, buffer, buffer_bytes, writable, flowVars,
                   sockVars, sessionVars>>

\* The pool is used up: the flag is set again and the flow waits.
TakeReadableNoRoom ==
    /\ MayRead /\ ~HasRoom(Cur)
    /\ WaitForBuffer(Cur)
    /\ disp' = [disp EXCEPT !.pc = "leave"]
    /\ UNCHANGED <<queueVars, buffer, buffer_bytes, flagVars, flowVars,
                   sockVars, sessionVars>>

\* kmalloc of a new buffer fails.
TakeReadableNoMemory ==
    /\ "enomem" \in Faults
    /\ MayRead /\ HasRoom(Cur) /\ Cur \notin buffer
    /\ readable' = readable \ {Source}
    /\ disp' = [disp EXCEPT !.pc = "fail"]
    /\ UNCHANGED <<queueVars, poolVars, writable, flowVars, sockVars,
                   sessionVars>>

\* One send: an error, EAGAIN, or as many of the bytes as the socket takes.
Send ==
    /\ At("send")
    /\ LET room == SOCKET_SPACE - sock[Sink].tx
           n == IF unsent[Cur] <= room THEN unsent[Cur] ELSE room
           full == IF n < unsent[Cur] THEN {"nospace"} ELSE {}
       IN  \/ /\ Is(Sink, "err") \/ Is(Sink, "shut")
              /\ disp' = [disp EXCEPT !.pc = "fail"]
              /\ UNCHANGED <<writable, unsent, bytes, sock>>
           \/ /\ ~Is(Sink, "err") /\ ~Is(Sink, "shut") /\ room = 0
              /\ sock' = [sock EXCEPT ![Sink].is = @ \cup {"nospace"}]
              /\ disp' = [disp EXCEPT !.pc = "leave", !.ops = @ + 1]
              /\ UNCHANGED <<writable, unsent, bytes>>
           \/ /\ ~Is(Sink, "err") /\ ~Is(Sink, "shut") /\ room > 0
              /\ sock' = [sock EXCEPT ![Sink].tx = @ + n, ![Sink].is = @ \cup full]
              /\ unsent' = [unsent EXCEPT ![Cur] = @ - n]
              /\ bytes' = [bytes EXCEPT ![Cur] = @ + n]
              /\ writable' = writable \cup {Sink}
              /\ disp' = [disp EXCEPT !.pc = "flow", !.ops = @ + 1]
    /\ UNCHANGED <<queueVars, poolVars, readable, done, edge, sessionVars>>

RecvData ==
    /\ At("recv") /\ sock[Source].rx > 0
    /\ LET n == IF sock[Source].rx <= BUFFER_LIMIT THEN sock[Source].rx
                                                   ELSE BUFFER_LIMIT
       IN  /\ sock' = [sock EXCEPT ![Source].rx = @ - n]
           /\ unsent' = [unsent EXCEPT ![Cur] = n]
    /\ readable' = readable \cup {Source}
    /\ disp' = [disp EXCEPT !.pc = "flow", !.ops = @ + 1]
    /\ UNCHANGED <<queueVars, poolVars, writable, done, bytes, edge,
                   sessionVars>>

RecvAgain ==
    /\ At("recv")
    /\ sock[Source].rx = 0 /\ ~Is(Source, "eof") /\ ~Is(Source, "err")
    /\ ReleaseBuffers({Cur}, buffer_waiters, waiting, ready)
    /\ disp' = [disp EXCEPT !.pc = "leave", !.ops = @ + 1]
    /\ UNCHANGED <<flagVars, flowVars, sockVars, sessionVars>>

RecvError ==
    /\ At("recv")
    /\ sock[Source].rx = 0 /\ ~Is(Source, "eof") /\ Is(Source, "err")
    /\ disp' = [disp EXCEPT !.pc = "fail"]
    /\ UNCHANGED <<queueVars, poolVars, flagVars, flowVars, sockVars,
                   sessionVars>>

\* End of the source: the buffer is released and the sink is shut down, which
\* fails on a socket that is closed already.
RecvEof ==
    /\ At("recv") /\ sock[Source].rx = 0 /\ Is(Source, "eof")
    /\ ReleaseBuffers({Cur}, buffer_waiters, waiting, ready)
    /\ disp' = [disp EXCEPT !.pc = "shut", !.ops = @ + 1]
    /\ UNCHANGED <<flagVars, flowVars, sockVars, sessionVars>>

ShutdownSink ==
    /\ At("shut")
    /\ \/ /\ Is(Sink, "closed")
          /\ disp' = [disp EXCEPT !.pc = "fail"]
          /\ UNCHANGED <<queueVars, flagVars, done, sockVars>>
       \/ /\ ~Is(Sink, "closed")
          /\ sock' = [sock EXCEPT ![Sink].is = @ \cup {"shut"}]
          /\ done' = done \cup {Cur}
          /\ disp' = [disp EXCEPT !.pc = "leave"]
          /\ Notify(Sink, TRUE, TRUE)
    /\ UNCHANGED <<poolVars, unsent, bytes, sessionVars>>

\* tcpcc_bridge_pump_session on an error: stop, then finish.
Fail ==
    /\ At("fail")
    /\ FirstStatus(disp.s, "error")
    /\ AbortSockets(disp.s)
    /\ edge' = edge \cup AbortEdge(disp.s)
    /\ readable' = readable \cup AbortMark(disp.s)
    /\ writable' = writable \cup AbortMark(disp.s)
    /\ SessionFinish(disp.s, Queued(ready, disp.s))
    /\ NextSession
    /\ UNCHANGED flowVars

\* Slip: one finished direction is enough.
PumpEndEarly ==
    /\ At("end")
    /\ IF ({disp.s} \X Dir) \cap done # {} /\ Is(<<disp.s, "public">>, "closed")
       THEN SessionFinish(disp.s, ready)
       ELSE UNCHANGED <<queueVars, poolVars, phase>>
    /\ NextSession
    /\ UNCHANGED <<flagVars, flowVars, sockVars, status>>

\* Both directions are done and the public socket reached TCP_CLOSE, or not.
PumpEnd ==
    /\ At("end")
    /\ IF {disp.s} \X Dir \subseteq done /\ Is(<<disp.s, "public">>, "closed")
       THEN SessionFinish(disp.s, ready)
       ELSE UNCHANGED <<queueVars, poolVars, phase>>
    /\ NextSession
    /\ UNCHANGED <<flagVars, flowVars, sockVars, status>>

-----------------------------------------------------------------------------
(* Host events, control callers *)

\* One event of epoll, read while the hosted CPU idles, through
\* tcpcc_bridge_dispatch_event.
HostEvent(s) ==
    /\ At("wait") /\ ~dispatcher_pending
    /\ s \in edge
    /\ LET h == <<s, "host">>
           hangup == Is(h, "err") \/ (Is(h, "eof") /\ Is(h, "shut"))
           in == sock[h].rx > 0 \/ Is(h, "eof") \/ hangup
           out == sock[h].tx < SOCKET_SPACE \/ Is(h, "shut") \/ hangup
           mark(set, on) == IF on THEN set \cup {h} ELSE set
       IN  \/ /\ Is(h, "err")
              /\ SessionStop(s, "error")
              /\ readable' = mark(readable, in) \cup AbortMark(s)
              /\ writable' = mark(writable, out) \cup AbortMark(s)
              /\ edge' = (edge \ {s}) \cup AbortEdge(s)
           \/ /\ ~Is(h, "err")
              /\ readable' = mark(readable, in)
              /\ writable' = mark(writable, out)
              /\ edge' = edge \ {s}
              /\ QueueSession(s)
              /\ UNCHANGED <<sessionVars, sock>>
    /\ UNCHANGED <<disp, poolVars, flowVars>>

\* tcpcc_bridge_cancel_session and tcpcc_bridge_cancel stop a session, which
\* may have finished already.
Cancel(s) ==
    /\ "cancel" \in Faults
    /\ phase[s] \in {"running", "finished"}
    /\ SessionStop(s, "canceled")
    /\ edge' = edge \cup AbortEdge(s)
    /\ readable' = readable \cup AbortMark(s)
    /\ writable' = writable \cup AbortMark(s)
    /\ UNCHANGED <<disp, poolVars, flowVars>>

\* Slip: the session is left on the ready list.
ReapBeginQueued(s) ==
    /\ s \in Joined /\ phase[s] = "finished"
    /\ phase' = [phase EXCEPT ![s] = "reaping"]
    /\ edge' = edge \ {s}
    /\ UNCHANGED <<queueVars, disp, poolVars, flagVars, flowVars, sock, status>>

\* tcpcc_bridge_reap, before and after the sockets are released.
ReapBegin(s) ==
    /\ s \in Joined /\ phase[s] = "finished"
    /\ phase' = [phase EXCEPT ![s] = "reaping"]
    /\ ready' = Without(ready, s)
    /\ edge' = edge \ {s}
    /\ UNCHANGED <<dispatcher_pending, disp, poolVars, flagVars, flowVars,
                   sock, status>>

ReapEnd(s) ==
    /\ phase[s] = "reaping"
    /\ phase' = [phase EXCEPT ![s] = "retired"]
    /\ dispatcher_pending' = TRUE
    /\ UNCHANGED <<ready, disp, poolVars, flagVars, flowVars, sockVars, status>>

-----------------------------------------------------------------------------
(* The peers of the two sockets, and the network between *)

PeerVars == <<disp, poolVars, flowVars, sessionVars>>

PeerSend(e) ==
    /\ Notified(e[1])
    /\ sock[e].made < Supply[e[2]] /\ ~Is(e, "eof") /\ ~Is(e, "err")
    /\ sock[e].rx < SOCKET_SPACE
    /\ sock' = [sock EXCEPT ![e].rx = @ + 1, ![e].made = @ + 1]
    /\ Notify(e, TRUE, FALSE)
    /\ UNCHANGED PeerVars

PeerFin(e) ==
    /\ Notified(e[1]) /\ ~Is(e, "eof") /\ ~Is(e, "err")
    /\ sock' = [sock EXCEPT ![e].is = @ \cup {"eof"}]
    /\ Notify(e, TRUE, TRUE)
    /\ UNCHANGED PeerVars

\* The peer takes a byte.  The writer hears of it once it has met a full
\* queue, at the latest when the queue is empty.
PeerRead(e) ==
    /\ Notified(e[1]) /\ sock[e].tx > 0
    /\ \/ /\ Is(e, "nospace")
          /\ sock' = [sock EXCEPT ![e].tx = @ - 1, ![e].is = @ \ {"nospace"}]
          /\ Notify(e, FALSE, TRUE)
       \/ /\ ~Is(e, "nospace") \/ sock[e].tx > 1
          /\ sock' = [sock EXCEPT ![e].tx = @ - 1]
          /\ UNCHANGED <<flagVars, queueVars, edge>>
    /\ UNCHANGED PeerVars

PeerReset(e) ==
    /\ "reset" \in Faults
    /\ Notified(e[1]) /\ ~Is(e, "err") /\ ~Is(e, "closed")
    /\ sock' = [sock EXCEPT ![e].tx = 0,
                   ![e].is = (@ \ {"nospace"}) \cup {"err", "closed"}]
    /\ Notify(e, TRUE, TRUE)
    /\ UNCHANGED PeerVars

\* Both FINs of the public connection are acknowledged: TCP_CLOSE.
PublicClosed(s) ==
    /\ Notified(s)
    /\ LET e == <<s, "public">>
       IN  /\ Is(e, "shut") /\ Is(e, "eof") /\ ~Is(e, "closed") /\ sock[e].tx = 0
           /\ sock' = [sock EXCEPT ![e].is = @ \cup {"closed"}]
    /\ Notify(<<s, "public">>, TRUE, TRUE)
    /\ UNCHANGED PeerVars

-----------------------------------------------------------------------------
Dispatcher ==
    \/ DispatcherWake \/ TakeReady \/ RoundEnd \/ PumpBegin
    \/ FlowLeave \/ TakeWritable
    \/ TakeReadable \/ TakeReadableNoRoom \/ TakeReadableNoMemory
    \/ Send \/ RecvData \/ RecvAgain \/ RecvError \/ RecvEof \/ ShutdownSink
    \/ Fail \/ PumpEnd

Control(s) == Cancel(s) \/ ReapBegin(s) \/ ReapEnd(s)
Peer(e) == PeerSend(e) \/ PeerFin(e) \/ PeerRead(e) \/ PeerReset(e)

Next ==
    \/ Dispatcher
    \/ \E s \in Session : HostEvent(s) \/ Control(s) \/ PublicClosed(s)
    \/ \E e \in End : Peer(e)

Spec == Init /\ [][Next]_vars

(***************************************************************************)
(* The dispatcher is a kernel thread that runs whenever it is woken, and   *)
(* the idle loop of the hosted CPU reads host events whenever nothing else *)
(* runs.  Nothing is assumed of the peers.                                 *)
(***************************************************************************)
FairSpec ==
    /\ Spec
    /\ WF_vars(Dispatcher)
    /\ WF_vars(\E s \in Session : HostEvent(s))

(***************************************************************************)
(* Peers that keep reading, end their stream and acknowledge our FIN.      *)
(***************************************************************************)
CooperativePeers ==
    \/ \E e \in End : PeerFin(e) \/ PeerRead(e)
    \/ \E s \in Session : PublicClosed(s)

-----------------------------------------------------------------------------
(* Properties *)

\* The variables have their types; in particular the bytes reserved for
\* buffers stay within the pool's limit (tcpcc_bridge_acquire_buffer).
TypeOK ==
    /\ phase \in [Session -> Phase]
    /\ status \in [Session -> {"ok", "error", "canceled"}]
    /\ ready \in Seq(Session) /\ buffer_waiters \in Seq(Session)
    /\ dispatcher_pending \in BOOLEAN
    /\ disp \in [pc : {"wait", "round", "pump", "flow", "leave", "send", "recv",
                       "shut", "fail", "end"},
                 s : Session, d : Dir, ops : 0..DIRECTION_BUDGET,
                 dispatched : 0..DISPATCH_BUDGET]
    /\ readable \subseteq End /\ writable \subseteq End
    /\ buffer \subseteq Flow /\ waiting \subseteq Flow /\ done \subseteq Flow
    /\ buffer_bytes \in 0..TOTAL_BUFFER_LIMIT
    /\ unsent \in [Flow -> 0..BUFFER_LIMIT]
    /\ bytes \in [Flow -> Nat]
    /\ sock \in [End -> Socket]
    /\ edge \subseteq Session

\* The counter buffer_bytes is exactly the memory held by the flows, through
\* every acquire, every release of tcpcc_bridge_release_buffer and every
\* release of tcpcc_bridge_release_session_buffers, and a buffer is held only
\* by a session that is not finished.
PoolExact ==
    /\ buffer_bytes = BUFFER_LIMIT * Cardinality(buffer)
    /\ \A f \in buffer : phase[f[1]] \in {"running", "stopping"}

\* A session waits for a buffer only while the pool really has none left: the
\* release that makes room takes every waiter off the list and queues it
\* (tcpcc_bridge_wake_buffer_waiters).  A flow with its waiting flag set is
\* on the list, and never belongs to a finished session.
NoLostBufferWakeup ==
    /\ buffer_waiters # <<>> => buffer_bytes + BUFFER_LIMIT > TOTAL_BUFFER_LIMIT
    /\ \A f \in waiting : f[1] \in Elements(buffer_waiters)
    /\ \A s \in Elements(buffer_waiters) : phase[s] \in {"running", "stopping"}

Idle == At("wait") /\ ~dispatcher_pending

\* Every byte a peer sent is in the source socket, in the flow's buffer, or
\* was handed to the sink, whatever partial writes, budgets, waits for a
\* buffer and EAGAINs happened in between.
BytesConserved ==
    \A f \in Flow : LET src == sock[<<f[1], Src(f[2])>>]
                    IN  src.made = src.rx + unsent[f] + bytes[f]

\* No edge is lost.  When the dispatcher sleeps and epoll has nothing to
\* report for a running session, each direction that is not done is truly
\* blocked: it has bytes for a sink that owes it a write-space notification,
\* or it waits for a buffer, or its source has nothing to read.
NoStall ==
    Idle => \A f \in Flow :
        LET src == <<f[1], Src(f[2])>>
            snk == <<f[1], Dst(f[2])>>
        IN  phase[f[1]] = "running" /\ f[1] \notin edge /\ f \notin done =>
               IF unsent[f] > 0
               THEN sock[snk].tx > 0 /\ Is(snk, "nospace")
               ELSE \/ f \in waiting
                    \/ sock[src].rx = 0 /\ ~Is(src, "eof") /\ ~Is(src, "err")

\* The dispatcher never sleeps on a ready session, in particular not after a
\* round cut short by TCPCC_BRIDGE_DISPATCH_BUDGET; and a session that must
\* be finished is on the list or in the dispatcher's hands.
NoLostDispatch ==
    /\ ready # <<>> /\ At("wait") => dispatcher_pending
    /\ \A s \in Session : phase[s] = "stopping" =>
          s \in Elements(ready) \/ (disp.s = s /\ disp.pc \notin {"wait", "round"})

\* A session that finishes with status 0 has forwarded, in both directions,
\* every byte its source ever sent, and both sinks got their FIN.
CleanFinish ==
    \A s \in Session : phase[s] = "finished" /\ status[s] = "ok" =>
        \A d \in Dir : /\ <<s, d>> \in done
                       /\ bytes[<<s, d>>] = sock[<<s, Src(d)>>].made
                       /\ Is(<<s, Dst(d)>>, "shut")

\* A freed session is in no list and not in the dispatcher's hands: it is
\* unqueued before it is retired, and only the dispatcher frees, between two
\* rounds (tcpcc_bridge_reap, tcpcc_bridge_drain_retired).
NoUseAfterFree ==
    \A s \in Session : phase[s] = "freed" =>
        /\ s \notin Elements(ready) \cup Elements(buffer_waiters)
        /\ disp.s = s => disp.pc \in {"wait", "round"}

\* A stopped session is finished, whatever its peers do: a caller blocked in
\* tcpcc_bridge_cancel on its completion returns.
StopFinishes ==
    \A s \in Session : phase[s] = "stopping" ~> phase[s] # "stopping"

\* With peers that read, end their stream and acknowledge, every session runs
\* to its end, though its directions compete for the buffers of one pool.
AllFinish ==
    WF_vars(CooperativePeers) => <>(\A s \in Session : phase[s] \notin {"running", "stopping"})

\* What is read is delivered: no byte is lost or duplicated on its way, no
\* direction sleeps on work it could do, and a clean finish is complete.
Delivery == BytesConserved /\ NoStall /\ CleanFinish

\* Both: a stopped session finishes always, every session with peers that
\* cooperate (tcpcc_bridge_cancel, tcpcc_bridge_finish).
Finishes == StopFinishes /\ AllFinish

=============================================================================
