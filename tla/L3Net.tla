------------------------------- MODULE L3Net --------------------------------
(***************************************************************************)
(* The hosted L3 network device (l3net.c): packets of the hosted kernel    *)
(* are queued by tcpcc_l3_xmit and written to the TUN queue by one I/O     *)
(* thread, which also reads the packets the TUN delivers.  The thread      *)
(* sleeps on io_wait and is woken by the interrupt of the TUN descriptor   *)
(* and by the first packet of an empty queue.                              *)
(*                                                                         *)
(* The host (the TUN, and epoll in edge-triggered mode) runs in parallel   *)
(* with the thread, so every host call is a step of its own.  Packets are  *)
(* numbered in the order in which tcpcc_l3_xmit accepts them.              *)
(***************************************************************************)
EXTENDS Integers, Sequences, FiniteSets

CONSTANTS
    TX_QUEUE_LIMIT,      \* TCPCC_L3_TX_QUEUE_LIMIT
    TX_LOW_WATERMARK,    \* TCPCC_L3_TX_LOW_WATERMARK
    IO_BUDGET,           \* TCPCC_L3_IO_BUDGET
    HOST_ROOM,           \* bound: writes the TUN takes before EAGAIN
    MaxTx,               \* bound: packets accepted for transmission
    MaxRx,               \* bound: packets delivered by the TUN
    Faults               \* which host calls may fail

FaultKinds == {"attach", "read", "write", "mod", "hangup"}

ASSUME ConstantsAssumption ==
    /\ {TX_QUEUE_LIMIT, IO_BUDGET, HOST_ROOM, TX_LOW_WATERMARK} \subseteq Nat \ {0}
    /\ TX_LOW_WATERMARK =< TX_QUEUE_LIMIT
    /\ {MaxTx, MaxRx} \subseteq Nat
    /\ Faults \subseteq FaultKinds

VARIABLES
    tx_queue,            \* priv->tx_queue
    tx_pending,          \* priv->tx_pending, 0 for NULL
    pending_events,      \* priv->pending_events
    flags,               \* which flags of priv and of the device are set
    acquired,            \* what the attachment holds of the host and the kernel
    thread,              \* the I/O thread: where it is, packets, did_work
    ctl,                 \* the control thread in attach and teardown
    interest, edges,     \* epoll: the descriptor's mask, its unread events
    rx, room,            \* the TUN: packets to read, writes it can take
    arrived, accepted,   \* packets the TUN delivered, packets xmit accepted
    sent, dropped        \* packets written, packets accepted but dropped

hostVars == <<interest, edges, rx, room>>
txVars == <<tx_queue, tx_pending, sent, dropped>>
vars == <<txVars, pending_events, flags, acquired, thread, ctl, hostVars,
          arrived, accepted>>

FlagKinds == {"tx_blocked", "shutting_down", "queue_stopped"}
Resources == {"fd", "netdev", "irq", "event", "io_task", "open"}
NoPacket == 0
Elements(q) == {q[n] : n \in 1..Len(q)}

Init ==
    /\ tx_queue = <<>> /\ tx_pending = NoPacket
    /\ pending_events = {} /\ flags = {} /\ acquired = {"fd"}
    /\ thread = [pc |-> "none", packets |-> 0, did_work |-> "no"]
    /\ ctl = "detached"
    /\ interest = {} /\ edges = {} /\ rx = 0 /\ room = HOST_ROOM
    /\ arrived = 0 /\ accepted = 0 /\ sent = <<>> /\ dropped = {}

-----------------------------------------------------------------------------
\* The host: the TUN queue, and epoll in edge-triggered mode.

Ready == (IF rx > 0 THEN {"rx"} ELSE {}) \cup (IF room > 0 THEN {"tx"} ELSE {})

\* EPOLL_CTL_ADD and EPOLL_CTL_MOD raise an event for what is ready already.
EventMask(mask) ==
    /\ interest' = mask
    /\ edges' = (edges \cup Ready) \cap mask

\* EPOLL_CTL_MOD fails for a descriptor that the teardown has taken out.
ModMayFail == "mod" \in Faults \/ "event" \notin acquired

HostDelivers ==
    /\ arrived < MaxRx /\ "fd" \in acquired
    /\ arrived' = arrived + 1 /\ rx' = rx + 1
    /\ edges' = edges \cup ({"rx"} \cap interest)
    /\ UNCHANGED <<txVars, pending_events, flags, acquired, thread, ctl, interest,
                   room, accepted>>

HostTakes ==
    /\ room < HOST_ROOM
    /\ room' = room + 1
    /\ edges' = edges \cup ({"tx"} \cap interest)
    /\ UNCHANGED <<txVars, pending_events, flags, acquired, thread, ctl, interest, rx,
                   arrived, accepted>>

\* EPOLLERR and EPOLLHUP are reported whatever the mask: tcpcc_l3_irq_handler
\* reads them as both kinds of readiness.
HostHangup ==
    /\ "hangup" \in Faults /\ "event" \in acquired
    /\ edges' = {"rx", "tx"}
    /\ UNCHANGED <<txVars, pending_events, flags, acquired, thread, ctl, interest, rx,
                   room, arrived, accepted>>

-----------------------------------------------------------------------------
\* The interrupt, and the I/O thread.

WakeIo(t) == IF t.pc = "sleep" THEN [t EXCEPT !.pc = "check"] ELSE t

IrqHandler ==
    /\ edges # {} /\ "irq" \in acquired
    /\ edges' = {}
    /\ pending_events' = pending_events \cup edges
    /\ thread' = WakeIo(thread)
    /\ UNCHANGED <<txVars, flags, acquired, ctl, interest, rx, room, arrived, accepted>>

TxReady ==
    IF "tx_blocked" \in flags THEN "tx" \in pending_events
    ELSE tx_pending # NoPacket \/ tx_queue # <<>>

ShuttingDown == "shutting_down" \in flags

\* Slip: an event counts as work whether or not a write is blocked.
HasWorkAnyEvent == ShuttingDown \/ pending_events # {} \/ TxReady

HasWork == ShuttingDown \/ "rx" \in pending_events \/ TxReady

\* wait_event tests its condition after queueing on io_wait, so that nothing
\* comes between the test and the sleep.
IoSleep ==
    /\ thread.pc = "check" /\ ~HasWork
    /\ thread' = [thread EXCEPT !.pc = "sleep"]
    /\ UNCHANGED <<txVars, pending_events, flags, acquired, ctl, hostVars, arrived,
                   accepted>>

\* Slip: the queue is restarted one packet too late.
FinishTxLate(p, ok, q, f) ==
    /\ tx_pending' = NoPacket /\ tx_queue' = q
    /\ sent' = IF ok THEN Append(sent, p) ELSE sent
    /\ dropped' = IF ok THEN dropped ELSE dropped \cup {p}
    /\ flags' = IF ~ShuttingDown /\ Len(q) < TX_LOW_WATERMARK - 1
                THEN f \ {"queue_stopped"} ELSE f

\* tcpcc_l3_finish_tx for packet p with q left in the queue; f is the value of
\* the flags, which may lose the stop of the device's queue.
FinishTx(p, ok, q, f) ==
    /\ tx_pending' = NoPacket
    /\ tx_queue' = q
    /\ sent' = IF ok THEN Append(sent, p) ELSE sent
    /\ dropped' = IF ok THEN dropped ELSE dropped \cup {p}
    /\ flags' = IF ~ShuttingDown /\ Len(q) < TX_LOW_WATERMARK
                THEN f \ {"queue_stopped"} ELSE f

\* tcpcc_l3_finish_tx with an error for the packet in hand, if there is one.
DropPending(f) ==
    IF tx_pending # NoPacket THEN FinishTx(tx_pending, FALSE, tx_queue, f)
    ELSE flags' = f /\ UNCHANGED txVars

\* Slip: the packet in hand is forgotten.
IoExitForgetful ==
    /\ thread.pc = "check" /\ ShuttingDown
    /\ thread' = [thread EXCEPT !.pc = "exited"]
    /\ UNCHANGED <<txVars, pending_events, flags, acquired, ctl, hostVars, arrived,
                   accepted>>

IoExit ==
    /\ thread.pc = "check" /\ ShuttingDown
    /\ thread' = [thread EXCEPT !.pc = "exited"]
    /\ DropPending(flags)
    /\ UNCHANGED <<pending_events, acquired, ctl, hostVars, arrived, accepted>>

IoRound ==
    /\ thread.pc = "check" /\ HasWork /\ ~ShuttingDown
    /\ pending_events' = pending_events \ {"rx"}
    /\ thread' = IF "rx" \in pending_events
                 THEN [pc |-> "rx", packets |-> 0, did_work |-> "yes"]
                 ELSE [pc |-> "tx_ready", packets |-> 0, did_work |-> "no"]
    /\ UNCHANGED <<txVars, flags, acquired, ctl, hostVars, arrived, accepted>>

\* Slip: one packet over the budget.
IoReadOneMore ==
    /\ thread.pc = "rx" /\ thread.packets =< IO_BUDGET /\ rx > 0
    /\ rx' = rx - 1
    /\ thread' = [thread EXCEPT !.packets = @ + 1]
    /\ UNCHANGED <<txVars, pending_events, flags, acquired, ctl, interest, edges, room,
                   arrived, accepted>>

\* tcpcc_l3_drain_rx reads one packet and hands it to the stack, or drops it
\* when it is not valid.
IoRead ==
    /\ thread.pc = "rx" /\ thread.packets < IO_BUDGET /\ rx > 0
    /\ rx' = rx - 1
    /\ thread' = [thread EXCEPT !.packets = @ + 1]
    /\ UNCHANGED <<txVars, pending_events, flags, acquired, ctl, interest, edges, room,
                   arrived, accepted>>

\* Slip: a used-up budget is taken for an empty TUN.
IoReadEndUnmarked ==
    /\ thread.pc = "rx"
    /\ thread.packets = IO_BUDGET \/ rx = 0 \/ "read" \in Faults
    /\ thread' = [thread EXCEPT !.pc = "tx_ready"]
    /\ UNCHANGED <<txVars, pending_events, flags, acquired, ctl, hostVars, arrived,
                   accepted>>

\* It ends with EAGAIN, with an error, or with the budget, which sets the event
\* again.
IoReadEnd ==
    /\ thread.pc = "rx"
    /\ \/ thread.packets = IO_BUDGET /\ pending_events' = pending_events \cup {"rx"}
       \/ /\ thread.packets < IO_BUDGET /\ (rx = 0 \/ "read" \in Faults)
          /\ UNCHANGED pending_events
    /\ thread' = [thread EXCEPT !.pc = "tx_ready"]
    /\ UNCHANGED <<txVars, flags, acquired, ctl, hostVars, arrived, accepted>>

\* Nothing to transmit in this round.
IoNoTx ==
    /\ thread.pc = "tx_ready" /\ ~TxReady
    /\ thread' = [thread EXCEPT !.pc = "check"]
    /\ UNCHANGED <<txVars, pending_events, flags, acquired, ctl, hostVars, arrived,
                   accepted>>

\* tcpcc_l3_drain_tx begins; a blocked device takes back its interest in
\* EPOLLOUT first, and drops the packet when that fails.
IoTxBegin ==
    /\ thread.pc = "tx_ready" /\ TxReady /\ "tx_blocked" \notin flags
    /\ thread' = [pc |-> "tx", packets |-> 0, did_work |-> "yes"]
    /\ UNCHANGED <<txVars, pending_events, flags, acquired, ctl, hostVars, arrived,
                   accepted>>

IoUnblock ==
    /\ thread.pc = "tx_ready" /\ TxReady /\ "tx_blocked" \in flags
    /\ pending_events' = pending_events \ {"tx"}
    /\ \/ /\ "event" \in acquired /\ EventMask({"rx"})
          /\ flags' = flags \ {"tx_blocked"}
          /\ thread' = [pc |-> "tx", packets |-> 0, did_work |-> "yes"]
          /\ UNCHANGED txVars
       \/ /\ ModMayFail
          /\ DropPending(flags \ {"tx_blocked"})
          /\ thread' = [thread EXCEPT !.pc = "check"]
          /\ UNCHANGED <<interest, edges>>
    /\ UNCHANGED <<acquired, ctl, rx, room, arrived, accepted>>

\* The packet to write: the pending one or the head of the queue.
Current == IF tx_pending # NoPacket THEN tx_pending ELSE Head(tx_queue)
QueueAfter == IF tx_pending # NoPacket THEN tx_queue ELSE Tail(tx_queue)

IoTxEnd ==
    /\ thread.pc = "tx"
    /\ thread.packets = IO_BUDGET \/ (tx_pending = NoPacket /\ tx_queue = <<>>)
    /\ thread' = [thread EXCEPT !.pc = "check"]
    /\ UNCHANGED <<txVars, pending_events, flags, acquired, ctl, hostVars, arrived,
                   accepted>>

CanWrite ==
    /\ thread.pc = "tx" /\ thread.packets < IO_BUDGET
    /\ tx_pending # NoPacket \/ tx_queue # <<>>

IoWrite ==
    /\ CanWrite
    /\ \/ room > 0 /\ room' = room - 1 /\ FinishTx(Current, TRUE, QueueAfter, flags)
       \/ /\ "write" \in Faults /\ FinishTx(Current, FALSE, QueueAfter, flags)
          /\ UNCHANGED room
    /\ thread' = [thread EXCEPT !.packets = @ + 1]
    /\ UNCHANGED <<pending_events, acquired, ctl, interest, edges, rx, arrived, accepted>>

\* Slip: the packet that could not be written goes back to the end of the queue.
IoWriteRequeues ==
    /\ CanWrite /\ room = 0
    /\ pending_events' = pending_events \ {"tx"}
    /\ thread' = [thread EXCEPT !.pc = "arm"]
    /\ tx_pending' = Head(Append(QueueAfter, Current))
    /\ tx_queue' = Tail(Append(QueueAfter, Current))
    /\ UNCHANGED <<sent, dropped, flags, acquired, ctl, hostVars, arrived, accepted>>

\* EAGAIN: tcpcc_l3_arm_writable.
IoWriteBlocks ==
    /\ CanWrite /\ room = 0
    /\ pending_events' = pending_events \ {"tx"}
    /\ thread' = [thread EXCEPT !.pc = "arm"]
    /\ tx_pending' = Current /\ tx_queue' = QueueAfter
    /\ UNCHANGED <<sent, dropped, flags, acquired, ctl, hostVars, arrived, accepted>>

IoArmWritable ==
    /\ thread.pc = "arm"
    /\ \/ /\ "event" \in acquired /\ EventMask({"rx", "tx"})
          /\ flags' = flags \cup {"tx_blocked"}
          /\ UNCHANGED txVars
       \/ /\ ModMayFail
          /\ DropPending(flags)
          /\ UNCHANGED <<interest, edges>>
    /\ thread' = [thread EXCEPT !.pc = "check"]
    /\ UNCHANGED <<pending_events, acquired, ctl, rx, room, arrived, accepted>>

IoThread ==
    \/ IoSleep \/ IoExit \/ IoRound \/ IoRead \/ IoReadEnd \/ IoNoTx \/ IoTxBegin
    \/ IoUnblock \/ IoTxEnd \/ IoWrite \/ IoWriteBlocks \/ IoArmWritable

-----------------------------------------------------------------------------
\* The hosted kernel's side: transmission, attachment and teardown.

\* Slip: the queue is tested for its first packet after the packet is in.
XmitSilent ==
    /\ "open" \in acquired /\ "queue_stopped" \notin flags /\ accepted < MaxTx
    /\ accepted' = accepted + 1
    /\ tx_queue' = Append(tx_queue, accepted + 1)
    /\ flags' = IF Len(tx_queue) + 1 >= TX_QUEUE_LIMIT
                THEN flags \cup {"queue_stopped"} ELSE flags
    /\ UNCHANGED <<tx_pending, sent, dropped, pending_events, acquired, thread, ctl,
                   hostVars, arrived>>

\* tcpcc_l3_xmit, called only while the queue of the device is not stopped.  A
\* packet that is too long, too short or cannot be linearised is dropped before
\* it is accepted.  TX_BUSY leaves the packet with the caller.
Xmit ==
    /\ "open" \in acquired /\ "queue_stopped" \notin flags /\ accepted < MaxTx
    /\ IF Len(tx_queue) >= TX_QUEUE_LIMIT
       THEN /\ flags' = flags \cup {"queue_stopped"}
            /\ UNCHANGED <<tx_queue, accepted, thread>>
       ELSE /\ accepted' = accepted + 1
            /\ tx_queue' = Append(tx_queue, accepted + 1)
            /\ flags' = IF Len(tx_queue) + 1 >= TX_QUEUE_LIMIT
                        THEN flags \cup {"queue_stopped"} ELSE flags
            /\ thread' = IF tx_queue = <<>> THEN WakeIo(thread) ELSE thread
    /\ UNCHANGED <<tx_pending, sent, dropped, pending_events, acquired, ctl, hostVars,
                   arrived>>

\* tcpcc_l3_attach_config up to each call that may fail: register_netdev,
\* request_irq, tcpcc_host_event_add_edge, kthread_run, the address and route.
\* A teardown closes the descriptor, so that there is no second attachment.
AttachNetdev ==
    /\ ctl = "detached" /\ acquired = {"fd"} /\ ~ShuttingDown
    /\ acquired' = {"fd", "netdev"} /\ ctl' = "request_irq"
    /\ UNCHANGED <<txVars, pending_events, flags, thread, hostVars, arrived, accepted>>

AttachFails ==
    /\ "attach" \in Faults
    /\ ctl \in {"request_irq", "event_add", "kthread_run", "configure"}
    /\ ctl' = "teardown"
    /\ \/ UNCHANGED acquired
       \/ ctl = "configure" /\ acquired' = acquired \cup {"open"}
    /\ UNCHANGED <<txVars, pending_events, flags, thread, hostVars, arrived, accepted>>

AttachIrq ==
    /\ ctl = "request_irq" /\ ctl' = "event_add"
    /\ acquired' = acquired \cup {"irq"}
    /\ UNCHANGED <<txVars, pending_events, flags, thread, hostVars, arrived, accepted>>

AttachEvent ==
    /\ ctl = "event_add" /\ ctl' = "kthread_run"
    /\ acquired' = acquired \cup {"event"}
    /\ EventMask({"rx"})
    /\ UNCHANGED <<txVars, pending_events, flags, thread, rx, room, arrived, accepted>>

AttachThread ==
    /\ ctl = "kthread_run" /\ ctl' = "configure"
    /\ acquired' = acquired \cup {"io_task"}
    /\ thread' = [thread EXCEPT !.pc = "check"]
    /\ UNCHANGED <<txVars, pending_events, flags, hostVars, arrived, accepted>>

AttachConfigure ==
    /\ ctl = "configure" /\ ctl' = "attached"
    /\ acquired' = acquired \cup {"open"}
    /\ UNCHANGED <<txVars, pending_events, flags, thread, hostVars, arrived, accepted>>

\* Slip: nobody wakes the thread.
TeardownBeginSilent ==
    /\ ctl \in {"attached", "teardown"} /\ ctl' = "kthread_stop"
    /\ flags' = flags \cup {"shutting_down", "queue_stopped"}
    /\ acquired' = acquired \ {"event", "irq"}
    /\ interest' = {} /\ edges' = {}
    /\ UNCHANGED <<txVars, pending_events, thread, rx, room, arrived, accepted>>

\* tcpcc_l3_teardown, called at shutdown and by a failed attachment.  It waits
\* for the thread in kthread_stop.
TeardownBegin ==
    /\ ctl \in {"attached", "teardown"} /\ ctl' = "kthread_stop"
    /\ flags' = flags \cup {"shutting_down", "queue_stopped"}
    /\ acquired' = acquired \ {"event", "irq"}
    /\ interest' = {} /\ edges' = {}
    /\ thread' = WakeIo(thread)
    /\ UNCHANGED <<txVars, pending_events, rx, room, arrived, accepted>>

TeardownEnd ==
    /\ ctl = "kthread_stop" /\ ctl' = "detached"
    /\ "io_task" \in acquired => thread.pc = "exited"
    /\ tx_queue' = <<>>
    /\ dropped' = dropped \cup Elements(tx_queue)
    /\ acquired' = {}
    /\ UNCHANGED <<tx_pending, sent, pending_events, flags, thread, hostVars, arrived,
                   accepted>>

Control ==
    \/ AttachNetdev \/ AttachFails \/ AttachIrq \/ AttachEvent \/ AttachThread
    \/ AttachConfigure \/ TeardownBegin \/ TeardownEnd

Next ==
    \/ HostDelivers \/ HostTakes \/ HostHangup \/ IrqHandler \/ IoThread \/ Xmit
    \/ Control

Spec == Init /\ [][Next]_vars

\* The thread is scheduled, the host reports its events and takes what was
\* written; nobody has to send, and nobody has to tear the device down.
LiveSpec ==
    /\ Spec
    /\ WF_vars(IoThread) /\ WF_vars(IrqHandler) /\ WF_vars(HostTakes)
    /\ WF_vars(TeardownEnd)

-----------------------------------------------------------------------------
\* The device state, the transmit queue and the I/O thread of l3net.c keep their
\* types.
TypeOK ==
    /\ tx_queue \in Seq(1..accepted) /\ tx_pending \in 0..accepted
    /\ pending_events \subseteq {"rx", "tx"} /\ flags \subseteq FlagKinds
    /\ acquired \subseteq Resources
    /\ thread \in [pc : {"none", "check", "sleep", "rx", "tx_ready", "tx", "arm",
                         "exited"},
                   packets : 0..IO_BUDGET, did_work : {"yes", "no"}]
    /\ ctl \in {"detached", "request_irq", "event_add", "kthread_run", "configure",
                "attached", "teardown", "kthread_stop"}
    /\ interest \subseteq {"rx", "tx"} /\ edges \subseteq {"rx", "tx"}
    /\ rx \in Nat /\ room \in Nat /\ arrived \in Nat /\ accepted \in Nat
    /\ sent \in Seq(1..accepted) /\ dropped \subseteq 1..accepted

\* The queue of the device is stopped only while its restart is on its way: it
\* holds at least the low watermark, or one packet less and the thread has that
\* packet in hand and will finish it.  While it is not stopped there is room, so
\* that tcpcc_l3_xmit never answers NETDEV_TX_BUSY.
QueueControl ==
    /\ Len(tx_queue) =< TX_QUEUE_LIMIT
    /\ "open" \in acquired /\ "queue_stopped" \notin flags
          => Len(tx_queue) < TX_QUEUE_LIMIT
    /\ "queue_stopped" \in flags /\ ~ShuttingDown
          => \/ Len(tx_queue) >= TX_LOW_WATERMARK
             \/ Len(tx_queue) = TX_LOW_WATERMARK - 1 /\ tx_pending # NoPacket

\* Every accepted packet has exactly one fate, and packets leave in the order in
\* which they were accepted: written, then the one in hand, then the queue.
TxInOrder ==
    LET inHand == IF tx_pending = NoPacket THEN <<>> ELSE <<tx_pending>>
        line   == sent \o inHand \o tx_queue
    IN  /\ \A m, n \in 1..Len(line) : m < n => line[m] < line[n]
        /\ Elements(line) \cap dropped = {}
        /\ Elements(line) \cup dropped = 1..accepted

\* The thread never sleeps on work: packets to write that are not blocked, an
\* event it was told of, or the shutdown it has to obey.
NoLostIoWakeup == thread.pc = "sleep" => ~HasWork

\* A blocked write is resumed: when the TUN can take a packet, its event is on
\* the way or has been noted.
NoStrandedWrite ==
    "tx_blocked" \in flags /\ room > 0 /\ "event" \in acquired
        => "tx" \in edges \cup pending_events

\* A packet the TUN holds is read: its event is on the way, has been noted, or
\* the thread is in the middle of reading.  It is stated for a TUN whose reads
\* fail with EAGAIN only: another error ends tcpcc_l3_drain_rx with packets left,
\* which are then read when the next one arrives.
NoStrandedRead ==
    rx > 0 /\ "event" \in acquired
        => "rx" \in edges \cup pending_events \/ thread.pc = "rx"

\* No event of the TUN and no wakeup of the thread is lost, in either direction:
\* nothing that can be read, written or obeyed is left with a sleeping thread and
\* a silent host (tcpcc_l3_io_thread, tcpcc_l3_irq_handler, tcpcc_l3_arm_writable).
NoLostIo == NoLostIoWakeup /\ NoStrandedWrite /\ NoStrandedRead

\* Every round of the thread does some work: a writability event left over from
\* an unblocked write, or reported by a hangup, does not make it spin.
NoEmptyRound == [][IoNoTx => thread.did_work = "yes"]_vars

\* After the teardown nothing is left: no queued or pending packet, no event
\* registration, no descriptor, and every accepted packet is accounted for.
TeardownLeavesNothing ==
    ctl = "detached" /\ ShuttingDown =>
        /\ acquired = {} /\ interest = {} /\ edges = {}
        /\ tx_queue = <<>> /\ tx_pending = NoPacket
        /\ Elements(sent) \cup dropped = 1..accepted
        /\ thread.pc \in {"none", "exited"}

\* The packets that were written or dropped.
Fate == Elements(sent) \cup dropped

\* The line of accepted packets moves on until it is empty: with TxInOrder every
\* accepted packet is written or dropped in the end.  And a stopped queue is
\* started again unless the device is torn down.
TxProgress ==
    /\ []<>(Fate = 1..accepted) \/ []<><<Fate' # Fate>>_vars
    /\ "queue_stopped" \in flags ~> "queue_stopped" \notin flags \/ ShuttingDown

\* A teardown comes to its end: the thread sees the request wherever it is.
TeardownEnds == ctl = "kthread_stop" ~> ctl = "detached"

\* Packets keep their order and their account, and no event is lost on the way
\* of one (tcpcc_l3_drain_tx, tcpcc_l3_drain_rx).
IoSound == TxInOrder /\ NoLostIo

\* Packets and teardowns come to their end, and without spinning.
L3Progress == TxProgress /\ TeardownEnds /\ NoEmptyRound

=============================================================================
