----------------------------- MODULE L3NetProofs -----------------------------
(***************************************************************************)
(* Proofs about the L3 device, for every queue limit, low watermark,       *)
(* budget and number of packets.                                           *)
(***************************************************************************)
EXTENDS L3Net, SequenceTheorems, TLAPS

\* A leaf that names no prover has thirty seconds of SMT, then Zenon.
USE SMTT(30), Zenon

\* Packets are queued only while the device is open.
OpenInv == "open" \notin acquired => tx_queue = <<>>

\* The teardown announces itself before it waits for the thread.
StopInv == ctl = "kthread_stop" => "shutting_down" \in flags

Core == TypeOK /\ QueueControl /\ OpenInv
IInv == Core /\ StopInv

ThreadType ==
    [pc : {"none", "check", "sleep", "rx", "tx_ready", "tx", "arm", "exited"},
     packets : 0..IO_BUDGET, did_work : {"yes", "no"}]

\* wake_up moves the thread from its sleep to its test, and nowhere else.
LEMMA WakeType ==
    ASSUME NEW t \in ThreadType PROVE WakeIo(t) \in ThreadType
BY DEF WakeIo, ThreadType

\* The io thread at the start of a pass is well typed.
LEMMA TxThreadType == [pc |-> "tx", packets |-> 0, did_work |-> "yes"] \in ThreadType
<1>1. 0 \in 0..IO_BUDGET
  BY ConstantsAssumption
<1> QED BY <1>1 DEF ThreadType

\* The watermarks as the leaves use them.
LEMMA Limits ==
    /\ TX_LOW_WATERMARK \in Nat \ {0} /\ TX_QUEUE_LIMIT \in Nat \ {0}
    /\ TX_LOW_WATERMARK =< TX_QUEUE_LIMIT
BY ConstantsAssumption

\* The queue and its restart after tcpcc_l3_finish_tx.
LEMMA FinishKeeps ==
    ASSUME IInv, NEW p \in 1..accepted, NEW ok \in BOOLEAN, NEW q \in Seq(1..accepted),
           NEW f \in SUBSET FlagKinds, FinishTx(p, ok, q, f),
           "queue_stopped" \in f <=> "queue_stopped" \in flags,
           "shutting_down" \in f <=> "shutting_down" \in flags,
           Len(q) =< Len(tx_queue), Len(q) >= Len(tx_queue) - 1,
           tx_queue = <<>> => q = <<>>,
           tx_pending # NoPacket => q = tx_queue,
           acquired' = acquired, accepted' = accepted
    PROVE  /\ tx_queue' \in Seq(1..accepted) /\ tx_pending' \in 0..accepted
           /\ flags' \subseteq FlagKinds
           /\ sent' \in Seq(1..accepted) /\ dropped' \subseteq 1..accepted
           /\ QueueControl' /\ OpenInv'
<1>1. /\ tx_queue' = q /\ tx_pending' = NoPacket
      /\ sent' = IF ok THEN Append(sent, p) ELSE sent
      /\ dropped' = IF ok THEN dropped ELSE dropped \cup {p}
      /\ flags' = IF ~ShuttingDown /\ Len(q) < TX_LOW_WATERMARK
                  THEN f \ {"queue_stopped"} ELSE f
  BY DEF FinishTx
<1>2. /\ accepted \in Nat /\ sent \in Seq(1..accepted) /\ dropped \subseteq 1..accepted
      /\ tx_queue \in Seq(1..accepted)
  BY DEF IInv, Core, TypeOK
<1>3. /\ tx_queue' \in Seq(1..accepted) /\ tx_pending' \in 0..accepted
      /\ flags' \subseteq FlagKinds
      /\ sent' \in Seq(1..accepted) /\ dropped' \subseteq 1..accepted
  <2>1. /\ tx_queue' \in Seq(1..accepted) /\ tx_pending' \in 0..accepted
        /\ flags' \subseteq FlagKinds
    BY <1>1, <1>2 DEF NoPacket
  <2>2. CASE ok
    <3>1. sent' = Append(sent, p) /\ dropped' = dropped
      BY <1>1, <2>2
    <3> QED BY <1>2, <2>1, <3>1
  <2>3. CASE ~ok
    <3>1. sent' = sent /\ dropped' = dropped \cup {p}
      BY <1>1, <2>3
    <3> QED BY <1>2, <2>1, <3>1
  <2> QED BY <2>2, <2>3
<1>4. OpenInv'
  BY <1>1 DEF IInv, Core, OpenInv
<1>5. /\ Len(q) \in Nat /\ Len(tx_queue) \in Nat
      /\ TX_LOW_WATERMARK \in Nat \ {0} /\ TX_QUEUE_LIMIT \in Nat \ {0}
      /\ TX_LOW_WATERMARK =< TX_QUEUE_LIMIT
  BY <1>2, Limits
<1>6. Len(tx_queue') =< TX_QUEUE_LIMIT
  BY <1>1, <1>5 DEF IInv, Core, QueueControl
<1>7. "open" \in acquired' /\ "queue_stopped" \notin flags'
         => Len(tx_queue') < TX_QUEUE_LIMIT
  BY <1>1, <1>5 DEF IInv, Core, QueueControl
<1>8. "queue_stopped" \in flags' /\ "shutting_down" \notin flags'
         => Len(tx_queue') >= TX_LOW_WATERMARK
  BY <1>1, <1>5 DEF ShuttingDown
<1> QED BY <1>3, <1>4, <1>6, <1>7, <1>8 DEF QueueControl, ShuttingDown

\* The device before its first attachment satisfies the invariant.
LEMMA InitInv == Init => IInv
BY ConstantsAssumption
   DEF Init, IInv, Core, StopInv, TypeOK, QueueControl, OpenInv, FlagKinds, Resources, NoPacket, ShuttingDown

\* What a step leaves alone: the transmission path, and what it may change.
TxSame == UNCHANGED <<tx_queue, tx_pending, flags, accepted, sent, dropped>>

\* A step that leaves the transmit side alone keeps its invariants.
LEMMA TxSameKeeps ==
    ASSUME IInv, TxSame,
           "open" \in acquired => "open" \in acquired'
    PROVE  QueueControl' /\ OpenInv'
<1> USE DEF TxSame, IInv, Core
<1>1. OpenInv'
  BY DEF OpenInv
<1>2. "open" \notin acquired => Len(tx_queue) = 0
  BY DEF OpenInv
<1>3. QueueControl'
  BY <1>2, Limits DEF QueueControl, ShuttingDown
<1> QED BY <1>1, <1>3

-----------------------------------------------------------------------------
\* Every step keeps IInv.  Steps that leave the transmission path alone need only
\* their types; the others keep the restart of the queue as FinishKeeps says.
LEMMA NextCore == IInv /\ [Next]_vars => Core'
<1> SUFFICES ASSUME IInv, [Next]_vars PROVE Core'
  OBVIOUS
<1>t. TypeOK /\ QueueControl /\ OpenInv /\ StopInv
  BY DEF IInv, Core
<1>k. thread \in ThreadType
  BY <1>t DEF TypeOK, ThreadType
<1>w. WakeIo(thread) \in ThreadType
  BY <1>k, WakeType
<1>s. ASSUME TxSame, "open" \in acquired => "open" \in acquired', TypeOK'
      PROVE  Core'
  BY <1>s, TxSameKeeps DEF IInv, Core
<1>1. CASE HostDelivers
  <2>1. TxSame /\ acquired' = acquired
    BY <1>1 DEF HostDelivers, TxSame, txVars
  <2>2. TypeOK'
    BY <1>1, <1>t DEF HostDelivers, TypeOK, txVars
  <2> QED BY <1>s, <2>1, <2>2
<1>2. CASE HostTakes
  <2>1. TxSame /\ acquired' = acquired
    BY <1>2 DEF HostTakes, TxSame, txVars
  <2>2. TypeOK'
    BY <1>2, <1>t DEF HostTakes, TypeOK, txVars
  <2> QED BY <1>s, <2>1, <2>2
<1>3. CASE HostHangup
  <2>1. TxSame /\ acquired' = acquired
    BY <1>3 DEF HostHangup, TxSame, txVars
  <2>2. TypeOK'
    BY <1>3, <1>t DEF HostHangup, TypeOK, txVars
  <2> QED BY <1>s, <2>1, <2>2
<1>4. CASE IrqHandler
  <2>1. TxSame /\ acquired' = acquired
    BY <1>4 DEF IrqHandler, TxSame, txVars
  <2>2. TypeOK'
    BY <1>4, <1>t, <1>w DEF IrqHandler, TypeOK, ThreadType, txVars
  <2> QED BY <1>s, <2>1, <2>2
<1>5. CASE IoSleep
  <2>1. TxSame /\ acquired' = acquired
    BY <1>5 DEF IoSleep, TxSame, txVars
  <2>2. TypeOK'
    BY <1>5, <1>t DEF IoSleep, TypeOK, txVars, hostVars
  <2> QED BY <1>s, <2>1, <2>2
<1>6. CASE IoRound
  <2>1. TxSame /\ acquired' = acquired
    BY <1>6 DEF IoRound, TxSame, txVars
  <2>2. thread' \in ThreadType
    BY <1>6, ConstantsAssumption DEF IoRound, ThreadType
  <2>3. TypeOK'
    BY <1>6, <1>t, <2>2 DEF IoRound, TypeOK, ThreadType, txVars, hostVars
  <2> QED BY <1>s, <2>1, <2>3
<1>7. CASE IoRead
  <2>1. TxSame /\ acquired' = acquired
    BY <1>7 DEF IoRead, TxSame, txVars
  <2>2. thread' \in ThreadType
    BY <1>7, <1>k, ConstantsAssumption DEF IoRead, ThreadType
  <2>3. TypeOK'
    BY <1>7, <1>t, <2>2 DEF IoRead, TypeOK, ThreadType, txVars
  <2> QED BY <1>s, <2>1, <2>3
<1>8. CASE IoReadEnd
  <2>1. TxSame /\ acquired' = acquired
    BY <1>8 DEF IoReadEnd, TxSame, txVars
  <2>2. TypeOK'
    BY <1>8, <1>t DEF IoReadEnd, TypeOK, txVars, hostVars
  <2> QED BY <1>s, <2>1, <2>2
<1>9. CASE IoNoTx
  <2>1. TxSame /\ acquired' = acquired
    BY <1>9 DEF IoNoTx, TxSame, txVars
  <2>2. TypeOK'
    BY <1>9, <1>t DEF IoNoTx, TypeOK, txVars, hostVars
  <2> QED BY <1>s, <2>1, <2>2
<1>10. CASE IoTxBegin
  <2>1. TxSame /\ acquired' = acquired
    BY <1>10 DEF IoTxBegin, TxSame, txVars
  <2>2. thread' \in ThreadType
    BY <1>10, <1>k, TxThreadType DEF IoTxBegin
  <2>3. TypeOK'
    BY <1>10, <1>t, <2>2 DEF IoTxBegin, TypeOK, ThreadType, txVars, hostVars
  <2> QED BY <1>s, <2>1, <2>3
<1>11. CASE IoTxEnd
  <2>1. TxSame /\ acquired' = acquired
    BY <1>11 DEF IoTxEnd, TxSame, txVars
  <2>2. TypeOK'
    BY <1>11, <1>t, Zenon DEF IoTxEnd, TypeOK, txVars, hostVars
  <2> QED BY <1>s, <2>1, <2>2
\* A step that finishes a packet p with q left in the queue.
<1>f. ASSUME NEW p \in 1..accepted, NEW ok \in BOOLEAN, NEW q \in Seq(1..accepted),
             NEW f \in SUBSET FlagKinds, FinishTx(p, ok, q, f),
             f = flags \/ f = flags \ {"tx_blocked"},
             (tx_pending # NoPacket /\ q = tx_queue)
                \/ (tx_pending = NoPacket /\ tx_queue # <<>> /\ q = Tail(tx_queue)),
             UNCHANGED <<acquired, accepted, ctl, arrived, rx>>, thread' \in ThreadType,
             pending_events' \subseteq {"rx", "tx"}, room' \in Nat,
             interest' \subseteq {"rx", "tx"}, edges' \subseteq {"rx", "tx"}
      PROVE  Core'
  <2>1. tx_queue \in Seq(1..accepted)
    BY <1>t DEF TypeOK
  <2>2. /\ Len(q) =< Len(tx_queue) /\ Len(q) >= Len(tx_queue) - 1
        /\ tx_queue = <<>> => q = <<>>
    <3>1. CASE q = tx_queue
      BY <2>1, <3>1
    <3>2. CASE tx_queue # <<>> /\ q = Tail(tx_queue)
      BY <2>1, <3>2
    <3> QED BY <1>f, <3>1, <3>2
  <2>3. /\ tx_queue' \in Seq(1..accepted) /\ tx_pending' \in 0..accepted
        /\ flags' \subseteq FlagKinds
        /\ sent' \in Seq(1..accepted) /\ dropped' \subseteq 1..accepted
        /\ QueueControl' /\ OpenInv'
    BY <1>f, <2>2, FinishKeeps
  <2>4. TypeOK'
    BY <1>f, <1>t, <2>3 DEF TypeOK, ThreadType
  <2> QED BY <2>3, <2>4 DEF IInv, Core
\* A step that drops the packet in hand, if there is one.
<1>p. ASSUME NEW f \in SUBSET FlagKinds, DropPending(f),
             f = flags \/ f = flags \ {"tx_blocked"},
             UNCHANGED <<acquired, accepted, ctl, arrived, rx, room, interest, edges>>,
             thread' \in ThreadType, pending_events' \subseteq {"rx", "tx"}
      PROVE  Core'
  <2>1. /\ interest' \subseteq {"rx", "tx"} /\ edges' \subseteq {"rx", "tx"}
        /\ room' \in Nat /\ tx_queue \in Seq(1..accepted)
    BY <1>p, <1>t DEF TypeOK
  <2>2. CASE tx_pending # NoPacket
    <3>1. FinishTx(tx_pending, FALSE, tx_queue, f)
      BY <1>p, <2>2, Zenon DEF DropPending
    <3>2. tx_pending \in 1..accepted
      BY <1>t, <2>2 DEF TypeOK, NoPacket
    <3> QED BY <1>f, <1>p, <2>1, <2>2, <3>1, <3>2, Zenon
  <2>3. CASE tx_pending = NoPacket
    <3>1. flags' = f /\ UNCHANGED <<tx_queue, tx_pending, sent, dropped>>
      BY <1>p, <2>3 DEF DropPending, txVars
    <3>2. QueueControl' /\ OpenInv'
      BY <1>p, <1>t, <3>1 DEF QueueControl, OpenInv, ShuttingDown
    <3>3. TypeOK'
      BY <1>p, <1>t, <2>1, <3>1 DEF TypeOK, ThreadType
    <3> QED BY <3>2, <3>3 DEF IInv, Core
  <2> QED BY <2>2, <2>3
<1>12. CASE IoExit
  <2>1. /\ thread' \in ThreadType /\ DropPending(flags)
        /\ UNCHANGED <<acquired, accepted, ctl, arrived, rx, room, interest, edges,
                       pending_events>>
    BY <1>12, <1>k DEF IoExit, ThreadType, hostVars
  <2>2. flags \in SUBSET FlagKinds /\ pending_events' \subseteq {"rx", "tx"}
    BY <1>t, <2>1 DEF TypeOK
  <2> QED BY <1>p, <2>1, <2>2
<1>e. ASSUME NEW mask \in SUBSET {"rx", "tx"}, EventMask(mask)
      PROVE  interest' \subseteq {"rx", "tx"} /\ edges' \subseteq {"rx", "tx"}
  BY <1>e, Zenon DEF EventMask
\* What stays in force when flags loses or gains tx_blocked alone.
<1>b. ASSUME UNCHANGED <<tx_queue, tx_pending, accepted, acquired>>,
             flags' = flags \ {"tx_blocked"} \/ flags' = flags \cup {"tx_blocked"}
      PROVE  QueueControl' /\ OpenInv' /\ flags' \subseteq FlagKinds
  BY <1>b, <1>t, Zenon DEF QueueControl, OpenInv, ShuttingDown, TypeOK, FlagKinds
<1>13. CASE IoUnblock
  <2>1. /\ pending_events' \subseteq {"rx", "tx"}
        /\ UNCHANGED <<acquired, accepted, ctl, arrived, rx, room>>
    BY <1>13, <1>t DEF IoUnblock, TypeOK
  <2>2. CASE EventMask({"rx"}) /\ flags' = flags \ {"tx_blocked"} /\ UNCHANGED txVars
              /\ thread' = [pc |-> "tx", packets |-> 0, did_work |-> "yes"]
    <3>1. interest' \subseteq {"rx", "tx"} /\ edges' \subseteq {"rx", "tx"}
      BY <1>e, <2>2
    <3>2. UNCHANGED <<tx_queue, tx_pending, sent, dropped>>
      BY <2>2 DEF txVars
    <3>3. QueueControl' /\ OpenInv' /\ flags' \subseteq FlagKinds
      BY <1>b, <2>1, <2>2, <3>2
    <3>4. thread' \in ThreadType
      BY <1>k, <2>2, TxThreadType
    <3>5. TypeOK'
      BY <1>t, <2>1, <3>1, <3>2, <3>3, <3>4 DEF TypeOK, ThreadType
    <3> QED BY <3>3, <3>5 DEF IInv, Core
  <2>3. CASE /\ DropPending(flags \ {"tx_blocked"})
             /\ thread' = [thread EXCEPT !.pc = "check"]
             /\ UNCHANGED <<interest, edges>>
    <3>1. thread' \in ThreadType
      BY <1>k, <2>3 DEF ThreadType
    <3>2. flags \ {"tx_blocked"} \in SUBSET FlagKinds
      BY <1>t DEF TypeOK
    <3> QED BY <1>p, <2>1, <2>3, <3>1, <3>2
  <2> QED BY <1>13, <2>2, <2>3 DEF IoUnblock
<1>14. CASE IoWrite
  <2>1. /\ UNCHANGED <<acquired, accepted, ctl, arrived, rx, pending_events, interest, edges>>
        /\ tx_pending # NoPacket \/ tx_queue # <<>>
    BY <1>14 DEF IoWrite, CanWrite
  <2>2. thread' \in ThreadType
    BY <1>14, <1>k, ConstantsAssumption DEF IoWrite, CanWrite, ThreadType
  <2>3. /\ Current \in 1..accepted /\ QueueAfter \in Seq(1..accepted)
        /\ flags \in SUBSET FlagKinds
        /\ (tx_pending # NoPacket /\ QueueAfter = tx_queue)
              \/ (tx_pending = NoPacket /\ tx_queue # <<>> /\ QueueAfter = Tail(tx_queue))
    <3>1. /\ tx_queue \in Seq(1..accepted) /\ tx_pending \in 0..accepted /\ accepted \in Nat
          /\ flags \in SUBSET FlagKinds
      BY <1>t DEF TypeOK
    <3>2. CASE tx_pending # NoPacket
      BY <3>1, <3>2 DEF Current, QueueAfter, NoPacket
    <3>3. CASE tx_pending = NoPacket
      <4>1. tx_queue # <<>> /\ Current = Head(tx_queue) /\ QueueAfter = Tail(tx_queue)
        BY <2>1, <3>3 DEF Current, QueueAfter
      <4> QED BY <3>1, <3>3, <4>1
    <3> QED BY <3>2, <3>3
  <2>4. /\ pending_events' \subseteq {"rx", "tx"} /\ interest' \subseteq {"rx", "tx"}
        /\ edges' \subseteq {"rx", "tx"} /\ room' \in Nat
    <3>1. /\ pending_events \subseteq {"rx", "tx"} /\ interest \subseteq {"rx", "tx"}
          /\ edges \subseteq {"rx", "tx"} /\ room \in Nat
      BY <1>t DEF TypeOK
    <3>2. room' = room \/ (room > 0 /\ room' = room - 1)
      BY <1>14, Zenon DEF IoWrite
    <3> QED BY <2>1, <3>1, <3>2
  <2>5. CASE FinishTx(Current, TRUE, QueueAfter, flags)
    BY <1>f, <2>1, <2>2, <2>3, <2>4, <2>5, Zenon
  <2>6. CASE FinishTx(Current, FALSE, QueueAfter, flags)
    BY <1>f, <2>1, <2>2, <2>3, <2>4, <2>6, Zenon
  <2> QED BY <1>14, <2>5, <2>6, Zenon DEF IoWrite
<1>15. CASE IoWriteBlocks
  <2>1. /\ UNCHANGED <<sent, dropped, flags, acquired, ctl, arrived, accepted, interest,
                       edges, rx, room>>
        /\ tx_pending' = Current /\ tx_queue' = QueueAfter
        /\ tx_pending # NoPacket \/ tx_queue # <<>>
    BY <1>15 DEF IoWriteBlocks, CanWrite, hostVars
  <2>2. tx_queue \in Seq(1..accepted) /\ accepted \in Nat
    BY <1>t DEF TypeOK
  <2>3. /\ Current \in 1..accepted /\ QueueAfter \in Seq(1..accepted)
        /\ Len(QueueAfter) =< Len(tx_queue) /\ Len(QueueAfter) >= Len(tx_queue) - 1
        /\ tx_pending # NoPacket => QueueAfter = tx_queue
        /\ tx_queue = <<>> => QueueAfter = <<>>
    <3>1. CASE tx_pending # NoPacket
      BY <1>t, <2>2, <3>1 DEF TypeOK, Current, QueueAfter, NoPacket
    <3>2. CASE tx_pending = NoPacket
      <4>1. tx_queue # <<>> /\ Current = Head(tx_queue) /\ QueueAfter = Tail(tx_queue)
        BY <2>1, <3>2 DEF Current, QueueAfter
      <4> QED BY <2>2, <3>2, <4>1
    <3> QED BY <3>1, <3>2
  <2>4. tx_pending' # NoPacket
    BY <2>1, <2>3, <2>2 DEF NoPacket
  <2>5. OpenInv'
    BY <1>t, <2>1, <2>3 DEF OpenInv
  <2>6. Len(tx_queue) \in Nat /\ Len(QueueAfter) \in Nat /\ TX_LOW_WATERMARK \in Nat
        /\ TX_QUEUE_LIMIT \in Nat
    BY <2>2, <2>3, Limits
  <2>7. QueueControl'
    BY <1>t, <2>1, <2>3, <2>4, <2>6 DEF QueueControl, ShuttingDown
  <2>8. thread' \in ThreadType /\ pending_events' \subseteq {"rx", "tx"}
    BY <1>15, <1>k, <1>t, Zenon DEF IoWriteBlocks, ThreadType, TypeOK
  <2>9. TypeOK'
    <3>1. tx_queue' \in Seq(1..accepted') /\ tx_pending' \in 0..accepted'
      BY <2>1, <2>2, <2>3
    <3>2. /\ flags' \subseteq FlagKinds /\ acquired' \subseteq Resources
          /\ interest' \subseteq {"rx", "tx"} /\ edges' \subseteq {"rx", "tx"}
          /\ rx' \in Nat /\ room' \in Nat /\ arrived' \in Nat /\ accepted' \in Nat
          /\ sent' \in Seq(1..accepted') /\ dropped' \subseteq 1..accepted'
      BY <1>t, <2>1 DEF TypeOK
    <3>3. ctl' = ctl
      BY <2>1
    <3> QED BY <1>t, <2>8, <3>1, <3>2, <3>3 DEF TypeOK, ThreadType
  <2> QED BY <2>5, <2>7, <2>9 DEF IInv, Core
<1>16. CASE IoArmWritable
  <2>1. UNCHANGED <<acquired, accepted, ctl, arrived, rx, room, pending_events>>
    BY <1>16 DEF IoArmWritable
  <2>2. thread' \in ThreadType
    BY <1>16, <1>k DEF IoArmWritable, ThreadType
  <2>3. pending_events' \subseteq {"rx", "tx"} /\ room' \in Nat
    BY <1>t, <2>1 DEF TypeOK
  <2>4. CASE EventMask({"rx", "tx"}) /\ flags' = flags \cup {"tx_blocked"} /\ UNCHANGED txVars
    <3>1. interest' \subseteq {"rx", "tx"} /\ edges' \subseteq {"rx", "tx"}
      BY <1>e, <2>4
    <3>2. UNCHANGED <<tx_queue, tx_pending, sent, dropped>>
      BY <2>4 DEF txVars
    <3>3. QueueControl' /\ OpenInv' /\ flags' \subseteq FlagKinds
      BY <1>b, <2>1, <2>4, <3>2
    <3>4. TypeOK'
      BY <1>t, <2>1, <2>2, <3>1, <3>2, <3>3 DEF TypeOK, ThreadType
    <3> QED BY <3>3, <3>4 DEF IInv, Core
  <2>5. CASE DropPending(flags) /\ UNCHANGED <<interest, edges>>
    <3>1. flags \in SUBSET FlagKinds
      BY <1>t DEF TypeOK
    <3> QED BY <1>p, <2>1, <2>2, <2>3, <2>5, <3>1
  <2> QED BY <1>16, <2>4, <2>5 DEF IoArmWritable
<1>17. CASE Xmit
  <2>1. /\ tx_queue \in Seq(1..accepted) /\ accepted \in Nat /\ Len(tx_queue) \in Nat
        /\ TX_LOW_WATERMARK \in Nat \ {0} /\ TX_QUEUE_LIMIT \in Nat \ {0}
        /\ TX_LOW_WATERMARK =< TX_QUEUE_LIMIT
    BY <1>t, Limits DEF TypeOK
  <2>2. Len(tx_queue) < TX_QUEUE_LIMIT /\ "open" \in acquired /\ "queue_stopped" \notin flags
    BY <1>17, <1>t DEF Xmit, QueueControl
  <2>3. /\ accepted' = accepted + 1
        /\ tx_queue' = Append(tx_queue, accepted + 1)
        /\ flags' = IF Len(tx_queue) + 1 >= TX_QUEUE_LIMIT
                    THEN flags \cup {"queue_stopped"} ELSE flags
        /\ thread' = thread \/ thread' = WakeIo(thread)
        /\ UNCHANGED <<tx_pending, sent, dropped, pending_events, acquired, ctl, arrived,
                       interest, edges, rx, room>>
    BY <1>17, <2>1, <2>2 DEF Xmit, hostVars
  <2>4. tx_queue' \in Seq(1..accepted') /\ Len(tx_queue') = Len(tx_queue) + 1
    <3>1. tx_queue \in Seq(1..(accepted + 1))
      BY <2>1
    <3>2. accepted + 1 \in 1..(accepted + 1)
      BY <2>1
    <3> QED BY <2>1, <2>3, <3>1, <3>2
  <2>5. QueueControl' /\ OpenInv'
    BY <2>1, <2>2, <2>3, <2>4 DEF QueueControl, OpenInv, ShuttingDown
  <2>6. thread' \in ThreadType
    BY <1>k, <1>w, <2>3
  <2>7. sent' \in Seq(1..accepted') /\ dropped' \subseteq 1..accepted' /\ tx_pending' \in 0..accepted'
    BY <1>t, <2>1, <2>3 DEF TypeOK
  <2>8. flags' \subseteq FlagKinds /\ accepted' \in Nat
    BY <1>t, <2>1, <2>3 DEF TypeOK, FlagKinds
  <2>9. TypeOK'
    BY <1>t, <2>3, <2>4, <2>6, <2>7, <2>8 DEF TypeOK, ThreadType
  <2> QED BY <2>5, <2>9 DEF IInv, Core
<1>18. CASE AttachNetdev
  <2>1. TxSame /\ "open" \notin acquired
    BY <1>18 DEF AttachNetdev, TxSame, txVars
  <2>2. TypeOK'
    BY <1>18, <1>t DEF AttachNetdev, TypeOK, txVars, hostVars, Resources
  <2> QED BY <1>s, <2>1, <2>2
<1>19. CASE AttachFails
  <2>1. TxSame /\ "open" \in acquired => "open" \in acquired'
    BY <1>19 DEF AttachFails, TxSame, txVars
  <2>2. TypeOK' /\ TxSame
    BY <1>19, <1>t, Zenon DEF AttachFails, TypeOK, TxSame, txVars, hostVars, Resources
  <2> QED BY <1>s, <2>1, <2>2
<1>20. CASE AttachIrq
  <2>1. TxSame /\ acquired \subseteq acquired'
    BY <1>20 DEF AttachIrq, TxSame, txVars
  <2>2. TypeOK'
    BY <1>20, <1>t DEF AttachIrq, TypeOK, txVars, hostVars, Resources
  <2> QED BY <1>s, <2>1, <2>2
<1>21. CASE AttachEvent
  <2>1. TxSame /\ acquired \subseteq acquired'
    BY <1>21 DEF AttachEvent, TxSame, txVars
  <2>2. interest' \subseteq {"rx", "tx"} /\ edges' \subseteq {"rx", "tx"}
    BY <1>e, <1>21 DEF AttachEvent
  <2>3. TypeOK'
    BY <1>21, <1>t, <2>2 DEF AttachEvent, TypeOK, txVars, Resources
  <2> QED BY <1>s, <2>1, <2>3
<1>22. CASE AttachThread
  <2>1. TxSame /\ acquired \subseteq acquired'
    BY <1>22 DEF AttachThread, TxSame, txVars
  <2>2. thread' \in ThreadType
    BY <1>22, <1>k DEF AttachThread, ThreadType
  <2>3. TypeOK'
    BY <1>22, <1>t, <2>2 DEF AttachThread, TypeOK, ThreadType, txVars, hostVars, Resources
  <2> QED BY <1>s, <2>1, <2>3
<1>23. CASE AttachConfigure
  <2>1. TxSame /\ acquired \subseteq acquired'
    BY <1>23 DEF AttachConfigure, TxSame, txVars
  <2>2. TypeOK'
    BY <1>23, <1>t DEF AttachConfigure, TypeOK, txVars, hostVars, Resources
  <2> QED BY <1>s, <2>1, <2>2
<1>24. CASE TeardownBegin
  <2>1. /\ UNCHANGED <<tx_queue, tx_pending, sent, dropped, accepted>>
        /\ flags' = flags \cup {"shutting_down", "queue_stopped"}
        /\ acquired' = acquired \ {"event", "irq"}
    BY <1>24 DEF TeardownBegin, txVars
  <2>2. QueueControl' /\ OpenInv'
    BY <1>t, <2>1 DEF QueueControl, OpenInv, ShuttingDown
  <2>3. TypeOK'
    BY <1>24, <1>t, <1>w, <2>1 DEF TeardownBegin, TypeOK, ThreadType, FlagKinds
  <2> QED BY <2>2, <2>3 DEF IInv, Core
<1>25. CASE TeardownEnd
  <2>1. /\ tx_queue' = <<>> /\ UNCHANGED <<tx_pending, sent, accepted, flags>>
        /\ dropped' = dropped \cup Elements(tx_queue)
    BY <1>25 DEF TeardownEnd
  <2>2. Elements(tx_queue) \subseteq 1..accepted
    BY <1>t DEF TypeOK, Elements
  <2>3. ShuttingDown
    BY <1>25, <1>t DEF TeardownEnd, StopInv, ShuttingDown
  <2>4. QueueControl' /\ OpenInv'
    BY <2>1, <2>3, Limits DEF QueueControl, OpenInv, ShuttingDown
  <2>5. TypeOK'
    <3>1. /\ UNCHANGED <<pending_events, thread, interest, edges, rx, room, arrived>>
          /\ acquired' = {} /\ ctl' = "detached"
      BY <1>25 DEF TeardownEnd, hostVars
    <3>2. tx_queue' \in Seq(1..accepted')
      BY <2>1
    <3>3. dropped' \subseteq 1..accepted' /\ acquired' \subseteq Resources
      BY <1>t, <2>1, <2>2, <3>1, Zenon DEF TypeOK
    <3> QED BY <1>t, <2>1, <3>1, <3>2, <3>3 DEF TypeOK
  <2> QED BY <2>4, <2>5 DEF IInv, Core
<1>26. CASE UNCHANGED vars
  <2>1. TxSame /\ acquired' = acquired
    BY <1>26 DEF vars, TxSame, txVars
  <2>2. TypeOK'
    BY <1>26, <1>t DEF vars, TypeOK, txVars, hostVars
  <2> QED BY <1>s, <2>1, <2>2
<1> QED
  BY <1>1, <1>2, <1>3, <1>4, <1>5, <1>6, <1>7, <1>8, <1>9, <1>10, <1>11, <1>12, <1>13,
     <1>14, <1>15, <1>16, <1>17, <1>18, <1>19, <1>20, <1>21, <1>22, <1>23, <1>24, <1>25,
     <1>26 DEF Next, IoThread, Control

\* Once set, shutting_down stays set.
LEMMA StopKept == IInv /\ [Next]_vars => StopInv'
<1> SUFFICES ASSUME IInv, [Next]_vars PROVE StopInv'
  OBVIOUS
<1>0. StopInv
  BY DEF IInv
<1>f. ASSUME NEW p, NEW ok, NEW q, NEW f, FinishTx(p, ok, q, f), ctl' = ctl,
             "shutting_down" \in flags => "shutting_down" \in f
      PROVE  StopInv'
  BY <1>0, <1>f DEF FinishTx, StopInv
<1>p. ASSUME NEW f, DropPending(f), ctl' = ctl,
             "shutting_down" \in flags => "shutting_down" \in f
      PROVE  StopInv'
  BY <1>0, <1>f, <1>p, Zenon DEF DropPending, StopInv
<1>1. CASE IoExit
  BY <1>1, <1>p DEF IoExit
<1>2. CASE IoUnblock
  BY <1>0, <1>2, <1>p DEF IoUnblock, StopInv
<1>3. CASE IoWrite
  BY <1>3, <1>f, Zenon DEF IoWrite
<1>4. CASE IoArmWritable
  BY <1>0, <1>4, <1>p DEF IoArmWritable, StopInv
<1>5. CASE Xmit
  BY <1>0, <1>5 DEF Xmit, StopInv
<1>6. CASE Control
  BY <1>0, <1>6 DEF Control, AttachNetdev, AttachFails, AttachIrq, AttachEvent,
        AttachThread, AttachConfigure, TeardownBegin, TeardownEnd, StopInv
<1>7. CASE UNCHANGED <<ctl, flags>>
  BY <1>0, <1>7 DEF StopInv
<1>8. CASE HostDelivers \/ HostTakes \/ HostHangup \/ IrqHandler \/ IoSleep \/ IoRound
           \/ IoRead \/ IoReadEnd \/ IoNoTx \/ IoTxBegin \/ IoTxEnd \/ IoWriteBlocks
  BY <1>7, <1>8 DEF HostDelivers, HostTakes, HostHangup, IrqHandler, IoSleep, IoRound,
        IoRead, IoReadEnd, IoNoTx, IoTxBegin, IoTxEnd, IoWriteBlocks
<1>9. CASE UNCHANGED vars
  BY <1>7, <1>9 DEF vars
<1> QED
  BY <1>1, <1>2, <1>3, <1>4, <1>5, <1>6, <1>8, <1>9 DEF Next, IoThread

\* The inductive invariant holds in every reachable state.
LEMMA Invariance == Spec => []IInv
<1>1. Init => IInv
  BY InitInv
<1>2. IInv /\ [Next]_vars => IInv'
  BY NextCore, StopKept DEF IInv
<1> QED BY <1>1, <1>2, PTL DEF Spec

\* The variables of the device keep their types for every choice of limits.
THEOREM TypeCorrect == Spec => []TypeOK
<1>1. IInv => TypeOK
  BY DEF IInv, Core
<1> QED BY <1>1, Invariance, PTL

\* For every queue limit and low watermark: the device's queue is stopped only
\* while a packet whose completion restarts it is queued or in hand, and while
\* it runs tcpcc_l3_xmit finds room, so that NETDEV_TX_BUSY is never returned.
THEOREM QueueRestarts == Spec => []QueueControl
<1>1. IInv => QueueControl
  BY DEF IInv, Core
<1> QED BY <1>1, Invariance, PTL

-----------------------------------------------------------------------------
(* Events, wakeups and the teardown *)

\* What the descriptor is watched for, from its registration to its removal.
MaskInv ==
    /\ "event" \in acquired => "rx" \in interest
    /\ "event" \in acquired /\ "tx_blocked" \in flags => "tx" \in interest
    /\ ctl = "kthread_stop" => interest = {} /\ edges = {} /\ "event" \notin acquired

\* Where the thread is blocked on a write, has a packet in hand, and exists.
ThreadInv ==
    /\ thread.pc \in {"none", "tx", "arm"} => "tx_blocked" \notin flags
    /\ thread.pc \in {"none", "exited"} => tx_pending = NoPacket
    /\ ctl \in {"request_irq", "event_add", "kthread_run"} => thread.pc = "none"
    /\ \/ thread.pc = "none" \/ "io_task" \in acquired
       \/ ctl = "detached" /\ ShuttingDown

ReadInv == "read" \notin Faults => NoStrandedRead

\* A device that was torn down stays so.
DoneInv ==
    ctl = "detached" /\ ShuttingDown =>
        /\ acquired = {} /\ interest = {} /\ edges = {}
        /\ tx_queue = <<>> /\ tx_pending = NoPacket
        /\ thread.pc \in {"none", "exited"}

\* The packets accepted so far: written, in hand, queued or dropped, in the order
\* of their numbers.
InHand == {tx_pending} \ {NoPacket}
Increasing(q) == \A m, n \in 1..Len(q) : m < n => q[m] < q[n]
Below(A, B) == \A a \in A, b \in B : a < b
\* A line of packets: s was written, H is in hand, q is queued, d was dropped, and
\* n were accepted.
Line(s, H, q, d, n) ==
    /\ Increasing(s) /\ Increasing(q)
    /\ Below(Elements(s), H \cup Elements(q)) /\ Below(H, Elements(q))
    /\ (Elements(s) \cup H \cup Elements(q)) \cap d = {}
    /\ Elements(s) \cup H \cup Elements(q) \cup d = 1..n
OrderInv == Line(sent, InHand, tx_queue, dropped, accepted)

IoInv ==
    /\ MaskInv /\ ThreadInv /\ NoLostIoWakeup /\ NoStrandedWrite /\ ReadInv
    /\ DoneInv /\ OrderInv

\* What tcpcc_l3_finish_tx does to the flags: it may restart the queue.
LEMMA FinishFlags ==
    ASSUME NEW p, NEW ok, NEW q, NEW f, FinishTx(p, ok, q, f)
    PROVE  /\ tx_pending' = NoPacket /\ tx_queue' = q
           /\ "tx_blocked" \in flags' <=> "tx_blocked" \in f
           /\ ShuttingDown' <=> "shutting_down" \in f
BY DEF FinishTx, ShuttingDown

\* The same for the packet in hand.
LEMMA DropFlags ==
    ASSUME NEW f, DropPending(f)
    PROVE  /\ tx_pending' = NoPacket /\ tx_queue' = tx_queue
           /\ "tx_blocked" \in flags' <=> "tx_blocked" \in f
           /\ ShuttingDown' <=> "shutting_down" \in f
<1>1. CASE tx_pending # NoPacket
  BY <1>1, FinishFlags, Zenon DEF DropPending
<1>2. CASE tx_pending = NoPacket
  BY <1>2 DEF DropPending, txVars, ShuttingDown
<1> QED BY <1>1, <1>2

\* What the steps of the thread that only move it do.
LEMMA IoMoves ==
    ASSUME TypeOK, IoSleep \/ IoRound \/ IoRead \/ IoReadEnd \/ IoNoTx \/ IoTxBegin \/ IoTxEnd
    PROVE  /\ UNCHANGED <<tx_queue, tx_pending, flags, acquired, ctl, interest, edges, room>>
           /\ \/ thread.pc = "check" /\ thread'.pc = "sleep" /\ ~HasWork
                 /\ UNCHANGED <<pending_events, rx>>
              \/ thread.pc = "check" /\ thread'.pc \in {"rx", "tx_ready"} /\ ~ShuttingDown
                 /\ pending_events' = pending_events \ {"rx"} /\ UNCHANGED rx
                 /\ ("rx" \in pending_events => thread'.pc = "rx")
              \/ thread.pc = "rx" /\ thread'.pc = "rx" /\ UNCHANGED pending_events
              \/ thread.pc = "rx" /\ thread'.pc = "tx_ready" /\ UNCHANGED rx
                 /\ \/ pending_events' = pending_events \cup {"rx"}
                    \/ (rx = 0 \/ "read" \in Faults) /\ UNCHANGED pending_events
              \/ thread.pc \in {"tx_ready", "tx"} /\ thread'.pc = "check"
                 /\ UNCHANGED <<pending_events, rx>>
              \/ thread.pc = "tx_ready" /\ thread'.pc = "tx" /\ "tx_blocked" \notin flags
                 /\ UNCHANGED <<pending_events, rx>>
<1>0. thread \in ThreadType
  BY DEF TypeOK, ThreadType
<1>k. \A v : [thread EXCEPT !.pc = v].pc = v
  BY <1>0 DEF ThreadType
<1>1. CASE IoSleep
  BY <1>1, <1>k DEF IoSleep, txVars, hostVars
<1>2. CASE IoRound
  BY <1>2 DEF IoRound, txVars, hostVars
<1>3. CASE IoRead
  BY <1>0, <1>3 DEF IoRead, txVars, ThreadType
<1>4. CASE IoReadEnd
  BY <1>4, <1>k DEF IoReadEnd, txVars, hostVars
<1>5. CASE IoNoTx
  BY <1>5, <1>k DEF IoNoTx, txVars, hostVars
<1>6. CASE IoTxBegin
  BY <1>6 DEF IoTxBegin, txVars, hostVars
<1>7. CASE IoTxEnd
  BY <1>7, <1>k DEF IoTxEnd, txVars, hostVars
<1> QED BY <1>1, <1>2, <1>3, <1>4, <1>5, <1>6, <1>7

\* What a write does, successful or not.
LEMMA IoWriteFacts ==
    ASSUME TypeOK, IoWrite
    PROVE  /\ thread.pc = "tx" /\ thread'.pc = "tx"
           /\ tx_pending' = NoPacket /\ tx_queue' = QueueAfter
           /\ "tx_blocked" \in flags' <=> "tx_blocked" \in flags
           /\ ShuttingDown' <=> ShuttingDown
           /\ UNCHANGED <<pending_events, acquired, ctl, interest, edges, rx>>
<1>0. thread \in ThreadType
  BY DEF TypeOK, ThreadType
<1>1. thread.pc = "tx" /\ thread'.pc = "tx"
  BY <1>0 DEF IoWrite, CanWrite, ThreadType
<1>2. \E ok \in BOOLEAN : FinishTx(Current, ok, QueueAfter, flags)
  BY Zenon DEF IoWrite
<1>3. UNCHANGED <<pending_events, acquired, ctl, interest, edges, rx>>
  BY DEF IoWrite
<1> QED BY <1>1, <1>2, <1>3, FinishFlags DEF ShuttingDown

\* What a write that would block does.
LEMMA IoWriteBlocksFacts ==
    ASSUME TypeOK, IoWriteBlocks
    PROVE  /\ thread.pc = "tx" /\ thread'.pc = "arm"
           /\ pending_events' = pending_events \ {"tx"}
           /\ UNCHANGED <<flags, acquired, ctl, interest, edges, rx, room>>
<1>0. thread \in ThreadType
  BY DEF TypeOK, ThreadType
<1> QED BY <1>0 DEF IoWriteBlocks, CanWrite, ThreadType, hostVars

\* What the end of the thread does.
LEMMA IoExitFacts ==
    ASSUME TypeOK, IoExit
    PROVE  /\ thread.pc = "check" /\ thread'.pc = "exited" /\ ShuttingDown
           /\ tx_pending' = NoPacket /\ tx_queue' = tx_queue
           /\ "tx_blocked" \in flags' <=> "tx_blocked" \in flags
           /\ ShuttingDown' <=> ShuttingDown
           /\ UNCHANGED <<pending_events, acquired, ctl, interest, edges, rx, room>>
<1>0. thread \in ThreadType
  BY DEF TypeOK, ThreadType
<1>1. thread.pc = "check" /\ thread'.pc = "exited" /\ ShuttingDown
      /\ UNCHANGED <<pending_events, acquired, ctl, interest, edges, rx, room>>
  BY <1>0 DEF IoExit, ThreadType, hostVars
<1>2. DropPending(flags)
  BY DEF IoExit
<1> QED BY <1>1, <1>2, DropFlags DEF ShuttingDown

\* What taking back the interest in EPOLLOUT does.
LEMMA IoUnblockFacts ==
    ASSUME TypeOK, IoUnblock
    PROVE  /\ thread.pc = "tx_ready" /\ thread'.pc \in {"tx", "check"}
           /\ "tx_blocked" \notin flags' /\ tx_queue' = tx_queue
           /\ ShuttingDown' <=> ShuttingDown
           /\ pending_events' = pending_events \ {"tx"}
           /\ \/ /\ "event" \in acquired /\ interest' = {"rx"}
                 /\ edges' = (edges \cup Ready) \cap {"rx"}
              \/ UNCHANGED <<interest, edges>>
           /\ UNCHANGED <<acquired, ctl, rx, room>>
<1>0. thread \in ThreadType
  BY DEF TypeOK, ThreadType
<1>1. /\ thread.pc = "tx_ready" /\ pending_events' = pending_events \ {"tx"}
      /\ UNCHANGED <<acquired, ctl, rx, room>>
  BY DEF IoUnblock
<1>2. CASE /\ "event" \in acquired /\ EventMask({"rx"})
           /\ flags' = flags \ {"tx_blocked"}
           /\ thread' = [pc |-> "tx", packets |-> 0, did_work |-> "yes"]
           /\ UNCHANGED txVars
  BY <1>1, <1>2 DEF EventMask, ShuttingDown, txVars
<1>3. CASE /\ DropPending(flags \ {"tx_blocked"})
           /\ thread' = [thread EXCEPT !.pc = "check"]
           /\ UNCHANGED <<interest, edges>>
  <2>1. thread'.pc = "check"
    BY <1>0, <1>3 DEF ThreadType
  <2>2. "tx_blocked" \notin flags' /\ tx_queue' = tx_queue /\ (ShuttingDown' <=> ShuttingDown)
    BY <1>3, DropFlags DEF ShuttingDown
  <2> QED BY <1>1, <1>3, <2>1, <2>2
<1> QED BY <1>2, <1>3 DEF IoUnblock

\* What tcpcc_l3_arm_writable does.
LEMMA IoArmFacts ==
    ASSUME TypeOK, IoArmWritable
    PROVE  /\ thread.pc = "arm" /\ thread'.pc = "check"
           /\ tx_queue' = tx_queue
           /\ ShuttingDown' <=> ShuttingDown
           /\ \/ /\ "event" \in acquired /\ interest' = {"rx", "tx"}
                 /\ edges' = (edges \cup Ready) \cap {"rx", "tx"}
                 /\ "tx_blocked" \in flags'
              \/ /\ UNCHANGED <<interest, edges>>
                 /\ "tx_blocked" \in flags' <=> "tx_blocked" \in flags
           /\ UNCHANGED <<acquired, ctl, rx, room, pending_events>>
<1>0. thread \in ThreadType
  BY DEF TypeOK, ThreadType
<1>1. /\ thread.pc = "arm" /\ thread'.pc = "check"
      /\ UNCHANGED <<acquired, ctl, rx, room, pending_events>>
  BY <1>0 DEF IoArmWritable, ThreadType
<1>2. CASE /\ "event" \in acquired /\ EventMask({"rx", "tx"})
           /\ flags' = flags \cup {"tx_blocked"} /\ UNCHANGED txVars
  BY <1>1, <1>2 DEF EventMask, ShuttingDown, txVars
<1>3. CASE DropPending(flags) /\ UNCHANGED <<interest, edges>>
  BY <1>1, <1>3, DropFlags DEF ShuttingDown
<1> QED BY <1>2, <1>3 DEF IoArmWritable

\* What a wakeup does to the thread.
LEMMA WakeFacts ==
    ASSUME TypeOK
    PROVE  /\ thread.pc = "sleep" => WakeIo(thread).pc = "check"
           /\ thread.pc # "sleep" => WakeIo(thread) = thread
<1>0. thread \in ThreadType
  BY DEF TypeOK, ThreadType
<1> QED BY <1>0 DEF WakeIo, ThreadType

\* What tcpcc_l3_xmit does.
LEMMA XmitFacts ==
    ASSUME TypeOK, Xmit
    PROVE  /\ "open" \in acquired
           /\ "tx_blocked" \in flags' <=> "tx_blocked" \in flags
           /\ ShuttingDown' <=> ShuttingDown
           /\ \/ UNCHANGED <<tx_queue, thread>>
              \/ tx_queue = <<>> /\ thread' = WakeIo(thread)
              \/ tx_queue # <<>> /\ UNCHANGED thread
           /\ UNCHANGED <<tx_pending, pending_events, acquired, ctl, interest, edges, rx, room>>
BY DEF Xmit, hostVars, ShuttingDown

\* The watch on the descriptor follows the blocked write and ends with the teardown.
LEMMA MaskNext ==
    ASSUME TypeOK, MaskInv, ThreadInv, Next
    PROVE  MaskInv'
<1> USE DEF MaskInv
<1>1. CASE HostDelivers
  BY <1>1 DEF HostDelivers
<1>2. CASE HostTakes
  BY <1>2 DEF HostTakes
<1>3. CASE HostHangup
  BY <1>3 DEF HostHangup
<1>4. CASE IrqHandler
  BY <1>4 DEF IrqHandler
<1>5. CASE IoExit
  BY <1>5, IoExitFacts
<1>6. CASE IoUnblock
  BY <1>6, IoUnblockFacts
<1>7. CASE IoSleep \/ IoRound \/ IoRead \/ IoReadEnd \/ IoNoTx \/ IoTxBegin \/ IoTxEnd
  <2>1. UNCHANGED <<flags, acquired, ctl, interest, edges>>
    BY <1>7, IoMoves
  <2> QED BY <2>1
<1>8. CASE IoWrite
  BY <1>8, IoWriteFacts
<1>9. CASE IoWriteBlocks
  BY <1>9, IoWriteBlocksFacts
<1>10. CASE IoArmWritable
  BY <1>10, IoArmFacts
<1>11. CASE Xmit
  BY <1>11, XmitFacts
<1>12. CASE AttachNetdev
  BY <1>12 DEF AttachNetdev, hostVars
<1>13. CASE AttachFails
  BY <1>13 DEF AttachFails, hostVars
<1>14. CASE AttachIrq
  BY <1>14 DEF AttachIrq, hostVars
<1>15. CASE AttachEvent
  <2>1. "tx_blocked" \notin flags
    BY <1>15 DEF AttachEvent, ThreadInv
  <2> QED BY <1>15, <2>1 DEF AttachEvent, EventMask
<1>16. CASE AttachThread \/ AttachConfigure
  BY <1>16 DEF AttachThread, AttachConfigure, hostVars
<1>17. CASE TeardownBegin
  BY <1>17 DEF TeardownBegin
<1>18. CASE TeardownEnd
  BY <1>18 DEF TeardownEnd
<1> QED BY <1>1, <1>2, <1>3, <1>4, <1>5, <1>6, <1>7, <1>8, <1>9, <1>10, <1>11, <1>12, <1>13,
           <1>14, <1>15, <1>16, <1>17, <1>18 DEF Next, IoThread, Control

\* The thread has a packet in hand only while it runs, and is waited for.
LEMMA ThreadNext ==
    ASSUME TypeOK, StopInv, ThreadInv, DoneInv, Next
    PROVE  ThreadInv'
<1> USE DEF ThreadInv
<1>0. thread \in ThreadType
  BY DEF TypeOK, ThreadType
<1>d. thread.pc \notin {"none", "exited"} => "io_task" \in acquired
  BY DEF DoneInv
<1>1. CASE HostDelivers \/ HostTakes \/ HostHangup
  BY <1>1 DEF HostDelivers, HostTakes, HostHangup, txVars, ShuttingDown
<1>2. CASE IrqHandler
  <2>1. UNCHANGED <<tx_pending, flags, acquired, ctl>>
        /\ (thread'.pc = thread.pc \/ (thread.pc = "sleep" /\ thread'.pc = "check"))
    BY <1>2, WakeFacts DEF IrqHandler, txVars
  <2> QED BY <1>d, <2>1 DEF ShuttingDown
<1>3. CASE IoExit
  BY <1>3, <1>d, IoExitFacts
<1>4. CASE IoUnblock
  <2>1. "io_task" \in acquired /\ ctl \notin {"request_irq", "event_add", "kthread_run"}
    BY <1>4, <1>d, IoUnblockFacts
  <2> QED BY <1>4, <2>1, IoUnblockFacts
<1>5. CASE IoSleep \/ IoRound \/ IoRead \/ IoReadEnd \/ IoNoTx \/ IoTxBegin \/ IoTxEnd
  <2>1. /\ UNCHANGED <<tx_pending, flags, acquired, ctl>>
        /\ thread.pc \notin {"none", "exited"} /\ thread'.pc \notin {"none", "exited", "arm"}
        /\ thread'.pc = "tx" => "tx_blocked" \notin flags
    BY <1>5, IoMoves
  <2> QED BY <1>d, <2>1 DEF ShuttingDown
<1>6. CASE IoWrite
  BY <1>6, <1>d, IoWriteFacts
<1>7. CASE IoWriteBlocks
  BY <1>7, <1>d, IoWriteBlocksFacts DEF ShuttingDown
<1>8. CASE IoArmWritable
  BY <1>8, <1>d, IoArmFacts
<1>9. CASE Xmit
  <2>1. /\ UNCHANGED <<tx_pending, acquired, ctl>>
        /\ "tx_blocked" \in flags' <=> "tx_blocked" \in flags
        /\ ShuttingDown' <=> ShuttingDown
        /\ thread'.pc = thread.pc \/ (thread.pc = "sleep" /\ thread'.pc = "check")
    BY <1>9, XmitFacts, WakeFacts
  <2> QED BY <1>d, <2>1
<1>10. CASE AttachNetdev
  BY <1>10 DEF AttachNetdev, txVars
<1>11. CASE AttachFails
  BY <1>11 DEF AttachFails, txVars
<1>12. CASE AttachIrq \/ AttachEvent
  BY <1>12 DEF AttachIrq, AttachEvent, txVars
<1>13. CASE AttachThread
  <2>1. thread'.pc = "check"
    BY <1>0, <1>13 DEF AttachThread, ThreadType
  <2> QED BY <1>13, <2>1 DEF AttachThread, txVars
<1>14. CASE AttachConfigure
  BY <1>14 DEF AttachConfigure, txVars
<1>15. CASE TeardownBegin
  <2>1. /\ UNCHANGED tx_pending /\ ctl' = "kthread_stop"
        /\ flags' = flags \cup {"shutting_down", "queue_stopped"}
        /\ acquired' = acquired \ {"event", "irq"}
        /\ thread'.pc = thread.pc \/ (thread.pc = "sleep" /\ thread'.pc = "check")
    BY <1>15, WakeFacts DEF TeardownBegin, txVars
  <2>2. ctl # "detached"
    BY <1>15 DEF TeardownBegin
  <2> QED BY <2>1, <2>2 DEF ShuttingDown
<1>16. CASE TeardownEnd
  <2>1. UNCHANGED <<tx_pending, flags, thread>> /\ ctl' = "detached"
        /\ thread.pc \in {"none", "exited"}
    BY <1>16 DEF TeardownEnd
  <2>2. CASE thread.pc = "none"
    BY <2>1, <2>2
  <2>3. ShuttingDown
    BY <1>16 DEF TeardownEnd, StopInv, ShuttingDown
  <2> QED BY <2>1, <2>2, <2>3 DEF ShuttingDown
<1> QED BY <1>1, <1>2, <1>3, <1>4, <1>5, <1>6, <1>7, <1>8, <1>9, <1>10, <1>11, <1>12, <1>13,
           <1>14, <1>15, <1>16 DEF Next, IoThread, Control

\* The thread sleeps only without work: whoever brings it work wakes it.
LEMMA WakeNext ==
    ASSUME TypeOK, DoneInv, ThreadInv, NoLostIoWakeup, Next
    PROVE  NoLostIoWakeup'
<1> USE DEF NoLostIoWakeup
<1>0. thread \in ThreadType
  BY DEF TypeOK, ThreadType
<1>1. CASE HostDelivers \/ HostTakes \/ HostHangup
  BY <1>1 DEF HostDelivers, HostTakes, HostHangup, txVars, ShuttingDown, HasWork, TxReady
<1>2. CASE IrqHandler \/ TeardownBegin
  <2>1. thread' = WakeIo(thread)
    BY <1>2 DEF IrqHandler, TeardownBegin
  <2> QED BY <2>1, WakeFacts
<1>3. CASE IoExit
  BY <1>3, IoExitFacts
<1>4. CASE IoUnblock
  BY <1>4, IoUnblockFacts
<1>5. CASE IoSleep \/ IoRound \/ IoRead \/ IoReadEnd \/ IoNoTx \/ IoTxBegin \/ IoTxEnd
  <2>1. /\ UNCHANGED <<tx_queue, tx_pending, flags>>
        /\ thread'.pc = "sleep" => ~HasWork /\ UNCHANGED pending_events
    BY <1>5, IoMoves
  <2> QED BY <2>1 DEF HasWork, TxReady, ShuttingDown
<1>6. CASE IoWrite
  BY <1>6, IoWriteFacts
<1>7. CASE IoWriteBlocks
  BY <1>7, IoWriteBlocksFacts
<1>8. CASE IoArmWritable
  BY <1>8, IoArmFacts
<1>9. CASE Xmit
  <2>1. CASE thread.pc # "sleep"
    BY <1>9, <2>1, XmitFacts, WakeFacts
  <2>2. CASE thread.pc = "sleep" /\ tx_queue = <<>> /\ thread' = WakeIo(thread)
    BY <2>2, WakeFacts
  <2>3. CASE UNCHANGED tx_queue
    <3>1. HasWork' <=> HasWork
      BY <1>9, <2>3, XmitFacts DEF HasWork, TxReady
    <3>2. thread'.pc = "sleep" => thread.pc = "sleep"
      BY <1>9, XmitFacts, WakeFacts
    <3> QED BY <3>1, <3>2
  <2>4. CASE thread.pc = "sleep" /\ tx_queue # <<>>
    <3>1. "tx_blocked" \in flags /\ "tx" \notin pending_events /\ "rx" \notin pending_events
          /\ ~ShuttingDown
      BY <2>4 DEF HasWork, TxReady
    <3> QED BY <1>9, <3>1, XmitFacts DEF HasWork, TxReady
  <2> QED BY <1>9, <2>1, <2>2, <2>3, <2>4, XmitFacts
<1>10. CASE AttachNetdev \/ AttachFails \/ AttachIrq \/ AttachEvent \/ AttachConfigure
  BY <1>10 DEF AttachNetdev, AttachFails, AttachIrq, AttachEvent, AttachConfigure, txVars,
               HasWork, TxReady, ShuttingDown
<1>11. CASE AttachThread
  BY <1>0, <1>11 DEF AttachThread, ThreadType
<1>12. CASE TeardownEnd
  <2>1. thread'.pc # "sleep"
    BY <1>12 DEF TeardownEnd, ThreadInv
  <2> QED BY <2>1
<1> QED BY <1>1, <1>2, <1>3, <1>4, <1>5, <1>6, <1>7, <1>8, <1>9, <1>10, <1>11, <1>12
        DEF Next, IoThread, Control

\* A blocked write is resumed, whatever happens between its EAGAIN and the arming
\* of EPOLLOUT: the arming itself raises the event.
LEMMA WriteNext ==
    ASSUME TypeOK, MaskInv, ThreadInv, NoStrandedWrite, Next
    PROVE  NoStrandedWrite'
<1> USE DEF NoStrandedWrite
<1>1. CASE HostDelivers \/ HostHangup
  BY <1>1 DEF HostDelivers, HostHangup
<1>2. CASE HostTakes
  BY <1>2 DEF HostTakes, MaskInv
<1>3. CASE IrqHandler
  BY <1>3 DEF IrqHandler
<1>4. CASE IoExit
  BY <1>4, IoExitFacts
<1>5. CASE IoUnblock
  BY <1>5, IoUnblockFacts
<1>6. CASE IoSleep \/ IoRound \/ IoRead \/ IoReadEnd \/ IoNoTx \/ IoTxBegin \/ IoTxEnd
  <2>1. /\ UNCHANGED <<flags, acquired, edges, room>>
        /\ "tx" \in pending_events => "tx" \in pending_events'
    BY <1>6, IoMoves DEF TypeOK
  <2> QED BY <2>1
<1>7. CASE IoWrite
  BY <1>7, IoWriteFacts DEF ThreadInv
<1>8. CASE IoWriteBlocks
  BY <1>8, IoWriteBlocksFacts DEF ThreadInv
<1>9. CASE IoArmWritable
  <2>1. "tx_blocked" \notin flags
    BY <1>9, IoArmFacts DEF ThreadInv
  <2>2. room > 0 => "tx" \in Ready
    BY DEF Ready
  <2> QED BY <1>9, <2>1, <2>2, IoArmFacts
<1>10. CASE Xmit
  BY <1>10, XmitFacts
<1>11. CASE AttachNetdev
  BY <1>11 DEF AttachNetdev, ThreadInv, hostVars
<1>12. CASE AttachFails \/ AttachIrq \/ AttachThread \/ AttachConfigure
  BY <1>12 DEF AttachFails, AttachIrq, AttachThread, AttachConfigure, hostVars
<1>13. CASE AttachEvent
  BY <1>13 DEF AttachEvent, ThreadInv
<1>14. CASE TeardownBegin \/ TeardownEnd
  BY <1>14 DEF TeardownBegin, TeardownEnd
<1> QED BY <1>1, <1>2, <1>3, <1>4, <1>5, <1>6, <1>7, <1>8, <1>9, <1>10, <1>11, <1>12, <1>13,
           <1>14 DEF Next, IoThread, Control

\* A packet the TUN holds is read: the registration and every change of the mask
\* keep its event, and the thread drops the event only to read.
LEMMA ReadNext ==
    ASSUME TypeOK, MaskInv, ThreadInv, ReadInv, Next
    PROVE  ReadInv'
<1> SUFFICES ASSUME "read" \notin Faults, NoStrandedRead PROVE NoStrandedRead'
  BY DEF ReadInv
<1> USE DEF NoStrandedRead
<1>0. thread \in ThreadType
  BY DEF TypeOK, ThreadType
<1>r. rx > 0 => "rx" \in Ready
  BY DEF Ready
<1>1. CASE HostDelivers
  BY <1>1 DEF HostDelivers, MaskInv
<1>2. CASE HostTakes \/ HostHangup
  BY <1>2 DEF HostTakes, HostHangup
<1>3. CASE IrqHandler
  <2>1. thread.pc = "rx" => thread'.pc = "rx"
    BY <1>3, WakeFacts DEF IrqHandler
  <2> QED BY <1>3, <2>1 DEF IrqHandler
<1>4. CASE IoExit
  BY <1>4, IoExitFacts
<1>5. CASE IoUnblock
  BY <1>5, <1>r, IoUnblockFacts
<1>6. CASE IoSleep \/ IoRound \/ IoRead \/ IoReadEnd \/ IoNoTx \/ IoTxBegin \/ IoTxEnd
  <2>1. UNCHANGED <<acquired, edges>>
    BY <1>6, IoMoves
  <2>2. \/ thread'.pc = "rx"
        \/ "rx" \in pending_events'
        \/ rx = 0 /\ rx' = rx
        \/ /\ UNCHANGED rx /\ thread.pc # "rx"
           /\ "rx" \in pending_events' <=> "rx" \in pending_events
    BY <1>6, IoMoves
  <2> QED BY <2>1, <2>2 DEF TypeOK
<1>7. CASE IoWrite
  BY <1>7, IoWriteFacts
<1>8. CASE IoWriteBlocks
  BY <1>8, IoWriteBlocksFacts
<1>9. CASE IoArmWritable
  BY <1>9, <1>r, IoArmFacts
<1>10. CASE Xmit
  <2>1. thread.pc = "rx" => thread'.pc = "rx"
    BY <1>10, XmitFacts, WakeFacts
  <2> QED BY <1>10, <2>1, XmitFacts
<1>11. CASE AttachNetdev
  BY <1>11 DEF AttachNetdev, hostVars
<1>12. CASE AttachFails \/ AttachIrq \/ AttachConfigure
  BY <1>12 DEF AttachFails, AttachIrq, AttachConfigure, hostVars
<1>13. CASE AttachThread
  BY <1>13 DEF AttachThread, ThreadInv, hostVars
<1>14. CASE AttachEvent
  BY <1>14, <1>r DEF AttachEvent, EventMask
<1>15. CASE TeardownBegin \/ TeardownEnd
  BY <1>15 DEF TeardownBegin, TeardownEnd
<1> QED BY <1>1, <1>2, <1>3, <1>4, <1>5, <1>6, <1>7, <1>8, <1>9, <1>10, <1>11, <1>12, <1>13,
           <1>14, <1>15 DEF Next, IoThread, Control

\* A teardown leaves nothing behind and nothing happens after it.
LEMMA DoneNext ==
    ASSUME TypeOK, MaskInv, ThreadInv, DoneInv, Next
    PROVE  DoneInv'
<1>1. CASE IoThread
  <2>1. thread.pc \notin {"none", "exited"} /\ ctl' = ctl /\ (ShuttingDown' <=> ShuttingDown)
    <3>1. CASE IoSleep \/ IoRound \/ IoRead \/ IoReadEnd \/ IoNoTx \/ IoTxBegin \/ IoTxEnd
      BY <3>1, IoMoves DEF ShuttingDown
    <3>2. CASE IoExit
      BY <3>2, IoExitFacts
    <3>3. CASE IoUnblock
      BY <3>3, IoUnblockFacts
    <3>4. CASE IoWrite
      BY <3>4, IoWriteFacts
    <3>5. CASE IoWriteBlocks
      BY <3>5, IoWriteBlocksFacts DEF ShuttingDown
    <3>6. CASE IoArmWritable
      BY <3>6, IoArmFacts
    <3> QED BY <1>1, <3>1, <3>2, <3>3, <3>4, <3>5, <3>6 DEF IoThread
  <2> QED BY <2>1 DEF DoneInv
<1>2. CASE HostDelivers \/ HostTakes \/ HostHangup
  BY <1>2 DEF HostDelivers, HostTakes, HostHangup, DoneInv, ShuttingDown, txVars
<1>3. CASE IrqHandler
  BY <1>3 DEF IrqHandler, DoneInv, ShuttingDown
<1>4. CASE Xmit
  BY <1>4, XmitFacts DEF DoneInv
<1>5. CASE AttachNetdev \/ AttachFails \/ AttachIrq \/ AttachEvent \/ AttachThread
           \/ AttachConfigure \/ TeardownBegin
  <2>1. ctl' # "detached"
    BY <1>5 DEF AttachNetdev, AttachFails, AttachIrq, AttachEvent, AttachThread,
                AttachConfigure, TeardownBegin
  <2> QED BY <2>1 DEF DoneInv
<1>6. CASE TeardownEnd
  <2>1. thread.pc \in {"none", "exited"}
    BY <1>6 DEF TeardownEnd, ThreadInv
  <2>2. interest = {} /\ edges = {} /\ tx_pending = NoPacket
    BY <1>6, <2>1 DEF TeardownEnd, MaskInv, ThreadInv
  <2> QED BY <1>6, <2>1, <2>2 DEF TeardownEnd, DoneInv, hostVars
<1> QED BY <1>1, <1>2, <1>3, <1>4, <1>5, <1>6 DEF Next, Control

\* The elements of a queue without its head and of one with a new last packet.
LEMMA HeadTailElements ==
    ASSUME NEW S, NEW q \in Seq(S), q # <<>>
    PROVE  /\ Elements(q) = {Head(q)} \cup Elements(Tail(q))
           /\ Len(q) >= 1 /\ Head(q) = q[1] /\ Len(Tail(q)) = Len(q) - 1
           /\ \A m \in 1..Len(Tail(q)) : Tail(q)[m] = q[m + 1]
<1>1. Len(q) \in Nat /\ Len(q) >= 1
  BY EmptySeq, LenProperties
<1>2. /\ Head(q) = q[1] /\ Len(Tail(q)) = Len(q) - 1
      /\ \A m \in 1..Len(Tail(q)) : Tail(q)[m] = q[m + 1]
  BY <1>1, HeadTailProperties
<1>3. Elements(Tail(q)) \subseteq Elements(q)
  BY <1>1, <1>2 DEF Elements
<1>4. Head(q) \in Elements(q)
  BY <1>1, <1>2 DEF Elements
<1>5. ASSUME NEW m \in 1..Len(q) PROVE q[m] \in {Head(q)} \cup Elements(Tail(q))
  <2>1. CASE m = 1
    BY <1>2, <2>1
  <2>2. CASE m # 1
    <3>1. m - 1 \in 1..Len(Tail(q)) /\ Tail(q)[m - 1] = q[m]
      BY <1>1, <1>2, <2>2
    <3> QED BY <3>1, Zenon DEF Elements
  <2> QED BY <2>1, <2>2
<1>6. Elements(q) \subseteq {Head(q)} \cup Elements(Tail(q))
  BY <1>5 DEF Elements
<1> QED BY <1>1, <1>2, <1>3, <1>4, <1>6

\* A packet put at the tail of a queue is its last, and moves no other.
LEMMA AppendElements ==
    ASSUME NEW S, NEW q \in Seq(S), NEW p \in S
    PROVE  /\ Elements(Append(q, p)) = Elements(q) \cup {p}
           /\ Len(Append(q, p)) = Len(q) + 1 /\ Append(q, p)[Len(q) + 1] = p
           /\ \A m \in 1..Len(q) : Append(q, p)[m] = q[m]
<1>1. Len(q) \in Nat
  BY LenProperties
<1>2. /\ Len(Append(q, p)) = Len(q) + 1 /\ Append(q, p)[Len(q) + 1] = p
      /\ \A m \in 1..Len(q) : Append(q, p)[m] = q[m]
  BY AppendProperties
<1>3. \A m \in 1..Len(q) + 1 : m \in 1..Len(q) \/ m = Len(q) + 1
  BY <1>1
<1>4. Elements(Append(q, p)) \subseteq Elements(q) \cup {p}
  BY <1>2, <1>3 DEF Elements
<1>5. Elements(q) \subseteq Elements(Append(q, p))
  BY <1>1, <1>2 DEF Elements
<1>6. p \in Elements(Append(q, p))
  BY <1>1, <1>2 DEF Elements
<1> QED BY <1>2, <1>4, <1>5, <1>6

\* The elements of a sequence of numbers are numbers.
LEMMA ElementsIn ==
    ASSUME NEW S, NEW q \in Seq(S) PROVE Elements(q) \subseteq S
BY ElementOfSeq DEF Elements

\* tcpcc_l3_drain_tx takes the head of the queue in hand.
LEMMA LineTake ==
    ASSUME NEW n \in Nat, NEW s \in Seq(1..n), NEW q \in Seq(1..n), NEW d \in SUBSET (1..n),
           Line(s, {}, q, d, n), q # <<>>
    PROVE  Line(s, {Head(q)}, Tail(q), d, n)
<1>1. /\ Elements(q) = {Head(q)} \cup Elements(Tail(q))
      /\ Len(q) >= 1 /\ Head(q) = q[1] /\ Len(Tail(q)) = Len(q) - 1
      /\ \A m \in 1..Len(Tail(q)) : Tail(q)[m] = q[m + 1]
  BY HeadTailElements
<1>2. Len(q) \in Nat
  BY LenProperties
<1>3. \A m \in 1..Len(Tail(q)) : 1 \in 1..Len(q) /\ m + 1 \in 1..Len(q)
  BY <1>1, <1>2
<1>4. Increasing(Tail(q))
  BY <1>1, <1>2, <1>3 DEF Increasing, Line
<1>5. Below({Head(q)}, Elements(Tail(q)))
  <2>0. Increasing(q) /\ \A m \in 1..Len(Tail(q)) : 1 < m + 1
    BY DEF Line
  <2>1. \A m \in 1..Len(Tail(q)) : q[1] < q[m + 1]
    BY <1>3, <2>0 DEF Increasing
  <2> QED BY <1>1, <2>1 DEF Below, Elements
<1>6. Below(Elements(s), {Head(q)} \cup Elements(Tail(q)))
  BY <1>1 DEF Line
<1> QED BY <1>1, <1>4, <1>5, <1>6 DEF Line

\* The packet in hand is written.
LEMMA LineWrite ==
    ASSUME NEW n \in Nat, NEW s \in Seq(1..n), NEW q \in Seq(1..n), NEW d \in SUBSET (1..n),
           NEW p \in 1..n, Line(s, {p}, q, d, n)
    PROVE  Line(Append(s, p), {}, q, d, n)
<1>1. /\ Elements(Append(s, p)) = Elements(s) \cup {p}
      /\ Len(Append(s, p)) = Len(s) + 1 /\ Append(s, p)[Len(s) + 1] = p
      /\ \A m \in 1..Len(s) : Append(s, p)[m] = s[m]
  <2> DEFINE Packets == 1..n
  <2>1. s \in Seq(Packets) /\ p \in Packets
    OBVIOUS
  <2> HIDE DEF Packets
  <2> QED BY <2>1, AppendElements
<1>2. Len(s) \in Nat
  BY LenProperties
<1>3. \A m \in 1..Len(s) : s[m] < p
  BY DEF Line, Below, Elements
<1>4. ASSUME NEW a \in 1..Len(Append(s, p)), NEW b \in 1..Len(Append(s, p)), a < b
      PROVE  Append(s, p)[a] < Append(s, p)[b]
  <2>1. a \in 1..Len(s)
    BY <1>1, <1>2, <1>4
  <2>2. CASE b \in 1..Len(s)
    BY <1>1, <1>4, <2>1, <2>2 DEF Line, Increasing
  <2>3. CASE b = Len(s) + 1
    BY <1>1, <1>3, <2>1, <2>3
  <2> QED BY <1>1, <1>2, <2>2, <2>3
<1>5. Increasing(Append(s, p))
  BY <1>4, Zenon DEF Increasing
<1>6. Below(Elements(s) \cup {p}, Elements(q)) /\ Below({}, Elements(q))
  BY DEF Line, Below
<1> QED BY <1>1, <1>5, <1>6 DEF Line

\* The packet in hand is dropped.
LEMMA LineDrop ==
    ASSUME NEW n \in Nat, NEW s \in Seq(1..n), NEW q \in Seq(1..n), NEW d \in SUBSET (1..n),
           NEW p \in 1..n, Line(s, {p}, q, d, n)
    PROVE  Line(s, {}, q, d \cup {p}, n)
<1>1. p \notin Elements(s) /\ p \notin Elements(q)
  BY DEF Line, Below
<1>2. Below(Elements(s), {} \cup Elements(q)) /\ Below({}, Elements(q))
  BY DEF Line, Below
<1> QED BY <1>1, <1>2 DEF Line

\* A packet is accepted.
LEMMA LineAccept ==
    ASSUME NEW n \in Nat, NEW s \in Seq(1..n), NEW q \in Seq(1..n), NEW d \in SUBSET (1..n),
           NEW H \in SUBSET (1..n), Line(s, H, q, d, n)
    PROVE  Line(s, H, Append(q, n + 1), d, n + 1)
<1>0. q \in Seq(1..(n + 1)) /\ n + 1 \in 1..(n + 1)
  <2>1. \A m \in 1..Len(q) : q[m] \in 1..n
    BY ElementOfSeq
  <2>2. 1..n \subseteq 1..(n + 1)
    OBVIOUS
  <2> QED BY <2>1, <2>2, SeqDef, LenProperties
<1>1. /\ Elements(Append(q, n + 1)) = Elements(q) \cup {n + 1}
      /\ Len(Append(q, n + 1)) = Len(q) + 1 /\ Append(q, n + 1)[Len(q) + 1] = n + 1
      /\ \A m \in 1..Len(q) : Append(q, n + 1)[m] = q[m]
  <2> DEFINE S == 1..(n + 1)
             p == n + 1
  <2>1. q \in Seq(S) /\ p \in S
    BY <1>0
  <2> HIDE DEF S, p
  <2>2. /\ Elements(Append(q, p)) = Elements(q) \cup {p}
        /\ Len(Append(q, p)) = Len(q) + 1 /\ Append(q, p)[Len(q) + 1] = p
        /\ \A m \in 1..Len(q) : Append(q, p)[m] = q[m]
    BY <2>1, AppendElements
  <2> QED BY <2>2 DEF p
<1>2. Len(q) \in Nat
  BY LenProperties
<1>3. Elements(q) \subseteq 1..n /\ Elements(s) \subseteq 1..n
  BY ElementsIn
<1>4. ASSUME NEW a \in 1..Len(Append(q, n + 1)), NEW b \in 1..Len(Append(q, n + 1)), a < b
      PROVE  Append(q, n + 1)[a] < Append(q, n + 1)[b]
  <2>1. a \in 1..Len(q) /\ q[a] \in 1..n
    BY <1>1, <1>2, <1>4, ElementOfSeq
  <2>2. CASE b \in 1..Len(q)
    BY <1>1, <1>4, <2>1, <2>2 DEF Line, Increasing
  <2>3. CASE b = Len(q) + 1
    BY <1>1, <2>1, <2>3
  <2> QED BY <1>1, <1>2, <2>2, <2>3
<1>5. Increasing(Append(q, n + 1))
  BY <1>4 DEF Increasing
<1>6. Below(Elements(s), H \cup (Elements(q) \cup {n + 1}))
  <2>1. \A a \in Elements(s) : a < n + 1
    BY <1>3
  <2> QED BY <2>1 DEF Line, Below
<1>7. Below(H, Elements(q) \cup {n + 1})
  BY <1>3 DEF Line, Below
<1>8. (Elements(s) \cup H \cup (Elements(q) \cup {n + 1})) \cap d = {}
  <2>1. n + 1 \notin d
    OBVIOUS
  <2> QED BY <2>1 DEF Line
<1>9. Elements(s) \cup H \cup (Elements(q) \cup {n + 1}) \cup d = 1..(n + 1)
  <2>1. 1..(n + 1) = 1..n \cup {n + 1}
    OBVIOUS
  <2> QED BY <2>1 DEF Line
<1> QED BY <1>1, <1>5, <1>6, <1>7, <1>8, <1>9, Zenon DEF Line

\* The teardown drops what is queued.
LEMMA LineFlush ==
    ASSUME NEW n \in Nat, NEW s \in Seq(1..n), NEW q \in Seq(1..n), NEW d \in SUBSET (1..n),
           Line(s, {}, q, d, n)
    PROVE  Line(s, {}, <<>>, d \cup Elements(q), n)
<1>1. Elements(<<>>) = {} /\ Increasing(<<>>)
  BY DEF Elements, Increasing
<1>2. Elements(s) \cap Elements(q) = {}
  <2>1. Elements(s) \subseteq 1..n
    BY ElementsIn
  <2> QED BY <2>1 DEF Line, Below
<1>3. Below(Elements(s), {} \cup {}) /\ Below({}, {})
  BY DEF Below
<1> QED BY <1>1, <1>2, <1>3, Zenon DEF Line

\* Every step keeps the line of packets in order.
LEMMA OrderNext ==
    ASSUME TypeOK, StopInv, ThreadInv, OrderInv, Next
    PROVE  OrderInv'
<1>0. /\ accepted \in Nat /\ sent \in Seq(1..accepted) /\ tx_queue \in Seq(1..accepted)
      /\ dropped \in SUBSET (1..accepted) /\ tx_pending \in 0..accepted
      /\ Line(sent, InHand, tx_queue, dropped, accepted)
  BY DEF TypeOK, OrderInv
<1>h. /\ tx_pending = NoPacket => InHand = {}
      /\ tx_pending # NoPacket => InHand = {tx_pending} /\ tx_pending \in 1..accepted
  BY <1>0 DEF InHand, NoPacket
<1>u. ASSUME UNCHANGED txVars, accepted' = accepted PROVE OrderInv'
  <2>1. UNCHANGED <<sent, tx_pending, tx_queue, dropped>>
    BY <1>u DEF txVars
  <2>2. InHand' = InHand
    BY <2>1 DEF InHand
  <2> QED BY <1>0, <1>u, <2>1, <2>2 DEF OrderInv
<1>d. ASSUME NEW f, DropPending(f), accepted' = accepted PROVE OrderInv'
  <2>1. CASE tx_pending = NoPacket
    BY <1>d, <1>u, <2>1 DEF DropPending
  <2>2. CASE tx_pending # NoPacket
    <3>1. /\ tx_pending' = NoPacket /\ tx_queue' = tx_queue /\ sent' = sent
          /\ dropped' = dropped \cup {tx_pending}
      BY <1>d, <2>2 DEF DropPending, FinishTx
    <3>2. InHand' = {}
      BY <3>1 DEF InHand
    <3>3. Line(sent, {}, tx_queue, dropped \cup {tx_pending}, accepted)
      BY <1>0, <1>h, <2>2, LineDrop
    <3> QED BY <1>d, <3>1, <3>2, <3>3 DEF OrderInv
  <2> QED BY <2>1, <2>2
<1>c. ASSUME CanWrite
      PROVE  /\ Current \in 1..accepted /\ QueueAfter \in Seq(1..accepted)
             /\ Line(sent, {Current}, QueueAfter, dropped, accepted)
  <2>1. CASE tx_pending # NoPacket
    BY <1>0, <1>h, <2>1, Zenon DEF Current, QueueAfter
  <2>2. CASE tx_pending = NoPacket
    <3>1. tx_queue # <<>> /\ Current = Head(tx_queue) /\ QueueAfter = Tail(tx_queue)
      BY <1>c, <2>2 DEF CanWrite, Current, QueueAfter
    <3>2. Head(tx_queue) \in 1..accepted /\ Tail(tx_queue) \in Seq(1..accepted)
      BY <1>0, <3>1, HeadTailProperties
    <3>3. Line(sent, {Head(tx_queue)}, Tail(tx_queue), dropped, accepted)
      BY <1>0, <1>h, <2>2, <3>1, LineTake, Zenon
    <3> QED BY <3>1, <3>2, <3>3
  <2> QED BY <2>1, <2>2
<1>1. CASE IoExit
  BY <1>1, <1>d DEF IoExit
<1>2. CASE IoUnblock
  BY <1>2, <1>d, <1>u DEF IoUnblock
<1>3. CASE IoArmWritable
  BY <1>3, <1>d, <1>u DEF IoArmWritable
<1>4. CASE IoWrite
  <2>1. /\ CanWrite /\ accepted' = accepted
        /\ \/ FinishTx(Current, TRUE, QueueAfter, flags)
           \/ FinishTx(Current, FALSE, QueueAfter, flags)
    BY <1>4, Zenon DEF IoWrite
  <2>2. InHand' = {} /\ tx_queue' = QueueAfter
    BY <2>1 DEF FinishTx, InHand
  <2>3. CASE FinishTx(Current, TRUE, QueueAfter, flags)
    <3>1. sent' = Append(sent, Current) /\ dropped' = dropped
      BY <2>3 DEF FinishTx
    <3>2. Line(Append(sent, Current), {}, QueueAfter, dropped, accepted)
      BY <1>0, <1>c, <2>1, LineWrite
    <3> QED BY <2>1, <2>2, <3>1, <3>2 DEF OrderInv
  <2>4. CASE FinishTx(Current, FALSE, QueueAfter, flags)
    <3>1. sent' = sent /\ dropped' = dropped \cup {Current}
      BY <2>4 DEF FinishTx
    <3>2. Line(sent, {}, QueueAfter, dropped \cup {Current}, accepted)
      BY <1>0, <1>c, <2>1, LineDrop, Zenon
    <3> QED BY <2>1, <2>2, <3>1, <3>2 DEF OrderInv
  <2> QED BY <2>1, <2>3, <2>4, Zenon
<1>5. CASE IoWriteBlocks
  <2>1. /\ CanWrite /\ tx_pending' = Current /\ tx_queue' = QueueAfter
        /\ UNCHANGED <<sent, dropped, accepted>>
    BY <1>5 DEF IoWriteBlocks
  <2>2. InHand' = {Current}
    BY <1>c, <2>1 DEF InHand, NoPacket
  <2> QED BY <1>c, <2>1, <2>2 DEF OrderInv
<1>6. CASE Xmit
  <2>1. CASE UNCHANGED <<tx_queue, accepted>>
    BY <1>6, <1>u, <2>1 DEF Xmit, txVars
  <2>2. CASE tx_queue' = Append(tx_queue, accepted + 1) /\ accepted' = accepted + 1
    <3>1. UNCHANGED <<sent, dropped, tx_pending>>
      BY <1>6 DEF Xmit
    <3>2. InHand \in SUBSET (1..accepted)
      BY <1>h
    <3>3. Line(sent, InHand, Append(tx_queue, accepted + 1), dropped, accepted + 1)
      BY <1>0, <3>2, LineAccept
    <3>4. InHand' = InHand
      BY <3>1 DEF InHand
    <3> QED BY <2>2, <3>1, <3>3, <3>4 DEF OrderInv
  <2> QED BY <1>6, <2>1, <2>2 DEF Xmit
<1>7. CASE TeardownEnd
  <2>1. /\ tx_queue' = <<>> /\ dropped' = dropped \cup Elements(tx_queue)
        /\ UNCHANGED <<tx_pending, sent, accepted>> /\ ctl = "kthread_stop"
        /\ "io_task" \in acquired => thread.pc = "exited"
    BY <1>7 DEF TeardownEnd
  <2>2. tx_pending = NoPacket
    BY <2>1 DEF ThreadInv
  <2>3. InHand = {} /\ InHand' = {}
    BY <2>1, <2>2 DEF InHand
  <2>4. Line(sent, {}, <<>>, dropped \cup Elements(tx_queue), accepted)
    BY <1>0, <2>3, LineFlush
  <2> QED BY <2>1, <2>3, <2>4 DEF OrderInv
<1>8. CASE HostDelivers \/ HostTakes \/ HostHangup \/ IrqHandler
  BY <1>8, <1>u DEF HostDelivers, HostTakes, HostHangup, IrqHandler
<1>9. CASE IoSleep \/ IoRound \/ IoRead \/ IoReadEnd \/ IoNoTx \/ IoTxBegin \/ IoTxEnd
  BY <1>9, <1>u DEF IoSleep, IoRound, IoRead, IoReadEnd, IoNoTx, IoTxBegin, IoTxEnd
<1>10. CASE AttachNetdev \/ AttachFails \/ AttachIrq \/ AttachEvent \/ AttachThread
            \/ AttachConfigure \/ TeardownBegin
  BY <1>10, <1>u DEF AttachNetdev, AttachFails, AttachIrq, AttachEvent, AttachThread,
                     AttachConfigure, TeardownBegin
<1> QED BY <1>1, <1>2, <1>3, <1>4, <1>5, <1>6, <1>7, <1>8, <1>9, <1>10
        DEF Next, IoThread, Control

\* Two increasing sequences, one below the other, joined.
LEMMA ConcatIncreasing ==
    ASSUME NEW S, NEW s \in Seq(S), NEW t \in Seq(S),
           Increasing(s), Increasing(t), Below(Elements(s), Elements(t))
    PROVE  /\ s \o t \in Seq(S) /\ Increasing(s \o t)
           /\ Elements(s \o t) = Elements(s) \cup Elements(t)
<1>1. /\ s \o t \in Seq(S) /\ Len(s \o t) = Len(s) + Len(t)
      /\ \A m \in 1..(Len(s) + Len(t)) :
            (s \o t)[m] = IF m =< Len(s) THEN s[m] ELSE t[m - Len(s)]
  BY ConcatProperties
<1>2. Len(s) \in Nat /\ Len(t) \in Nat
  BY LenProperties
<1>3. \A m \in 1..Len(s) : (s \o t)[m] = s[m] /\ m \in 1..Len(s \o t)
  BY <1>1, <1>2
<1>4. \A m \in 1..Len(t) : (s \o t)[m + Len(s)] = t[m] /\ m + Len(s) \in 1..Len(s \o t)
  BY <1>1, <1>2
<1>5. \A m \in 1..Len(s \o t) :
        m \in 1..Len(s) \/ (\E k \in 1..Len(t) : m = k + Len(s))
  <2>1. \A m \in 1..Len(s \o t) : m \in 1..Len(s) \/ m - Len(s) \in 1..Len(t)
    BY <1>1, <1>2
  <2>2. \A m \in 1..Len(s \o t) : m = (m - Len(s)) + Len(s)
    BY <1>2
  <2> QED BY <2>1, <2>2
<1>6. ASSUME NEW a \in 1..Len(s \o t), NEW b \in 1..Len(s \o t), a < b
      PROVE  (s \o t)[a] < (s \o t)[b]
  <2>1. CASE a \in 1..Len(s) /\ b \in 1..Len(s)
    BY <1>3, <1>6, <2>1 DEF Increasing
  <2>2. CASE a \in 1..Len(s) /\ \E k \in 1..Len(t) : b = k + Len(s)
    BY <1>3, <1>4, <2>2 DEF Below, Elements
  <2>3. CASE (\E k \in 1..Len(t) : a = k + Len(s)) /\ (\E k \in 1..Len(t) : b = k + Len(s))
    <3>1. PICK k \in 1..Len(t) : a = k + Len(s)
      BY <2>3
    <3>2. PICK l \in 1..Len(t) : b = l + Len(s)
      BY <2>3
    <3>3. k < l
      BY <1>2, <1>6, <3>1, <3>2
    <3> QED BY <1>4, <3>1, <3>2, <3>3 DEF Increasing
  <2>4. CASE (\E k \in 1..Len(t) : a = k + Len(s)) /\ b \in 1..Len(s)
    BY <1>2, <1>6, <2>4
  <2> QED BY <1>5, <2>1, <2>2, <2>3, <2>4, Zenon
<1>7. Elements(s) \subseteq Elements(s \o t)
  BY <1>3 DEF Elements
<1>8. Elements(t) \subseteq Elements(s \o t)
  BY <1>4 DEF Elements
<1>9. Elements(s \o t) \subseteq Elements(s) \cup Elements(t)
  BY <1>3, <1>4, <1>5 DEF Elements
<1> QED BY <1>1, <1>6, <1>7, <1>8, <1>9 DEF Increasing

\* The line of packets, read as one sequence.
LEMMA OrderImpliesTxInOrder ==
    ASSUME TypeOK, OrderInv
    PROVE  TxInOrder
<1> DEFINE hand == IF tx_pending = NoPacket THEN <<>> ELSE <<tx_pending>>
<1>0. /\ accepted \in Nat /\ sent \in Seq(1..accepted) /\ tx_queue \in Seq(1..accepted)
      /\ tx_pending \in 0..accepted /\ Line(sent, InHand, tx_queue, dropped, accepted)
  BY DEF TypeOK, OrderInv
<1>1. hand \in Seq(1..accepted) /\ Elements(hand) = InHand /\ Increasing(hand)
  <2>1. CASE tx_pending = NoPacket
    BY <2>1 DEF InHand, Elements, Increasing
  <2>2. CASE tx_pending # NoPacket
    BY <1>0, <2>2 DEF InHand, Elements, Increasing, NoPacket
  <2> QED BY <2>1, <2>2
<1> HIDE DEF hand
<1>2. /\ Below(Elements(sent), Elements(hand)) /\ Below(Elements(hand), Elements(tx_queue))
      /\ Below(Elements(sent), Elements(tx_queue)) /\ Increasing(sent) /\ Increasing(tx_queue)
  BY <1>0, <1>1 DEF Line, Below
<1>3. /\ sent \o hand \in Seq(1..accepted) /\ Increasing(sent \o hand)
      /\ Elements(sent \o hand) = Elements(sent) \cup Elements(hand)
  BY <1>0, <1>1, <1>2, ConcatIncreasing
<1>4. Below(Elements(sent \o hand), Elements(tx_queue))
  BY <1>2, <1>3 DEF Below
<1>5. /\ Increasing((sent \o hand) \o tx_queue)
      /\ Elements((sent \o hand) \o tx_queue) = Elements(sent \o hand) \cup Elements(tx_queue)
  <2> DEFINE t == sent \o hand
  <2>1. /\ t \in Seq(1..accepted) /\ Increasing(t) /\ Below(Elements(t), Elements(tx_queue))
        /\ tx_queue \in Seq(1..accepted) /\ Increasing(tx_queue)
    BY <1>0, <1>2, <1>3, <1>4
  <2> HIDE DEF t
  <2>2. /\ Increasing(t \o tx_queue)
        /\ Elements(t \o tx_queue) = Elements(t) \cup Elements(tx_queue)
    BY <2>1, ConcatIncreasing
  <2> QED BY <2>2 DEF t
<1>6. Elements((sent \o hand) \o tx_queue) = Elements(sent) \cup InHand \cup Elements(tx_queue)
  BY <1>1, <1>3, <1>5
<1>7. /\ Elements((sent \o hand) \o tx_queue) \cap dropped = {}
      /\ Elements((sent \o hand) \o tx_queue) \cup dropped = 1..accepted
  BY <1>0, <1>6 DEF Line
<1> QED BY <1>5, <1>7 DEF TxInOrder, Increasing, hand

\* The initial state, and every step.
LEMMA IoInit == Init => IoInv
<1> SUFFICES ASSUME Init PROVE IoInv
  OBVIOUS
<1>1. Elements(<<>>) = {} /\ Increasing(<<>>) /\ InHand = {}
  BY DEF Init, Elements, Increasing, InHand, NoPacket
<1>2. OrderInv
  <2>1. 1..0 = {}
    OBVIOUS
  <2>2. sent = <<>> /\ tx_queue = <<>> /\ dropped = {} /\ accepted = 0
    BY DEF Init
  <2> QED BY <1>1, <2>1, <2>2 DEF OrderInv, Line, Below
<1>3. MaskInv /\ ThreadInv
  BY DEF Init, MaskInv, ThreadInv
<1>4. NoLostIoWakeup /\ NoStrandedWrite /\ ReadInv
  BY DEF Init, NoLostIoWakeup, NoStrandedWrite, NoStrandedRead, ReadInv
<1>5. DoneInv
  BY DEF Init, DoneInv, ShuttingDown
<1> QED BY <1>2, <1>3, <1>4, <1>5 DEF IoInv

\* Every step of the device, its thread and its control keeps the invariant of the I/O.
LEMMA IoNext ==
    ASSUME IInv, IoInv, [Next]_vars
    PROVE  IoInv'
<1>1. CASE Next
  <2>1. TypeOK /\ StopInv
    BY DEF IInv, Core
  <2> QED BY <1>1, <2>1, MaskNext, ThreadNext, WakeNext, WriteNext, ReadNext, DoneNext,
             OrderNext DEF IoInv
<1>2. CASE UNCHANGED vars
  <2>1. UNCHANGED <<txVars, pending_events, flags, acquired, thread, ctl, hostVars, accepted>>
    BY <1>2 DEF vars
  <2>2. UNCHANGED <<tx_queue, tx_pending, sent, dropped, interest, edges, rx, room>>
    BY <2>1 DEF txVars, hostVars
  <2>3. MaskInv' /\ ThreadInv' /\ DoneInv'
    BY <2>1, <2>2 DEF IoInv, MaskInv, ThreadInv, DoneInv, ShuttingDown
  <2>4. NoLostIoWakeup' /\ NoStrandedWrite' /\ ReadInv'
    BY <2>1, <2>2 DEF IoInv, NoLostIoWakeup, HasWork, TxReady, ShuttingDown,
                      NoStrandedWrite, ReadInv, NoStrandedRead
  <2>5. OrderInv'
    BY <2>1, <2>2 DEF IoInv, OrderInv, InHand, Line, Elements, Increasing
  <2> QED BY <2>3, <2>4, <2>5 DEF IoInv
<1> QED BY <1>1, <1>2

\* Both invariants hold throughout.
LEMMA IoInvariance == Spec => [](IInv /\ IoInv)
<1>1. Init => IoInv
  BY IoInit
<1>2. IInv /\ IoInv /\ [Next]_vars => IoInv'
  BY IoNext
<1> QED BY <1>1, <1>2, Invariance, PTL DEF Spec

\* tcpcc_l3_teardown, from wherever it is called, leaves no packet, no event and no
\* descriptor, the thread is gone, and every packet tcpcc_l3_xmit ever accepted was
\* written or freed.
THEOREM TeardownIsComplete == Spec => []TeardownLeavesNothing
<1>1. IInv /\ IoInv => TeardownLeavesNothing
  <2> SUFFICES ASSUME IInv, IoInv, ctl = "detached", ShuttingDown
               PROVE  /\ acquired = {} /\ interest = {} /\ edges = {}
                      /\ tx_queue = <<>> /\ tx_pending = NoPacket
                      /\ Elements(sent) \cup dropped = 1..accepted
                      /\ thread.pc \in {"none", "exited"}
    BY DEF TeardownLeavesNothing
  <2>1. /\ acquired = {} /\ interest = {} /\ edges = {}
        /\ tx_queue = <<>> /\ tx_pending = NoPacket
        /\ thread.pc \in {"none", "exited"}
    BY DEF IoInv, DoneInv
  <2>2. InHand = {} /\ Elements(tx_queue) = {}
    BY <2>1 DEF InHand, Elements, NoPacket
  <2>3. Elements(sent) \cup InHand \cup Elements(tx_queue) \cup dropped = 1..accepted
    BY DEF IoInv, OrderInv, Line
  <2> QED BY <2>1, <2>2, <2>3
<1> QED BY <1>1, IoInvariance, PTL

\* The packets leave in the order in which tcpcc_l3_xmit accepted them and each has
\* one fate, whichever host call fails; a sleeping thread has no work, and a write
\* that blocked is resumed.
THEOREM PacketsAndWrites == Spec => [](TxInOrder /\ NoLostIoWakeup /\ NoStrandedWrite)
<1>1. IInv /\ IoInv => TxInOrder /\ NoLostIoWakeup /\ NoStrandedWrite
  BY OrderImpliesTxInOrder DEF IInv, Core, IoInv
<1> QED BY <1>1, IoInvariance, PTL

\* With a TUN whose reads end with EAGAIN only, no packet waiting in it is forgotten
\* either: IoSound as the run checks it, for every limit, budget and fault but that of
\* tcpcc_l3_drain_rx's read.
THEOREM NothingIsLost ==
    ASSUME "read" \notin Faults
    PROVE  Spec => []IoSound
<1>1. IInv /\ IoInv => IoSound
  BY OrderImpliesTxInOrder DEF IInv, Core, IoInv, ReadInv, IoSound, NoLostIo
<1> QED BY <1>1, IoInvariance, PTL

=============================================================================
