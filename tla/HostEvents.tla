------------------------------ MODULE HostEvents ------------------------------
(***************************************************************************)
(* The queue of runtime events (irq.c): filled by the idle loop, which     *)
(* reads one event from epoll at a time, emptied by the bridge dispatcher  *)
(* (bridge.c) or by the backend probe of the control thread (control.c).   *)
(*                                                                         *)
(* There is one processor.  The idle loop runs when no thread can run, the *)
(* interrupt it raises is handled to its end in the same step, and nothing *)
(* else fills the queue.  That keeps it short while the dispatcher runs.    *)
(* While the dispatcher sleeps in a round the idle loop reads on, and at   *)
(* the limit of the queue the handler panics.                              *)
(***************************************************************************)
EXTENDS Integers, Sequences

CONSTANTS
  Bridges,       \* tokens of bridge sessions
  Probe,         \* TCPCC_CONTROL_HOST_BACKEND_TOKEN
  QUEUE_LIMIT,   \* TCPCC_HOST_RUNTIME_QUEUE_LIMIT
  MaxSlept       \* bound: events read while the dispatcher sleeps in its rounds

ASSUME EventBounds ==
  /\ QUEUE_LIMIT \in Nat \ {0} /\ MaxSlept \in Nat
  /\ Probe \notin Bridges

VARIABLES
  armed,         \* tokens registered with epoll
  edges,         \* those with an edge the host has not reported yet
  queue,         \* tcpcc_runtime_queue
  completion,    \* tcpcc_runtime_event_ready.done
  notify,        \* tcpcc_runtime_event_notify is set
  pending,       \* dispatcher_pending
  thread,        \* the dispatcher: none, wait, drain, taken, pump, failed, exited
  asleep,        \* it sleeps inside a round, for memory or a socket lock
  slept,         \* events read so since it last found the queue empty
  stopping,      \* dispatcher_stopping
  lock,          \* holder of tcpcc_bridge_control_lock: free, start, cancel
  probe,         \* the probe: none, begin, wait, taken, end
  raced,         \* bridges armed while a probe was under way
  lost,          \* bridges of which the probe took an event
  panicked

events == <<armed, edges>>
fifo == <<queue, completion>>
dispatcher == <<pending, thread, asleep, slept, stopping>>
history == <<raced, lost>>
eventVars == <<events, fifo, notify, dispatcher, lock, probe, history, panicked>>

EventsInit ==
  /\ armed = {} /\ edges = {}
  /\ queue = <<>> /\ completion = 0
  /\ notify = FALSE /\ pending = FALSE
  /\ thread = "none" /\ asleep = FALSE /\ slept = 0 /\ stopping = FALSE
  /\ lock = "free" /\ probe = "none"
  /\ raced = {} /\ lost = {}
  /\ panicked = FALSE

-----------------------------------------------------------------------------
(* The host and the idle loop *)

\* The host marks a descriptor ready at any time.
HostEdge(t) ==
  /\ t \in armed
  /\ edges' = edges \cup {t}
  /\ UNCHANGED <<armed, fifo, notify, dispatcher, lock, probe, history, panicked>>

DispatcherRuns ==
  /\ ~asleep
  /\ thread \in {"drain", "taken", "pump"} \/ (thread = "wait" /\ (pending \/ stopping))

ProbeRuns ==
  probe \in {"begin", "taken", "end"} \/ (probe = "wait" /\ completion > 0)

\* tcpcc_host_idle_wait, tcpcc_runtime_irq_handler and the notifier, which is
\* tcpcc_bridge_dispatcher_wake.
IdleWait(t) ==
  /\ ~DispatcherRuns /\ ~ProbeRuns
  /\ t \in edges
  /\ edges' = edges \ {t}
  /\ asleep => slept < MaxSlept
  /\ slept' = IF asleep THEN slept + 1 ELSE slept
  /\ IF Len(queue) >= QUEUE_LIMIT
     THEN panicked' = TRUE /\ UNCHANGED <<fifo, pending>>
     ELSE /\ queue' = Append(queue, t)
          /\ completion' = completion + 1
          /\ pending' = (pending \/ notify)
          /\ UNCHANGED panicked
  /\ UNCHANGED <<armed, notify, thread, asleep, stopping, lock, probe, history>>

-----------------------------------------------------------------------------
(* The dispatcher thread *)

\* wait_event takes dispatcher_pending; a stop ends the thread with whatever
\* is queued.
EventWake ==
  /\ thread = "wait" /\ (pending \/ stopping)
  /\ pending' = FALSE
  /\ thread' = IF stopping THEN "exited" ELSE "drain"
  /\ UNCHANGED <<events, fifo, notify, asleep, slept, stopping, lock, probe,
                 history, panicked>>

\* tcpcc_host_runtime_event_poll, first the completion ...
PollCompletion ==
  /\ thread = "drain" /\ ~asleep
  /\ IF completion > 0
     THEN thread' = "taken" /\ completion' = completion - 1 /\ UNCHANGED slept
     ELSE thread' = "pump" /\ slept' = 0 /\ UNCHANGED completion
  /\ UNCHANGED <<events, queue, notify, pending, asleep, stopping, lock, probe,
                 history, panicked>>

\* ... then the queue; -EIO ends the dispatcher.
PollDequeue ==
  /\ thread = "taken" /\ ~asleep
  /\ IF queue = <<>> THEN thread' = "failed" /\ UNCHANGED queue
     ELSE thread' = "drain" /\ queue' = Tail(queue)
  /\ UNCHANGED <<events, completion, notify, pending, asleep, slept, stopping,
                 lock, probe, history, panicked>>

\* The ready sessions, up to the budget, which wakes the dispatcher again.
Pump ==
  /\ thread = "pump" /\ ~asleep
  /\ thread' = "wait"
  /\ pending' = TRUE \/ UNCHANGED pending
  /\ UNCHANGED <<events, fifo, notify, asleep, slept, stopping, lock, probe,
                 history, panicked>>

\* Pumping a session takes socket locks and memory.
Sleep ==
  /\ thread \in {"drain", "pump"}
  /\ asleep' = ~asleep
  /\ UNCHANGED <<events, fifo, notify, pending, thread, slept, stopping, lock,
                 probe, history, panicked>>

-----------------------------------------------------------------------------
(* Bridges come and go *)

\* tcpcc_bridge_start_dispatcher, up to kthread_run ...
StartBegin ==
  /\ lock = "free" /\ thread = "none"
  /\ lock' = "start"
  /\ stopping' = FALSE /\ pending' = FALSE
  /\ notify' = TRUE
  /\ UNCHANGED <<events, fifo, thread, asleep, slept, probe, history, panicked>>

\* ... and after it.
StartEnd ==
  /\ lock = "start"
  /\ lock' = "free"
  /\ \/ thread' = "wait" /\ pending' = TRUE /\ UNCHANGED notify
     \/ notify' = FALSE /\ UNCHANGED <<thread, pending>>
  /\ UNCHANGED <<events, fifo, asleep, slept, stopping, probe, history, panicked>>

\* tcpcc_bridge_start registers the socket of its backend.
Arm(b) ==
  /\ lock = "free" /\ thread \notin {"none", "failed"}
  /\ b \notin armed
  /\ armed' = armed \cup {b}
  /\ raced' = IF probe = "none" THEN raced ELSE raced \cup {b}
  /\ UNCHANGED <<edges, fifo, notify, dispatcher, lock, probe, lost, panicked>>

\* tcpcc_bridge_reap; events of the session may still be queued.
Disarm(b) ==
  /\ lock # "start"
  /\ b \in armed
  /\ armed' = armed \ {b} /\ edges' = edges \ {b}
  /\ raced' = raced \ {b} /\ lost' = lost \ {b}
  /\ UNCHANGED <<fifo, notify, dispatcher, lock, probe, panicked>>

\* tcpcc_bridge_cancel
CancelBegin ==
  /\ lock = "free" /\ thread # "none"
  /\ lock' = "cancel"
  /\ UNCHANGED <<events, fifo, notify, dispatcher, probe, history, panicked>>

CancelStop ==
  /\ lock = "cancel" /\ ~stopping
  /\ armed \cap Bridges = {}
  /\ stopping' = TRUE /\ pending' = TRUE
  /\ UNCHANGED <<events, fifo, notify, thread, asleep, slept, lock, probe, history,
                 panicked>>

CancelEnd ==
  /\ lock = "cancel" /\ stopping
  /\ thread \in {"exited", "failed"}
  /\ lock' = "free" /\ thread' = "none" /\ notify' = FALSE
  /\ UNCHANGED <<events, fifo, pending, asleep, slept, stopping, probe, history,
                 panicked>>

-----------------------------------------------------------------------------
(* The probe of the control thread *)

\* Slip: without the test for an active bridge.
ProbeBeginUnchecked ==
  /\ probe = "none" /\ lock = "free"
  /\ probe' = "begin"
  /\ UNCHANGED <<events, fifo, notify, dispatcher, lock, history, panicked>>

\* tcpcc_bridge_active; the lock is released before the probe goes on.
ProbeBegin ==
  /\ probe = "none" /\ lock = "free"
  /\ thread = "none"
  /\ probe' = "begin"
  /\ UNCHANGED <<events, fifo, notify, dispatcher, lock, history, panicked>>

\* The socket is made, registered and connected, each of which may fail.
ProbeConnect ==
  /\ probe = "begin"
  /\ \/ probe' = "wait" /\ armed' = armed \cup {Probe}
     \/ probe' = "end" /\ armed' = armed \cup {Probe}
     \/ probe' = "end" /\ UNCHANGED armed
  /\ UNCHANGED <<edges, fifo, notify, dispatcher, lock, history, panicked>>

\* tcpcc_runtime_event_dequeue: the completion, or a timeout ...
ProbeWait ==
  /\ probe = "wait"
  /\ IF completion > 0 THEN probe' = "taken" /\ completion' = completion - 1
     ELSE probe' = "end" /\ UNCHANGED completion
  /\ UNCHANGED <<events, queue, notify, dispatcher, lock, history, panicked>>

\* ... and the queue.  With the token of another it is over (-ESTALE);
\* otherwise it may wait again.
ProbeDequeue ==
  /\ probe = "taken"
  /\ IF queue = <<>> THEN probe' = "end" /\ UNCHANGED <<queue, lost>>
     ELSE /\ queue' = Tail(queue)
          /\ probe' \in IF Head(queue) = Probe THEN {"wait", "end"} ELSE {"end"}
          /\ lost' = lost \cup ({Head(queue)} \cap armed \cap Bridges)
  /\ UNCHANGED <<events, completion, notify, dispatcher, lock, raced, panicked>>

ProbeEnd ==
  /\ probe = "end"
  /\ probe' = "none"
  /\ armed' = armed \ {Probe} /\ edges' = edges \ {Probe}
  /\ UNCHANGED <<fifo, notify, dispatcher, lock, history, panicked>>

\* A panic is the end of the kernel.
EventsNext ==
  /\ ~panicked
  /\ \/ \E t \in Bridges \cup {Probe} : HostEdge(t) \/ IdleWait(t)
     \/ EventWake \/ PollCompletion \/ PollDequeue \/ Pump \/ Sleep
     \/ StartBegin \/ StartEnd \/ CancelBegin \/ CancelStop \/ CancelEnd
     \/ \E b \in Bridges : Arm(b) \/ Disarm(b)
     \/ ProbeBegin \/ ProbeConnect \/ ProbeWait \/ ProbeDequeue \/ ProbeEnd

EventsSpec == EventsInit /\ [][EventsNext]_eventVars

-----------------------------------------------------------------------------
(* Properties *)

EventsTypeOK ==
  /\ armed \subseteq Bridges \cup {Probe} /\ edges \subseteq armed
  /\ queue \in Seq(Bridges \cup {Probe}) /\ completion \in Nat
  /\ notify \in BOOLEAN /\ pending \in BOOLEAN /\ asleep \in BOOLEAN
  /\ stopping \in BOOLEAN /\ panicked \in BOOLEAN
  /\ thread \in {"none", "wait", "drain", "taken", "pump", "failed", "exited"}
  /\ slept \in 0..MaxSlept
  /\ lock \in {"free", "start", "cancel"}
  /\ probe \in {"none", "begin", "wait", "taken", "end"}
  /\ raced \subseteq Bridges /\ lost \subseteq Bridges

\* The threads that have taken the completion of an event and not the event.
Takers ==
  (IF thread = "taken" THEN 1 ELSE 0) + (IF probe = "taken" THEN 1 ELSE 0)

\* The completion counts the queued events exactly, so that no consumer finds
\* the queue empty and the dispatcher never ends with -EIO.
QueueExact == completion + Takers = Len(queue) /\ thread # "failed"

\* The queue is never longer than the events read while the dispatcher slept,
\* and one more, and the handler panics only during such a sleep, when at least
\* QUEUE_LIMIT events were read in the sleeps since the dispatcher last found
\* the queue empty.
QueueBounded ==
  /\ Len(queue) <= slept + 1 /\ Len(queue) <= QUEUE_LIMIT
  /\ panicked => asleep /\ slept >= QUEUE_LIMIT

\* A dispatcher that waits with an event in the queue has been woken.
NoLostWakeup == thread = "wait" /\ completion > 0 => pending

\* The probe takes the event of a bridge only if the bridge was started while
\* the probe was under way: tcpcc_bridge_active is tested before the lock is
\* released, and a service may start its first bridge after that.
EventsKept == lost \subseteq raced

\* The queue of runtime events holds what it should, overflows only during a
\* sleep of its reader that is long enough, and wakes its reader, and the probe
\* disturbs no bridge that was there before it.
EventsSound ==
  EventsTypeOK /\ QueueExact /\ QueueBounded /\ NoLostWakeup /\ EventsKept
==============================================================================
