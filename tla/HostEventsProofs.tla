-------------------------- MODULE HostEventsProofs --------------------------
(***************************************************************************)
(* EventsSound of HostEvents, for any set of bridges and any queue limit.  *)
(***************************************************************************)
EXTENDS HostEvents, TLAPS

\* The notifier is set as long as there is a dispatcher thread, and the thread
\* is stopped only by a caller that holds the control lock.
Locks ==
  /\ lock = "start" => thread = "none" /\ notify /\ ~stopping
  /\ thread # "none" => notify
  /\ thread = "exited" => stopping
  /\ stopping /\ thread # "none" => lock = "cancel"

\* Bridges are registered only while the dispatcher runs, the probe only while
\* it waits.
Registered ==
  /\ thread = "none" => armed \cap Bridges = {}
  /\ stopping /\ thread # "none" => armed \cap Bridges = {}
  /\ Probe \in armed => probe \in {"wait", "taken", "end"}
  /\ probe # "none" => armed \cap Bridges \subseteq raced

\* The dispatcher sleeps only inside a round, and an event that comes after it
\* has emptied the queue wakes it again.
Sleeps ==
  /\ asleep => thread \in {"drain", "pump"}
  /\ thread = "pump" /\ completion > 0 => pending

\* The inductive invariant.
EventsInv == EventsSound /\ Locks /\ Registered /\ Sleeps

\* Where the idle loop may read an event while the dispatcher does not sleep,
\* the queue is empty.
LEMMA IdleFindsEmpty ==
  ASSUME EventsInv, NEW t \in edges,
         ~asleep, ~DispatcherRuns, ~ProbeRuns
  PROVE  Len(queue) = 0
  <1>1. completion = 0
    <2>1. CASE thread = "wait"
      BY <2>1 DEF EventsInv, EventsSound, NoLostWakeup, EventsTypeOK, DispatcherRuns
    <2>2. CASE thread # "wait"
      <3>1. thread \in {"none", "exited"}
        BY <2>2 DEF EventsInv, EventsSound, EventsTypeOK, QueueExact, DispatcherRuns
      <3>2. armed \cap Bridges = {}
        BY <3>1 DEF EventsInv, Registered, Locks
      <3>3. t = Probe /\ Probe \in armed
        BY <3>2 DEF EventsInv, EventsSound, EventsTypeOK
      <3> QED BY <3>3 DEF EventsInv, EventsSound, EventsTypeOK, Registered, ProbeRuns
    <2> QED BY <2>1, <2>2
  <1>2. Takers = 0
    BY DEF Takers, EventsInv, Sleeps, DispatcherRuns, ProbeRuns
  <1> QED BY <1>1, <1>2 DEF EventsInv, EventsSound, QueueExact, EventsTypeOK

\* What is left of a queue when its first event is taken.
LEMMA TailFact ==
  ASSUME NEW S, NEW s \in Seq(S), s # <<>>
  PROVE  Len(Tail(s)) = Len(s) - 1 /\ Tail(s) \in Seq(S) /\ Head(s) \in S
  OBVIOUS

\* Before any bridge is started the invariant holds.
LEMMA InitInv == EventsInit => EventsInv
  <1> SUFFICES ASSUME EventsInit PROVE EventsInv
    OBVIOUS
  <1>1. Len(queue) = 0 /\ queue \in Seq(Bridges \cup {Probe})
    BY DEF EventsInit
  <1>2. Takers = 0
    BY DEF EventsInit, Takers
  <1>3. EventsTypeOK
    <2>1. slept \in 0..MaxSlept /\ completion \in Nat
      BY EventBounds DEF EventsInit
    <2>2. /\ notify \in BOOLEAN /\ pending \in BOOLEAN /\ asleep \in BOOLEAN
          /\ stopping \in BOOLEAN /\ panicked \in BOOLEAN
      BY Zenon DEF EventsInit
    <2> QED BY <1>1, <2>1, <2>2 DEF EventsInit, EventsTypeOK
  <1>4. QueueExact /\ QueueBounded
    BY <1>1, <1>2, EventBounds DEF EventsInit, QueueExact, QueueBounded
  <1>5. NoLostWakeup /\ EventsKept /\ Locks /\ Registered /\ Sleeps
    BY DEF EventsInit, NoLostWakeup, EventsKept, Locks, Registered, Sleeps
  <1> QED BY <1>3, <1>4, <1>5 DEF EventsInv, EventsSound

\* Every step of the host, the idle loop, the dispatcher, the callers of the
\* bridge and the probe keeps the invariant.
LEMMA NextInv == EventsInv /\ [EventsNext]_eventVars => EventsInv'
  <1> SUFFICES ASSUME EventsInv, [EventsNext]_eventVars PROVE EventsInv'
    OBVIOUS
  <1> USE DEF EventsInv, EventsSound, EventsTypeOK, QueueExact, Takers,
          QueueBounded, NoLostWakeup, EventsKept, Locks, Registered, Sleeps,
          events, fifo, dispatcher, history
  <1>stutter. CASE UNCHANGED eventVars
    BY <1>stutter DEF eventVars
  <1> SUFFICES ASSUME EventsNext PROVE EventsInv'
    BY <1>stutter
  <1>alive. ~panicked
    BY DEF EventsNext
  <1> USE <1>alive
  <1>1. ASSUME NEW t \in Bridges \cup {Probe}, HostEdge(t) PROVE EventsInv'
    BY <1>1 DEF HostEdge
  <1>3. CASE EventWake
    <2>1. CASE stopping
      BY <1>3, <2>1 DEF EventWake
    <2>2. CASE ~stopping
      BY <1>3, <2>2 DEF EventWake
    <2> QED BY <2>1, <2>2
  <1>4. CASE PollCompletion
    <2>1. CASE completion > 0
      BY <1>4, <2>1 DEF PollCompletion
    <2>2. CASE ~(completion > 0)
      <3>1. completion = 0 /\ Len(queue) <= 1
        BY <1>4, <2>2 DEF PollCompletion
      <3>2. slept' \in 0..MaxSlept
        BY <1>4, <2>2, EventBounds DEF PollCompletion
      <3>3. /\ slept' = 0 /\ UNCHANGED <<queue, completion, probe, panicked>>
            /\ thread = "drain" /\ thread' = "pump"
        BY <1>4, <2>2 DEF PollCompletion
      <3>4. QueueExact'
        BY <3>3
      <3>5. QueueBounded'
        BY <3>1, <3>3
      <3> QED BY <1>4, <2>2, <3>1, <3>2, <3>4, <3>5 DEF PollCompletion
    <2> QED BY <2>1, <2>2
  <1>6. CASE Pump
    <2>1. CASE pending' = TRUE
      BY <1>6, <2>1 DEF Pump
    <2>2. CASE UNCHANGED pending
      BY <1>6, <2>2 DEF Pump
    <2> QED BY <1>6, <2>1, <2>2 DEF Pump
  <1>7. CASE Sleep
    BY <1>7 DEF Sleep
  <1>8. CASE StartBegin
    BY <1>8 DEF StartBegin
  <1>9. CASE StartEnd
    BY <1>9 DEF StartEnd
  <1>10. ASSUME NEW b \in Bridges, Arm(b) PROVE EventsInv'
    BY <1>10, EventBounds DEF Arm
  <1>11. ASSUME NEW b \in Bridges, Disarm(b) PROVE EventsInv'
    BY <1>11, EventBounds DEF Disarm
  <1>12. CASE CancelBegin
    BY <1>12 DEF CancelBegin
  <1>13. CASE CancelStop
    BY <1>13 DEF CancelStop
  <1>14. CASE CancelEnd
    BY <1>14 DEF CancelEnd
  <1>15. CASE ProbeBegin
    BY <1>15 DEF ProbeBegin
  <1>16. CASE ProbeConnect
    BY <1>16, EventBounds DEF ProbeConnect
  <1>17. CASE ProbeWait
    BY <1>17 DEF ProbeWait
  <1>19. CASE ProbeEnd
    BY <1>19, EventBounds DEF ProbeEnd
  <1>2. ASSUME NEW t \in Bridges \cup {Probe}, IdleWait(t) PROVE EventsInv'
    <2> USE <1>2
    <2>1. slept' \in 0..MaxSlept /\ Len(queue) <= slept' /\ asleep' = asleep
      <3>1. CASE asleep
        BY <3>1, EventBounds DEF IdleWait
      <3>2. CASE ~asleep
        <4>1. Len(queue) = 0
          BY <3>2, IdleFindsEmpty DEF IdleWait
        <4> QED BY <3>2, <4>1 DEF IdleWait
      <3> QED BY <3>1, <3>2
    <2>2. CASE Len(queue) >= QUEUE_LIMIT
      <3>1. asleep
        <4>1. ~asleep => Len(queue) = 0
          BY IdleFindsEmpty DEF IdleWait
        <4> QED BY <2>2, <4>1, EventBounds
      <3>2. panicked' = TRUE /\ UNCHANGED <<fifo, pending>>
        BY <2>2, Zenon DEF IdleWait
      <3>3. EventsTypeOK'
        BY <2>1, <3>2 DEF IdleWait
      <3>4. QueueExact' /\ NoLostWakeup' /\ Sleeps'
        BY <3>2 DEF IdleWait
      <3>5. QueueBounded'
        BY <2>1, <2>2, <3>1, <3>2, EventBounds
      <3>6. EventsKept' /\ Locks' /\ Registered'
        BY DEF IdleWait
      <3> QED BY <3>3, <3>4, <3>5, <3>6
    <2>3. CASE ~(Len(queue) >= QUEUE_LIMIT)
      <3>1. /\ queue' = Append(queue, t) /\ completion' = completion + 1
            /\ pending' = (pending \/ notify) /\ UNCHANGED panicked
        BY <2>3, Zenon DEF IdleWait
      <3>2. Len(queue') = Len(queue) + 1 /\ queue' \in Seq(Bridges \cup {Probe})
        BY <3>1
      <3>3. EventsTypeOK'
        BY <2>1, <3>1, <3>2 DEF IdleWait
      <3>4. QueueExact'
        BY <3>1, <3>2 DEF IdleWait
      <3>5. QueueBounded'
        BY <2>1, <2>3, <3>1, <3>2, EventBounds
      <3>6. NoLostWakeup' /\ Sleeps'
        BY <3>1 DEF IdleWait
      <3>7. EventsKept' /\ Locks' /\ Registered'
        BY DEF IdleWait
      <3> QED BY <3>3, <3>4, <3>5, <3>6, <3>7
    <2> QED BY <2>2, <2>3
  <1>5. CASE PollDequeue
    <2> USE <1>5
    <2>1. queue # <<>>
      BY DEF PollDequeue
    <2>2. /\ Len(Tail(queue)) = Len(queue) - 1
          /\ Tail(queue) \in Seq(Bridges \cup {Probe})
      BY <2>1, TailFact
    <2>3. EventsTypeOK' /\ EventsKept' /\ Locks' /\ Registered' /\ Sleeps'
      BY <2>1, <2>2 DEF PollDequeue
    <2>4. /\ thread = "taken" /\ thread' = "drain" /\ queue' = Tail(queue)
          /\ UNCHANGED <<completion, slept, probe, panicked>>
      BY <2>1 DEF PollDequeue
    <2>5. Takers' = Takers - 1
      BY <2>4
    <2>6. Len(queue') = Len(queue) - 1
      BY <2>2, <2>4
    <2>7. QueueExact' /\ QueueBounded' /\ NoLostWakeup'
      BY <2>4, <2>5, <2>6, EventBounds
    <2> QED BY <2>3, <2>7
  <1>18. CASE ProbeDequeue
    <2> USE <1>18
    <2>1. queue # <<>>
      BY DEF ProbeDequeue
    <2>2. /\ Len(Tail(queue)) = Len(queue) - 1
          /\ Tail(queue) \in Seq(Bridges \cup {Probe})
      BY <2>1, TailFact
    <2>3. lost' \subseteq raced
      BY <2>1 DEF ProbeDequeue
    <2>4. EventsTypeOK' /\ Locks' /\ Registered' /\ Sleeps'
      BY <2>1, <2>2, <2>3 DEF ProbeDequeue
    <2>5. /\ probe = "taken" /\ probe' # "taken" /\ queue' = Tail(queue)
          /\ UNCHANGED <<completion, slept, thread, pending, panicked>>
      BY <2>1 DEF ProbeDequeue
    <2>6. Takers' = Takers - 1
      BY <2>5
    <2>7. Len(queue') = Len(queue) - 1
      BY <2>2, <2>5
    <2>8. QueueExact' /\ QueueBounded' /\ NoLostWakeup'
      BY <2>5, <2>6, <2>7, EventBounds
    <2> QED BY <2>3, <2>4, <2>8 DEF ProbeDequeue
  <1> QED
    BY <1>1, <1>2, <1>3, <1>4, <1>5, <1>6, <1>7, <1>8, <1>9, <1>10, <1>11,
       <1>12, <1>13, <1>14, <1>15, <1>16, <1>17, <1>18, <1>19 DEF EventsNext

\* The completion counts the queue of runtime events, the dispatcher is woken
\* for every event and never ends with -EIO, the handler panics only during a
\* sleep of the dispatcher, after as many events as the queue holds, and the
\* probe takes no event of a bridge that was there before it: for every set of
\* bridges, every limit of the queue and any number of events in a sleep.
THEOREM EventsAreSound == EventsSpec => []EventsSound
  <1>1. EventsInv => EventsSound
    BY DEF EventsInv
  <1> QED BY <1>1, InitInv, NextInv, PTL DEF EventsSpec
=============================================================================
