---------------------------- MODULE BridgeProofs ----------------------------
(***************************************************************************)
(* Proofs about the bridge's data plane, for every number of sessions,     *)
(* every size of buffer, pool and socket queue, and every budget.          *)
(***************************************************************************)
EXTENDS Bridge, FiniteSetTheorems, TLAPS

NoRepeat(q) == \A i, j \in 1..Len(q) : q[i] = q[j] => i = j

\* What the dispatcher relies on at each place of its code.
DispatcherInv ==
    /\ disp.pc \notin {"wait", "round"} => disp.dispatched < DISPATCH_BUDGET
    /\ disp.pc \in {"send", "recv"} => disp.ops < DIRECTION_BUDGET
    /\ disp.pc = "recv" => Cur \in buffer
    /\ disp.pc \notin {"wait", "round", "pump"} =>
          phase[disp.s] \in {"running", "stopping"}

PoolInv == PoolExact /\ NoLostBufferWakeup /\ NoRepeat(buffer_waiters)

IInv == TypeOK /\ PoolInv /\ DispatcherInv

-----------------------------------------------------------------------------
\* There are finitely many flows: one per session and direction.
LEMMA FlowFinite == IsFiniteSet(Flow)
<1>1. IsFiniteSet({"p2b"}) /\ Dir = {"p2b"} \cup {"b2p"}
  BY FS_Singleton DEF Dir
<1>2. IsFiniteSet(Dir)
  BY <1>1, FS_AddElement
<1> QED BY <1>2, ConstantsAssumption, FS_Product DEF Flow

\* Queueing at the tail of a waiter list adds one member.
LEMMA ElementsAppend ==
    ASSUME NEW S, NEW q \in Seq(S), NEW s \in S
    PROVE  /\ Append(q, s) \in Seq(S)
           /\ Elements(Append(q, s)) = Elements(q) \cup {s}
           /\ NoRepeat(q) /\ s \notin Elements(q) => NoRepeat(Append(q, s))
BY DEF Elements, NoRepeat

\* Taking a member off a waiter list leaves a list over the same set.
LEMMA WithoutType ==
    ASSUME NEW q \in Seq(Session), NEW s
    PROVE  /\ Without(q, s) \in Seq(Session)
           /\ Elements(Without(q, s)) \subseteq Elements(q)
           /\ NoRepeat(q) => /\ NoRepeat(Without(q, s))
                             /\ Elements(Without(q, s)) = Elements(q) \ {s}
<1>1. CASE s \notin Elements(q)
  BY <1>1 DEF Without
<1>2. CASE s \in Elements(q)
  <2> DEFINE i == CHOOSE i \in 1..Len(q) : q[i] = s
             r == SubSeq(q, 1, i - 1) \o SubSeq(q, i + 1, Len(q))
  <2>1. i \in 1..Len(q) /\ q[i] = s
    BY <1>2 DEF Elements
  <2> HIDE DEF i
  <2>2. /\ r \in Seq(Session) /\ Len(r) = Len(q) - 1
        /\ \A j \in 1..Len(r) : r[j] = IF j < i THEN q[j] ELSE q[j + 1]
    <3> DEFINE a == SubSeq(q, 1, i - 1)
               b == SubSeq(q, i + 1, Len(q))
    <3>1. a \in Seq(Session) /\ Len(a) = i - 1 /\ \A j \in 1..(i - 1) : a[j] = q[j]
      BY <2>1
    <3>2. /\ b \in Seq(Session) /\ Len(b) = Len(q) - i
          /\ \A j \in 1..(Len(q) - i) : b[j] = q[j + i]
      BY <2>1
    <3> HIDE DEF a, b
    <3>3. (a \o b) \in Seq(Session) /\ Len(a \o b) = Len(q) - 1
      <4>1. (a \o b) \in Seq(Session) /\ Len(a \o b) = Len(a) + Len(b)
        BY <3>1, <3>2
      <4> QED BY <4>1, <2>1, <3>1, <3>2
    <3>4. ASSUME NEW j \in 1..(Len(q) - 1)
          PROVE  (a \o b)[j] = IF j < i THEN q[j] ELSE q[j + 1]
      BY <2>1, <3>1, <3>2
    <3> QED BY <3>3, <3>4 DEF a, b
  <2>3. Without(q, s) = r
    BY <1>2 DEF Without, i
  <2> HIDE DEF r
  <2>4. Elements(r) \subseteq Elements(q)
    BY <2>1, <2>2 DEF Elements
  <2>5. ASSUME NoRepeat(q)
        PROVE  NoRepeat(r) /\ Elements(r) = Elements(q) \ {s}
    <3>1. NoRepeat(r)
      BY <2>1, <2>2, <2>5 DEF NoRepeat
    <3>2. s \notin Elements(r)
      BY <2>1, <2>2, <2>5 DEF NoRepeat, Elements
    <3>3. ASSUME NEW x \in Elements(q), x # s PROVE x \in Elements(r)
      <4>1. PICK k \in 1..Len(q) : q[k] = x
        BY DEF Elements
      <4>2. CASE k < i
        BY <4>1, <4>2, <2>1, <2>2 DEF Elements
      <4>3. CASE k > i
        <5>1. k - 1 \in 1..Len(r) /\ r[k - 1] = x
          BY <4>1, <4>3, <2>1, <2>2
        <5> QED BY <5>1 DEF Elements
      <4> QED BY <4>1, <4>2, <4>3, <3>3, <2>1
    <3> QED BY <3>1, <3>2, <3>3, <2>4
  <2> QED BY <2>2, <2>3, <2>4, <2>5
<1> QED BY <1>1, <1>2

\* A list over S is a sequence.
LEMMA ListIsSeq ==
    ASSUME NEW n \in Nat, NEW S, NEW T, S \subseteq T, NEW p \in [1..n -> S]
    PROVE  p \in Seq(T) /\ Elements(p) \subseteq S
<1>1. p \in Seq(T) /\ Len(p) = n
  OBVIOUS
<1> QED BY <1>1 DEF Elements

\* The members of a set in the order of a list form a sequence over that set.
LEMMA InOrderType ==
    ASSUME NEW X \in SUBSET Session, NEW q, NEW p \in InOrder(X, q)
    PROVE  p \in Seq(Session) /\ Elements(p) \subseteq X
<1>1. Cardinality(X) \in Nat
  BY ConstantsAssumption, FS_Subset, FS_CardinalityType
<1>2. p \in [1..Cardinality(X) -> X]
  BY DEF InOrder
<1> QED BY <1>1, <1>2, ListIsSeq

\* Actions that leave the pool alone and finish no session keep its invariant.
LEMMA PoolUntouched ==
    ASSUME IInv, UNCHANGED poolVars,
           \A s \in Session : phase[s] \in {"running", "stopping"} =>
                                 phase'[s] \in {"running", "stopping"}
    PROVE  PoolInv'
BY DEF IInv, TypeOK, PoolInv, PoolExact, NoLostBufferWakeup, NoRepeat, poolVars,
       Flow, Elements

\* What a release leaves behind, when w and flags are a list of waiters and
\* the flows that wait.
LEMMA ReleaseKeepsPool ==
    ASSUME TypeOK, PoolExact,
           NEW F \in SUBSET buffer, NEW w \in Seq(Session),
           NEW flags \in SUBSET Flow, NEW q \in Seq(Session),
           NoRepeat(w),
           \A f \in flags : f[1] \in Elements(w),
           w # <<>> => buffer_bytes + BUFFER_LIMIT > TOTAL_BUFFER_LIMIT,
           ReleaseBuffers(F, w, flags, q)
    PROVE  /\ buffer' = buffer \ F
           /\ buffer_bytes' \in 0..TOTAL_BUFFER_LIMIT
           /\ buffer_bytes' = BUFFER_LIMIT * Cardinality(buffer')
           /\ buffer_waiters' \in Seq(Session) /\ NoRepeat(buffer_waiters')
           /\ Elements(buffer_waiters') \subseteq Elements(w)
           /\ waiting' \subseteq Flow
           /\ \A f \in waiting' : f[1] \in Elements(buffer_waiters')
           /\ buffer_waiters' # <<>> =>
                 buffer_bytes' + BUFFER_LIMIT > TOTAL_BUFFER_LIMIT
           /\ ready' \in Seq(Session)
           /\ dispatcher_pending' \in BOOLEAN
<1> USE ConstantsAssumption
<1>1. IsFiniteSet(buffer) /\ IsFiniteSet(F)
  BY FlowFinite, FS_Subset DEF TypeOK
<1>2. /\ Cardinality(buffer) \in Nat /\ Cardinality(F) \in Nat
      /\ Cardinality(F) <= Cardinality(buffer)
      /\ Cardinality(buffer \ F) = Cardinality(buffer) - Cardinality(F)
  <2>1. F \cap buffer = F /\ buffer \cap F = F
    OBVIOUS
  <2>2. Cardinality(buffer) \in Nat /\ Cardinality(F) \in Nat
    BY <1>1, FS_CardinalityType
  <2>3. Cardinality(F) <= Cardinality(buffer)
    BY <1>1, FS_Subset
  <2>4. Cardinality(buffer \ F) = Cardinality(buffer) - Cardinality(F)
    <3>1. Cardinality(buffer \ F)
             = Cardinality(buffer) - Cardinality(buffer \cap F)
      BY <1>1, FS_Difference, Zenon
    <3> QED BY <2>1, <3>1, Zenon
  <2> QED BY <2>2, <2>3, <2>4
<1>3. buffer' = buffer \ F /\ buffer_bytes' = buffer_bytes - BUFFER_LIMIT * Cardinality(F)
  BY DEF ReleaseBuffers
<1>4. /\ buffer_bytes' = BUFFER_LIMIT * Cardinality(buffer')
      /\ buffer_bytes' \in 0..TOTAL_BUFFER_LIMIT
  <2>1. ASSUME NEW a \in Nat, NEW b \in Nat, NEW c \in Nat, b <= a
        PROVE  c * a - c * b = c * (a - b) /\ c * b <= c * a /\ c * b \in Nat /\ c * a \in Nat
    BY <2>1
  <2> DEFINE a == Cardinality(buffer)
             b == Cardinality(F)
  <2>2. BUFFER_LIMIT * a - BUFFER_LIMIT * b = BUFFER_LIMIT * (a - b)
        /\ BUFFER_LIMIT * b <= BUFFER_LIMIT * a
        /\ BUFFER_LIMIT * b \in Nat /\ BUFFER_LIMIT * a \in Nat
    BY <1>2, <2>1
  <2>3. buffer_bytes = BUFFER_LIMIT * a /\ buffer_bytes \in 0..TOTAL_BUFFER_LIMIT
    BY DEF PoolExact, TypeOK
  <2> HIDE DEF a, b
  <2>4. Cardinality(buffer') = a - b
    BY <1>2, <1>3 DEF a, b
  <2>5. buffer_bytes' = buffer_bytes - BUFFER_LIMIT * b
    BY <1>3 DEF b
  <2> QED BY <2>2, <2>3, <2>4, <2>5
<1>5. CASE F = {}
  <2>1. buffer_bytes' = buffer_bytes
    BY <1>3, <1>5, FS_EmptySet DEF TypeOK
  <2> QED BY <1>3, <1>4, <1>5, <2>1 DEF ReleaseBuffers, TypeOK
<1>6. CASE F # {}
  <2> DEFINE woken == {s \in Elements(w) : Allocated(s)} \ Elements(q)
  <2>1. PICK p \in InOrder(woken, w) : ready' = q \o p
    BY <1>6 DEF ReleaseBuffers
  <2>2. woken \subseteq Session
    BY DEF Elements
  <2> HIDE DEF woken
  <2>3. ready' \in Seq(Session)
    <3>1. p \in Seq(Session)
      BY <2>1, <2>2, InOrderType
    <3> QED BY <2>1, <3>1
  <2>4. /\ buffer_waiters' = <<>> /\ waiting' = {f \in flags : f[1] \notin Elements(w)}
        /\ dispatcher_pending' \in BOOLEAN
    BY <1>6 DEF ReleaseBuffers, TypeOK
  <2>5. waiting' = {}
    BY <2>4
  <2>6. buffer_waiters' \in Seq(Session) /\ Elements(buffer_waiters') = {} /\ NoRepeat(buffer_waiters')
    BY <2>4 DEF Elements, NoRepeat
  <2> QED BY <1>3, <1>4, <2>3, <2>4, <2>5, <2>6
<1> QED BY <1>5, <1>6

-----------------------------------------------------------------------------
\* tcpcc_bridge_init: the empty pool and idle dispatcher satisfy the invariant.
LEMMA InitInv == Init => IInv
<1> SUFFICES ASSUME Init PROVE IInv
  OBVIOUS
<1>1. Cardinality(Session) \in Nat
  BY ConstantsAssumption, FS_CardinalityType
<1>a. ready \in [1..Cardinality(Session) -> Session]
  BY DEF Init
<1>2. ready \in Seq(Session)
  BY <1>1, <1>a, ListIsSeq
<1>b. 1 \in 1..Cardinality(Session)
  BY <1>1, ConstantsAssumption, FS_EmptySet
<1> USE ConstantsAssumption DEF Init
<1>3. disp.s \in Session
  BY <1>a, <1>b
<1>4. sock \in [End -> Socket]
  BY DEF Socket
<1>5. TypeOK
  BY <1>2, <1>3, <1>4 DEF TypeOK, Phase, Dir
<1>6. PoolInv
  BY FS_EmptySet DEF PoolInv, PoolExact, NoLostBufferWakeup, NoRepeat, Elements
<1>7. DispatcherInv
  BY DEF DispatcherInv
<1> QED BY <1>5, <1>6, <1>7 DEF IInv

\* tcpcc_bridge_queue_session keeps the type of the ready list.
LEMMA QueuedType ==
    ASSUME NEW q \in Seq(Session), NEW s \in Session
    PROVE  Queued(q, s) \in Seq(Session)
BY DEF Queued

\* A session that finishes gives up its buffers and its place as a waiter.
LEMMA FinishKeepsPool ==
    ASSUME IInv, NEW s \in Session, NEW q \in Seq(Session), SessionFinish(s, q)
    PROVE  /\ PoolInv'
           /\ phase' \in [Session -> Phase]
           /\ buffer' \subseteq Flow /\ waiting' \subseteq Flow
           /\ buffer_bytes' \in 0..TOTAL_BUFFER_LIMIT
           /\ buffer_waiters' \in Seq(Session)
           /\ ready' \in Seq(Session) /\ dispatcher_pending' \in BOOLEAN
<1> DEFINE F == {f \in buffer : f[1] = s}
           w == Without(buffer_waiters, s)
           flags == {f \in waiting : f[1] # s}
<1>1. TypeOK /\ PoolExact /\ NoLostBufferWakeup /\ NoRepeat(buffer_waiters)
  BY DEF IInv, PoolInv
<1>2. /\ w \in Seq(Session) /\ NoRepeat(w)
      /\ Elements(w) = Elements(buffer_waiters) \ {s}
  BY <1>1, WithoutType DEF TypeOK
<1>3. w # <<>> => buffer_waiters # <<>>
  BY <1>2 DEF Elements, Without
<1>4. F \in SUBSET buffer /\ flags \in SUBSET Flow
      /\ (\A f \in flags : f[1] \in Elements(w))
  BY <1>1, <1>2 DEF TypeOK, NoLostBufferWakeup
<1>5. w # <<>> => buffer_bytes + BUFFER_LIMIT > TOTAL_BUFFER_LIMIT
  BY <1>1, <1>3 DEF NoLostBufferWakeup
<1>6. ReleaseBuffers(F, w, flags, q) /\ phase' = [phase EXCEPT ![s] = "finished"]
  BY DEF SessionFinish
<1> HIDE DEF F, w, flags
<1>7. /\ buffer' = buffer \ F
      /\ buffer_bytes' \in 0..TOTAL_BUFFER_LIMIT
      /\ buffer_bytes' = BUFFER_LIMIT * Cardinality(buffer')
      /\ buffer_waiters' \in Seq(Session) /\ NoRepeat(buffer_waiters')
      /\ Elements(buffer_waiters') \subseteq Elements(w)
      /\ waiting' \subseteq Flow
      /\ \A f \in waiting' : f[1] \in Elements(buffer_waiters')
      /\ buffer_waiters' # <<>> =>
            buffer_bytes' + BUFFER_LIMIT > TOTAL_BUFFER_LIMIT
      /\ ready' \in Seq(Session)
      /\ dispatcher_pending' \in BOOLEAN
  BY <1>1, <1>2, <1>4, <1>5, <1>6, ReleaseKeepsPool
<1>8. phase' \in [Session -> Phase]
  BY <1>1, <1>6 DEF TypeOK, Phase
<1>9. \A f \in buffer' : phase'[f[1]] \in {"running", "stopping"}
  BY <1>1, <1>6, <1>7 DEF TypeOK, PoolExact, F, Flow
<1>10. \A x \in Elements(buffer_waiters') : phase'[x] \in {"running", "stopping"}
  <2> TAKE x \in Elements(buffer_waiters')
  <2>1. x \in Elements(buffer_waiters) /\ x # s /\ x \in Session
    <3>1. x \in Elements(w)
      BY <1>7
    <3>2. Elements(buffer_waiters) \subseteq Session
      BY <1>1 DEF TypeOK, Elements
    <3> QED BY <1>2, <3>1, <3>2
  <2> QED BY <1>1, <1>6, <2>1 DEF TypeOK, NoLostBufferWakeup
<1>11. PoolInv'
  BY <1>7, <1>9, <1>10 DEF PoolInv, PoolExact, NoLostBufferWakeup, NoRepeat, Elements
<1> QED BY <1>1, <1>7, <1>8, <1>11 DEF TypeOK

\* The current flow gives its buffer back.
LEMMA ReleaseCurrentKeepsPool ==
    ASSUME IInv, disp.pc = "recv", UNCHANGED phase,
           ReleaseBuffers({Cur}, buffer_waiters, waiting, ready)
    PROVE  /\ PoolInv'
           /\ buffer' \subseteq Flow /\ waiting' \subseteq Flow
           /\ buffer_bytes' \in 0..TOTAL_BUFFER_LIMIT
           /\ buffer_waiters' \in Seq(Session)
           /\ ready' \in Seq(Session) /\ dispatcher_pending' \in BOOLEAN
<1>1. TypeOK /\ PoolExact /\ NoLostBufferWakeup /\ NoRepeat(buffer_waiters)
  BY DEF IInv, PoolInv
<1>2. {Cur} \in SUBSET buffer
  BY DEF IInv, DispatcherInv
<1>3. /\ buffer_waiters \in Seq(Session) /\ waiting \in SUBSET Flow
      /\ ready \in Seq(Session)
      /\ \A f \in waiting : f[1] \in Elements(buffer_waiters)
      /\ buffer_waiters # <<>> => buffer_bytes + BUFFER_LIMIT > TOTAL_BUFFER_LIMIT
  BY <1>1 DEF TypeOK, NoLostBufferWakeup
<1>7. /\ buffer' = buffer \ {Cur}
      /\ buffer_bytes' \in 0..TOTAL_BUFFER_LIMIT
      /\ buffer_bytes' = BUFFER_LIMIT * Cardinality(buffer')
      /\ buffer_waiters' \in Seq(Session) /\ NoRepeat(buffer_waiters')
      /\ Elements(buffer_waiters') \subseteq Elements(buffer_waiters)
      /\ waiting' \subseteq Flow
      /\ \A f \in waiting' : f[1] \in Elements(buffer_waiters')
      /\ buffer_waiters' # <<>> =>
            buffer_bytes' + BUFFER_LIMIT > TOTAL_BUFFER_LIMIT
      /\ ready' \in Seq(Session)
      /\ dispatcher_pending' \in BOOLEAN
  BY <1>1, <1>2, <1>3, ReleaseKeepsPool
<1>9. \A f \in buffer' : phase'[f[1]] \in {"running", "stopping"}
  BY <1>1, <1>7 DEF PoolExact
<1>10. \A x \in Elements(buffer_waiters') : phase'[x] \in {"running", "stopping"}
  BY <1>1, <1>7 DEF NoLostBufferWakeup
<1>11. PoolInv'
  BY <1>7, <1>9, <1>10 DEF PoolInv, PoolExact, NoLostBufferWakeup, NoRepeat, Elements
<1> QED BY <1>1, <1>7, <1>11 DEF TypeOK

-----------------------------------------------------------------------------
(* The type invariant in parts, one per group of variables. *)

DispType ==
    disp \in [pc : {"wait", "round", "pump", "flow", "leave", "send", "recv",
                    "shut", "fail", "end"},
              s : Session, d : Dir, ops : 0..DIRECTION_BUDGET,
              dispatched : 0..DISPATCH_BUDGET]
SessionType == /\ phase \in [Session -> Phase]
               /\ status \in [Session -> {"ok", "error", "canceled"}]
QueueType == ready \in Seq(Session) /\ dispatcher_pending \in BOOLEAN
PoolType == /\ buffer \subseteq Flow /\ waiting \subseteq Flow
            /\ buffer_bytes \in 0..TOTAL_BUFFER_LIMIT
            /\ buffer_waiters \in Seq(Session)
FlagType == readable \subseteq End /\ writable \subseteq End
FlowType == /\ unsent \in [Flow -> 0..BUFFER_LIMIT]
            /\ bytes \in [Flow -> Nat]
            /\ done \subseteq Flow
SockType == sock \in [End -> Socket] /\ edge \subseteq Session

\* The type of each variable, as a fact the later leaves can cite.
LEMMA TypeParts ==
    TypeOK <=> /\ DispType /\ SessionType /\ QueueType /\ PoolType
               /\ FlagType /\ FlowType /\ SockType
BY DEF TypeOK, DispType, SessionType, QueueType, PoolType, FlagType, FlowType,
       SockType

\* The flow in the dispatcher's hands and its two ends.
LEMMA CurrentType ==
    ASSUME DispType
    PROVE  /\ Cur \in Flow /\ Source \in End /\ Sink \in End
           /\ disp.s \in Session /\ disp.d \in Dir
           /\ Cur[1] = disp.s
BY DEF DispType, Cur, Source, Sink, Flow, End, Src, Dst, Side, Dir

\* Edits of one socket keep the type of all of them.
LEMMA SockEdit ==
    ASSUME SockType, NEW e \in End, NEW k \in Socket,
           sock' = [sock EXCEPT ![e] = k]
    PROVE  sock' \in [End -> Socket]
BY DEF SockType

\* tcpcc_bridge_queue_session keeps the ready list a list of sessions.
LEMMA QueueSessionType ==
    ASSUME QueueType, NEW s \in Session, QueueSession(s)
    PROVE  QueueType'
BY QueuedType DEF QueueType, QueueSession

\* tcpcc_bridge_notify keeps the types of what it wakes.
LEMMA NotifyType ==
    ASSUME QueueType, FlagType, edge \subseteq Session,
           NEW e \in End, NEW r \in BOOLEAN, NEW w \in BOOLEAN, Notify(e, r, w)
    PROVE  QueueType' /\ FlagType' /\ edge' \subseteq Session
<1>1. e[1] \in Session
  BY DEF End
<1>2. CASE e[2] = "public" /\ Notified(e[1])
  <2>1. QueueSession(e[1]) /\ UNCHANGED edge
    BY <1>2 DEF Notify
  <2>2. FlagType'
    BY <1>2 DEF Notify, FlagType, flagVars
  <2> QED BY <1>1, <2>1, <2>2, QueueSessionType
<1>3. CASE ~(e[2] = "public" /\ Notified(e[1]))
  BY <1>1, <1>3 DEF Notify, QueueType, FlagType, flagVars, queueVars
<1> QED BY <1>2, <1>3

\* Every step of the dispatcher that is not a finish keeps the invariant.
LEMMA WakeStep == IInv /\ DispatcherWake => IInv'
<1> SUFFICES ASSUME IInv, DispatcherWake PROVE IInv'
  OBVIOUS
<1> USE ConstantsAssumption
<1>1. TypeOK'
  BY DEF DispatcherWake, IInv, TypeOK, Phase, At, poolVars, flagVars, flowVars,
         sockVars
<1>2. PoolInv'
  BY PoolUntouched DEF DispatcherWake, IInv, TypeOK
<1>3. DispatcherInv'
  BY DEF DispatcherWake, IInv, DispatcherInv, TypeOK
<1> QED BY <1>1, <1>2, <1>3 DEF IInv

\* Taking a ready session off the list keeps the invariant.
LEMMA TakeReadyStep == IInv /\ TakeReady => IInv'
<1> SUFFICES ASSUME IInv, TakeReady PROVE IInv'
  OBVIOUS
<1> USE ConstantsAssumption
<1>1. Head(ready) \in Session /\ Tail(ready) \in Seq(Session)
  BY DEF IInv, TypeOK, TakeReady
<1>2. TypeOK'
  BY <1>1 DEF TakeReady, IInv, TypeOK, At, poolVars, flagVars, flowVars,
              sockVars, sessionVars
<1>3. PoolInv'
  BY PoolUntouched DEF TakeReady, sessionVars
<1>4. DispatcherInv'
  BY DEF TakeReady, IInv, DispatcherInv, TypeOK
<1> QED BY <1>2, <1>3, <1>4 DEF IInv

\* Ending a dispatcher round keeps the invariant.
LEMMA RoundEndStep == IInv /\ RoundEnd => IInv'
<1> SUFFICES ASSUME IInv, RoundEnd PROVE IInv'
  OBVIOUS
<1> USE ConstantsAssumption
<1>1. TypeOK'
  <2>1. dispatcher_pending' \in BOOLEAN
    BY DEF RoundEnd
  <2>2. UNCHANGED <<ready, poolVars, flagVars, flowVars, sockVars, sessionVars>>
    BY DEF RoundEnd
  <2>3. DispType'
    <3>1. disp' = [pc |-> "wait", s |-> disp.s, d |-> disp.d, ops |-> disp.ops,
                   dispatched |-> 0]
      BY DEF RoundEnd, IInv, TypeOK
    <3> QED BY <3>1 DEF IInv, TypeOK, DispType
  <2> QED BY <2>1, <2>2, <2>3
          DEF IInv, TypeOK, DispType, poolVars, flagVars, flowVars, sockVars,
              sessionVars
<1>2. PoolInv'
  BY PoolUntouched DEF RoundEnd, sessionVars
<1>3. DispatcherInv'
  BY DEF RoundEnd, IInv, DispatcherInv, TypeOK
<1> QED BY <1>1, <1>2, <1>3 DEF IInv

\* The count of a round stays within its budget.
LEMMA NextSessionStep ==
    ASSUME TypeOK, DispatcherInv, disp.pc \notin {"wait", "round"}, NextSession
    PROVE  DispType' /\ DispatcherInv'
<1> USE ConstantsAssumption
<1>1. disp.dispatched \in 0..DISPATCH_BUDGET /\ disp.dispatched < DISPATCH_BUDGET
  BY DEF TypeOK, DispatcherInv
<1>2. disp.dispatched + 1 \in 0..DISPATCH_BUDGET /\ 0 \in 0..DIRECTION_BUDGET
  BY <1>1
<1>3. disp' = [pc |-> "round", s |-> disp.s, d |-> "p2b", ops |-> 0,
               dispatched |-> disp.dispatched + 1]
  BY DEF TypeOK, NextSession
<1>4. DispType'
  BY <1>2, <1>3 DEF DispType, Dir, TypeOK
<1>5. DispatcherInv'
  BY <1>3 DEF DispatcherInv
<1> QED BY <1>4, <1>5

\* A step to another place of the pump of the current session.
LEMMA PumpStep ==
    ASSUME TypeOK, DispatcherInv, disp.pc \notin {"wait", "round"},
           NEW pc \in {"pump", "flow", "leave", "send", "recv", "shut", "fail", "end"},
           NEW d \in Dir, NEW ops \in 0..DIRECTION_BUDGET,
           disp' = [disp EXCEPT !.pc = pc, !.d = d, !.ops = ops],
           pc \in {"send", "recv"} => ops < DIRECTION_BUDGET,
           pc = "recv" => <<disp.s, d>> \in buffer',
           phase'[disp.s] \in {"running", "stopping"}
    PROVE  DispType' /\ DispatcherInv'
<1>1. disp' = [pc |-> pc, s |-> disp.s, d |-> d, ops |-> ops,
               dispatched |-> disp.dispatched]
  BY DEF TypeOK
<1>2. DispType'
  BY <1>1 DEF DispType, TypeOK
<1>3. DispatcherInv'
  BY <1>1 DEF DispatcherInv, Cur
<1> QED BY <1>2, <1>3

\* A step that finishes the current session and goes on with the next one.
LEMMA FinishStep ==
    ASSUME IInv, disp.pc \notin {"wait", "round"}, NextSession,
           NEW q \in Seq(Session), SessionFinish(disp.s, q),
           FlagType', SockType', UNCHANGED flowVars,
           status' \in [Session -> {"ok", "error", "canceled"}]
    PROVE  IInv'
<1> USE ConstantsAssumption
<1>1. TypeOK /\ DispatcherInv /\ disp.s \in Session
  BY DEF IInv, TypeOK
<1>2. PoolInv' /\ SessionType' /\ PoolType' /\ QueueType'
  BY <1>1, FinishKeepsPool DEF SessionType, PoolType, QueueType
<1>3. DispType' /\ DispatcherInv'
  BY <1>1, NextSessionStep
<1>4. FlowType'
  BY <1>1 DEF TypeOK, FlowType, flowVars
<1>5. TypeOK'
  BY <1>2, <1>3, <1>4, TypeParts, PTL
<1> QED BY <1>2, <1>3, <1>5 DEF IInv

\* Entering tcpcc_bridge_pump_session keeps the invariant.
LEMMA PumpBeginStep == IInv /\ PumpBegin => IInv'
<1> SUFFICES ASSUME IInv, PumpBegin PROVE IInv'
  OBVIOUS
<1> USE ConstantsAssumption
<1>1. TypeOK /\ DispatcherInv
  BY DEF IInv
<1>2. CASE phase[disp.s] = "stopping"
  <2>1. /\ SessionFinish(disp.s, ready) /\ NextSession /\ disp.pc = "pump"
        /\ UNCHANGED <<flagVars, flowVars, sockVars, status>>
    BY <1>2 DEF PumpBegin, At
  <2>2. FlagType' /\ SockType' /\ ready \in Seq(Session)
        /\ status' \in [Session -> {"ok", "error", "canceled"}]
    BY <1>1, <2>1 DEF TypeOK, FlagType, SockType, flagVars, sockVars
  <2> QED BY <2>1, <2>2, FinishStep
<1>3. CASE phase[disp.s] # "stopping"
  <2>1. UNCHANGED <<queueVars, poolVars, phase, flagVars, flowVars, sockVars, status>>
    BY <1>3 DEF PumpBegin
  <2>2. PoolInv'
    BY <2>1, PoolUntouched
  <2>3. DispType' /\ DispatcherInv'
    <3>1. CASE phase[disp.s] = "running"
      <4>1. /\ disp.pc = "pump" /\ disp.d \in Dir
            /\ disp.ops \in 0..DIRECTION_BUDGET
            /\ disp' = [disp EXCEPT !.pc = "flow", !.d = disp.d, !.ops = disp.ops]
        BY <1>1, <3>1 DEF PumpBegin, At, TypeOK
      <4> QED BY <1>1, <2>1, <3>1, <4>1, PumpStep
    <3>2. CASE phase[disp.s] # "running"
      <4>1. disp.pc = "pump" /\ NextSession
        BY <1>3, <3>2 DEF PumpBegin, At
      <4> QED BY <1>1, <4>1, NextSessionStep
    <3> QED BY <3>1, <3>2
  <2>4. TypeOK'
    BY <1>1, <2>1, <2>3 DEF TypeOK, DispType, queueVars, poolVars, flagVars,
                            flowVars, sockVars
  <2> QED BY <2>2, <2>3, <2>4 DEF IInv
<1> QED BY <1>2, <1>3

\* Leaving one direction of a pump keeps the invariant.
LEMMA FlowLeaveStep == IInv /\ FlowLeave => IInv'
<1> SUFFICES ASSUME IInv, FlowLeave PROVE IInv'
  OBVIOUS
<1> USE ConstantsAssumption
<1>1. TypeOK /\ DispatcherInv /\ disp.s \in Session /\ disp.d \in Dir
      /\ disp.ops \in 0..DIRECTION_BUDGET
  BY DEF IInv, TypeOK
<1>2. /\ UNCHANGED <<poolVars, flagVars, flowVars, sockVars, sessionVars>>
      /\ disp.pc \in {"flow", "leave"}
      /\ QueueSession(disp.s) \/ UNCHANGED queueVars
  BY DEF FlowLeave, At
<1>3. DispType' /\ DispatcherInv'
  <2>1. CASE disp.d = "p2b"
    <3>1. disp' = [disp EXCEPT !.pc = "flow", !.d = "b2p", !.ops = 0]
      BY <2>1 DEF FlowLeave
    <3>2. "b2p" \in Dir /\ 0 \in 0..DIRECTION_BUDGET
      BY DEF Dir
    <3>3. phase'[disp.s] \in {"running", "stopping"}
      BY <1>1, <1>2 DEF DispatcherInv, sessionVars
    <3> QED BY <1>1, <1>2, <3>1, <3>2, <3>3, PumpStep
  <2>2. CASE disp.d # "p2b"
    <3>1. disp' = [disp EXCEPT !.pc = "end", !.d = disp.d, !.ops = disp.ops]
      BY <1>1, <2>2 DEF FlowLeave, TypeOK
    <3>2. phase'[disp.s] \in {"running", "stopping"}
      BY <1>1, <1>2 DEF DispatcherInv, sessionVars
    <3> QED BY <1>1, <1>2, <3>1, <3>2, PumpStep
  <2> QED BY <2>1, <2>2
<1>4. QueueType'
  BY <1>1, <1>2, QueueSessionType DEF TypeOK, QueueType, queueVars
<1>5. TypeOK'
  BY <1>1, <1>2, <1>3, <1>4
     DEF TypeOK, DispType, QueueType, poolVars, flagVars, flowVars, sockVars,
         sessionVars
<1>6. PoolInv'
  BY <1>2, PoolUntouched DEF sessionVars
<1> QED BY <1>3, <1>5, <1>6 DEF IInv

\* A pump step that only moves on and changes the flags.
LEMMA QuietStep ==
    ASSUME IInv, disp.pc \notin {"wait", "round"}, DispType', DispatcherInv',
           UNCHANGED <<queueVars, flowVars, sockVars, sessionVars>>,
           FlagType', PoolType', PoolInv'
    PROVE  IInv'
<1>1. TypeOK'
  BY DEF IInv, TypeOK, DispType, FlagType, PoolType, queueVars, flowVars,
         sockVars, sessionVars
<1> QED BY <1>1 DEF IInv

\* Claiming the writable mark of a sink with bytes to send keeps the invariant.
LEMMA TakeWritableStep == IInv /\ TakeWritable => IInv'
<1> SUFFICES ASSUME IInv, TakeWritable PROVE IInv'
  OBVIOUS
<1>1. TypeOK /\ DispatcherInv /\ disp.s \in Session /\ disp.d \in Dir
      /\ disp.ops \in 0..DIRECTION_BUDGET
  BY DEF IInv, TypeOK
<1>2. /\ UNCHANGED <<queueVars, poolVars, readable, flowVars, sockVars, sessionVars>>
      /\ disp.pc = "flow" /\ disp.ops < DIRECTION_BUDGET
      /\ writable' \subseteq writable
  BY DEF TakeWritable, At, Blocked, InLoop
<1>3. DispType' /\ DispatcherInv'
  <2>1. disp' = [disp EXCEPT !.pc = "send", !.d = disp.d, !.ops = disp.ops]
    BY <1>1 DEF TakeWritable, TypeOK
  <2>2. phase'[disp.s] \in {"running", "stopping"}
    BY <1>1, <1>2 DEF DispatcherInv, sessionVars
  <2> QED BY <1>1, <1>2, <2>1, <2>2, PumpStep
<1>4. FlagType' /\ PoolType'
  BY <1>1, <1>2 DEF TypeOK, FlagType, PoolType, poolVars
<1>5. PoolInv'
  BY <1>2, PoolUntouched DEF sessionVars
<1> QED BY <1>2, <1>3, <1>4, <1>5, QuietStep

\* The limit test of tcpcc_bridge_acquire_buffer keeps the pool exact.
LEMMA TakeReadableStep == IInv /\ TakeReadable => IInv'
<1> SUFFICES ASSUME IInv, TakeReadable PROVE IInv'
  OBVIOUS
<1> USE ConstantsAssumption
<1>1. TypeOK /\ DispatcherInv /\ PoolInv /\ disp.s \in Session /\ disp.d \in Dir
      /\ disp.ops \in 0..DIRECTION_BUDGET
  BY DEF IInv, TypeOK
<1>2. /\ UNCHANGED <<queueVars, buffer_waiters, waiting, writable, flowVars,
                     sockVars, sessionVars>>
      /\ disp.pc = "flow" /\ disp.ops < DIRECTION_BUDGET
      /\ readable' \subseteq readable
      /\ HasRoom(Cur) /\ AcquireBuffer(Cur)
  BY DEF TakeReadable, MayRead, At, Blocked, InLoop
<1>3. phase[disp.s] \in {"running", "stopping"} /\ UNCHANGED phase
  BY <1>1, <1>2 DEF DispatcherInv, sessionVars
<1>4. Cur \in Flow /\ Cur[1] = disp.s /\ buffer' = buffer \cup {Cur}
  BY <1>1, <1>2 DEF Cur, Flow, AcquireBuffer
<1>5. DispType' /\ DispatcherInv'
  <2>1. disp' = [disp EXCEPT !.pc = "recv", !.d = disp.d, !.ops = disp.ops]
    BY <1>1 DEF TakeReadable, TypeOK
  <2>2. <<disp.s, disp.d>> \in buffer'
    BY <1>4 DEF Cur
  <2> QED BY <1>1, <1>2, <1>3, <2>1, <2>2, PumpStep
<1>6. /\ buffer_bytes' = BUFFER_LIMIT * Cardinality(buffer')
      /\ buffer_bytes' \in 0..TOTAL_BUFFER_LIMIT
      /\ buffer_bytes' >= buffer_bytes
  <2>1. CASE Cur \in buffer
    <3>1. buffer' = buffer /\ buffer_bytes' = buffer_bytes
      BY <1>2, <1>4, <2>1 DEF AcquireBuffer
    <3> QED BY <1>1, <3>1 DEF TypeOK, PoolInv, PoolExact
  <2>2. CASE Cur \notin buffer
    <3>1. /\ buffer_bytes' = buffer_bytes + BUFFER_LIMIT
          /\ buffer_bytes + BUFFER_LIMIT <= TOTAL_BUFFER_LIMIT
      BY <1>2, <2>2 DEF AcquireBuffer, HasRoom
    <3>2. IsFiniteSet(buffer)
      BY <1>1, FlowFinite, FS_Subset DEF TypeOK
    <3>3. Cardinality(buffer) \in Nat
      BY <3>2, FS_CardinalityType
    <3>4. Cardinality(buffer') = Cardinality(buffer) + 1
      BY <1>4, <2>2, <3>2, FS_AddElement
    <3>5. ASSUME NEW n \in Nat, NEW l \in Nat PROVE l * (n + 1) = l * n + l
      OBVIOUS
    <3>6. BUFFER_LIMIT * (Cardinality(buffer) + 1)
             = BUFFER_LIMIT * Cardinality(buffer) + BUFFER_LIMIT
      BY <3>3, <3>5
    <3>7. buffer_bytes = BUFFER_LIMIT * Cardinality(buffer) /\ buffer_bytes \in Nat
      BY <1>1 DEF TypeOK, PoolInv, PoolExact
    <3> QED BY <3>1, <3>4, <3>6, <3>7
  <2> QED BY <2>1, <2>2
<1>7. FlagType' /\ PoolType'
  BY <1>1, <1>2, <1>4, <1>6 DEF TypeOK, FlagType, PoolType
<1>8. PoolInv'
  <2>1. PoolExact'
    BY <1>1, <1>3, <1>4, <1>6 DEF PoolInv, PoolExact
  <2>2. NoLostBufferWakeup' /\ NoRepeat(buffer_waiters)'
    BY <1>1, <1>2, <1>3, <1>6 DEF TypeOK, PoolInv, NoLostBufferWakeup, NoRepeat, Elements
  <2> QED BY <2>1, <2>2 DEF PoolInv
<1> QED BY <1>2, <1>5, <1>7, <1>8, QuietStep

\* A flow joins the waiters only when the limit test failed.
LEMMA NoRoomStep == IInv /\ TakeReadableNoRoom => IInv'
<1> SUFFICES ASSUME IInv, TakeReadableNoRoom PROVE IInv'
  OBVIOUS
<1> USE ConstantsAssumption
<1>1. TypeOK /\ DispatcherInv /\ PoolInv /\ disp.s \in Session /\ disp.d \in Dir
      /\ disp.ops \in 0..DIRECTION_BUDGET
  BY DEF IInv, TypeOK
<1>2. /\ UNCHANGED <<queueVars, buffer, buffer_bytes, flagVars, flowVars,
                     sockVars, sessionVars>>
      /\ disp.pc = "flow"
      /\ ~HasRoom(Cur) /\ WaitForBuffer(Cur)
  BY DEF TakeReadableNoRoom, MayRead, At
<1>3. phase[disp.s] \in {"running", "stopping"} /\ UNCHANGED phase
  BY <1>1, <1>2 DEF DispatcherInv, sessionVars
<1>4. Cur \in Flow /\ Cur[1] = disp.s
  BY <1>1 DEF Cur, Flow
<1>5. DispType' /\ DispatcherInv'
  <2>1. disp' = [disp EXCEPT !.pc = "leave", !.d = disp.d, !.ops = disp.ops]
    BY <1>1 DEF TakeReadableNoRoom, TypeOK
  <2> QED BY <1>1, <1>2, <1>3, <2>1, PumpStep
<1>6. /\ buffer_waiters' \in Seq(Session) /\ NoRepeat(buffer_waiters')
      /\ Elements(buffer_waiters') = Elements(buffer_waiters) \cup {disp.s}
      /\ waiting' = waiting \cup {Cur}
  <2>1. CASE disp.s \in Elements(buffer_waiters)
    BY <1>1, <1>2, <1>4, <2>1 DEF WaitForBuffer, TypeOK, PoolInv
  <2>2. CASE disp.s \notin Elements(buffer_waiters)
    BY <1>1, <1>2, <1>4, <2>2, ElementsAppend DEF WaitForBuffer, TypeOK, PoolInv
  <2> QED BY <2>1, <2>2
<1>7. buffer_bytes + BUFFER_LIMIT > TOTAL_BUFFER_LIMIT
  BY <1>1, <1>2 DEF HasRoom, TypeOK
<1>8. FlagType' /\ PoolType'
  BY <1>1, <1>2, <1>4, <1>6 DEF TypeOK, FlagType, PoolType, flagVars
<1>9. PoolInv'
  <2>1. PoolExact'
    BY <1>1, <1>2, <1>3 DEF PoolInv, PoolExact
  <2>2. NoLostBufferWakeup'
    <3>1. \A f \in waiting' : f[1] \in Elements(buffer_waiters')
      BY <1>1, <1>4, <1>6 DEF PoolInv, NoLostBufferWakeup
    <3>2. \A s \in Elements(buffer_waiters') : phase'[s] \in {"running", "stopping"}
      BY <1>1, <1>3, <1>6 DEF PoolInv, NoLostBufferWakeup
    <3> QED BY <1>2, <1>7, <3>1, <3>2 DEF NoLostBufferWakeup, Elements
  <2> QED BY <1>6, <2>1, <2>2 DEF PoolInv, NoRepeat
<1> QED BY <1>2, <1>5, <1>8, <1>9, QuietStep

\* Steps of the pump to the error exit leave everything else alone.
LEMMA ErrorStep == IInv /\ (TakeReadableNoMemory \/ RecvError) => IInv'
<1> SUFFICES ASSUME IInv, TakeReadableNoMemory \/ RecvError PROVE IInv'
  OBVIOUS
<1>1. TypeOK /\ DispatcherInv /\ disp.s \in Session /\ disp.d \in Dir
      /\ disp.ops \in 0..DIRECTION_BUDGET
  BY DEF IInv, TypeOK
<1>2. /\ UNCHANGED <<queueVars, poolVars, writable, flowVars, sockVars, sessionVars>>
      /\ disp.pc \in {"flow", "recv"}
      /\ readable' \subseteq readable
  BY DEF TakeReadableNoMemory, MayRead, RecvError, At, flagVars
<1>3. DispType' /\ DispatcherInv'
  <2>1. disp' = [disp EXCEPT !.pc = "fail", !.d = disp.d, !.ops = disp.ops]
    BY <1>1 DEF TakeReadableNoMemory, RecvError, TypeOK
  <2>2. phase'[disp.s] \in {"running", "stopping"}
    BY <1>1, <1>2 DEF DispatcherInv, sessionVars
  <2> QED BY <1>1, <1>2, <2>1, <2>2, PumpStep
<1>4. FlagType' /\ PoolType'
  BY <1>1, <1>2 DEF TypeOK, FlagType, PoolType, poolVars
<1>5. PoolInv'
  BY <1>2, PoolUntouched DEF sessionVars
<1> QED BY <1>2, <1>3, <1>4, <1>5, QuietStep

\* The buffer is released on EAGAIN and at the end of the stream.
LEMMA RecvReleaseStep == IInv /\ (RecvAgain \/ RecvEof) => IInv'
<1> SUFFICES ASSUME IInv, RecvAgain \/ RecvEof PROVE IInv'
  OBVIOUS
<1> USE ConstantsAssumption
<1>1. TypeOK /\ DispatcherInv /\ disp.s \in Session /\ disp.d \in Dir
      /\ disp.ops \in 0..DIRECTION_BUDGET
  BY DEF IInv, TypeOK
<1>2. /\ UNCHANGED <<flagVars, flowVars, sockVars, sessionVars>>
      /\ disp.pc = "recv"
      /\ ReleaseBuffers({Cur}, buffer_waiters, waiting, ready)
      /\ UNCHANGED phase
  BY DEF RecvAgain, RecvEof, At, sessionVars
<1>3. /\ PoolInv' /\ PoolType' /\ QueueType'
  BY <1>2, ReleaseCurrentKeepsPool DEF PoolType, QueueType
<1>4. DispType' /\ DispatcherInv'
  <2>1. disp.ops < DIRECTION_BUDGET /\ phase'[disp.s] \in {"running", "stopping"}
    BY <1>1, <1>2 DEF DispatcherInv
  <2>2. disp.ops + 1 \in 0..DIRECTION_BUDGET
    BY <1>1, <2>1
  <2>3. PICK pc \in {"leave", "shut"} :
           disp' = [disp EXCEPT !.pc = pc, !.d = disp.d, !.ops = disp.ops + 1]
    BY <1>1 DEF RecvAgain, RecvEof, TypeOK
  <2> QED BY <1>1, <1>2, <2>1, <2>2, <2>3, PumpStep
<1>5. TypeOK'
  BY <1>1, <1>2, <1>3, <1>4
     DEF TypeOK, DispType, QueueType, PoolType, flagVars, flowVars, sockVars,
         sessionVars
<1> QED BY <1>3, <1>4, <1>5 DEF IInv

\* Edits of the sockets made by the pump and by the peers keep their type.
LEMMA SocketFields ==
    ASSUME SockType, NEW e \in End
    PROVE  /\ sock[e] \in Socket
           /\ sock[e].rx \in 0..SOCKET_SPACE /\ sock[e].tx \in 0..SOCKET_SPACE
           /\ sock[e].made \in Nat
BY DEF SockType, Socket

\* A receive into the acquired buffer keeps the invariant.
LEMMA RecvDataStep == IInv /\ RecvData => IInv'
<1> SUFFICES ASSUME IInv, RecvData PROVE IInv'
  OBVIOUS
<1> USE ConstantsAssumption
<1>1. TypeOK /\ DispatcherInv /\ DispType /\ SockType /\ disp.s \in Session
      /\ disp.d \in Dir /\ disp.ops \in 0..DIRECTION_BUDGET
  BY TypeParts DEF IInv, DispType
<1>2. Cur \in Flow /\ Source \in End
  BY <1>1, CurrentType
<1>3. /\ UNCHANGED <<queueVars, poolVars, writable, done, bytes, edge, sessionVars>>
      /\ disp.pc = "recv" /\ readable' = readable \cup {Source}
      /\ sock[Source].rx > 0
  BY DEF RecvData, At
<1> DEFINE n == IF sock[Source].rx <= BUFFER_LIMIT THEN sock[Source].rx
                                                   ELSE BUFFER_LIMIT
<1>4. n \in 0..BUFFER_LIMIT /\ sock[Source].rx - n \in 0..SOCKET_SPACE
  BY <1>1, <1>2, <1>3, SocketFields
<1>5. /\ sock' = [sock EXCEPT ![Source].rx = @ - n]
      /\ unsent' = [unsent EXCEPT ![Cur] = n]
  BY DEF RecvData
<1> HIDE DEF n
<1>6. FlowType'
  BY <1>1, <1>2, <1>3, <1>4, <1>5 DEF TypeOK, FlowType
<1>7. SockType'
  BY <1>1, <1>2, <1>3, <1>4, <1>5 DEF SockType, Socket
<1>8. DispType' /\ DispatcherInv'
  <2>1. disp.ops < DIRECTION_BUDGET /\ phase'[disp.s] \in {"running", "stopping"}
    BY <1>1, <1>3 DEF DispatcherInv, sessionVars
  <2>2. disp.ops + 1 \in 0..DIRECTION_BUDGET
    BY <1>1, <2>1
  <2>3. disp' = [disp EXCEPT !.pc = "flow", !.d = disp.d, !.ops = disp.ops + 1]
    BY <1>1 DEF RecvData, TypeOK
  <2> QED BY <1>1, <1>3, <2>1, <2>2, <2>3, PumpStep
<1>9. PoolInv'
  BY <1>3, PoolUntouched DEF sessionVars
<1>10. TypeOK'
  BY <1>1, <1>2, <1>3, <1>6, <1>7, <1>8
     DEF TypeOK, FlowType, SockType, DispType, queueVars, poolVars, sessionVars
<1> QED BY <1>8, <1>9, <1>10 DEF IInv

\* A whole or partial send, with the release it ends in, keeps the invariant.
LEMMA SendStep == IInv /\ Send => IInv'
<1> SUFFICES ASSUME IInv, Send PROVE IInv'
  OBVIOUS
<1> USE ConstantsAssumption
<1>1. TypeOK /\ DispatcherInv /\ DispType /\ SockType /\ FlowType /\ disp.s \in Session
      /\ disp.d \in Dir /\ disp.ops \in 0..DIRECTION_BUDGET
  BY TypeParts DEF IInv, DispType
<1>2. Cur \in Flow /\ Sink \in End
  BY <1>1, CurrentType
<1>3. UNCHANGED <<queueVars, poolVars, readable, done, edge, sessionVars>>
      /\ disp.pc = "send"
  BY DEF Send, At
<1>4. /\ disp.ops < DIRECTION_BUDGET /\ disp.ops + 1 \in 0..DIRECTION_BUDGET
      /\ phase'[disp.s] \in {"running", "stopping"}
  <2>1. DispatcherInv /\ disp.ops \in 0..DIRECTION_BUDGET /\ disp.pc = "send"
    BY <1>1, <1>3
  <2>2. disp.ops < DIRECTION_BUDGET /\ phase[disp.s] \in {"running", "stopping"}
    BY <2>1 DEF DispatcherInv
  <2>3. disp.ops + 1 \in 0..DIRECTION_BUDGET
    BY <2>1, <2>2
  <2>4. phase' = phase
    BY <1>3 DEF sessionVars
  <2> QED BY <2>2, <2>3, <2>4
<1>5. DispType' /\ DispatcherInv'
  <2>1. \/ disp' = [disp EXCEPT !.pc = "fail"]
        \/ disp' = [disp EXCEPT !.pc = "leave", !.ops = @ + 1]
        \/ disp' = [disp EXCEPT !.pc = "flow", !.ops = @ + 1]
    BY DEF Send
  <2>2. \/ disp' = [disp EXCEPT !.pc = "fail", !.d = disp.d, !.ops = disp.ops]
        \/ disp' = [disp EXCEPT !.pc = "leave", !.d = disp.d, !.ops = disp.ops + 1]
        \/ disp' = [disp EXCEPT !.pc = "flow", !.d = disp.d, !.ops = disp.ops + 1]
    BY <1>1, <2>1 DEF TypeOK
  <2> QED BY <1>1, <1>3, <1>4, <2>2, PumpStep
<1> DEFINE room == SOCKET_SPACE - sock[Sink].tx
           n == IF unsent[Cur] <= room THEN unsent[Cur] ELSE room
           full == IF n < unsent[Cur] THEN {"nospace"} ELSE {}
<1>6. /\ sock[Sink].tx \in 0..SOCKET_SPACE
      /\ unsent[Cur] \in 0..BUFFER_LIMIT /\ bytes[Cur] \in Nat
  BY <1>1, <1>2, SocketFields DEF FlowType
<1>7. /\ n \in Nat /\ unsent[Cur] - n \in 0..BUFFER_LIMIT
      /\ sock[Sink].tx + n \in 0..SOCKET_SPACE /\ bytes[Cur] + n \in Nat
      /\ full \subseteq {"nospace"}
  <2>1. full \subseteq {"nospace"}
    OBVIOUS
  <2>2. CASE unsent[Cur] <= room
    BY <1>6, <2>1, <2>2
  <2>3. CASE ~(unsent[Cur] <= room)
    BY <1>6, <2>1, <2>3
  <2> QED BY <2>2, <2>3
<1>8. \/ UNCHANGED <<writable, unsent, bytes, sock>>
      \/ /\ sock' = [sock EXCEPT ![Sink].is = @ \cup {"nospace"}]
         /\ UNCHANGED <<writable, unsent, bytes>>
      \/ /\ sock' = [sock EXCEPT ![Sink].tx = @ + n, ![Sink].is = @ \cup full]
         /\ unsent' = [unsent EXCEPT ![Cur] = @ - n]
         /\ bytes' = [bytes EXCEPT ![Cur] = @ + n]
         /\ writable' = writable \cup {Sink}
  BY DEF Send
<1> HIDE DEF n, room, full
<1>9. FlowType'
  BY <1>1, <1>2, <1>3, <1>7, <1>8 DEF FlowType
<1>10. FlagType'
  BY <1>1, <1>2, <1>3, <1>8 DEF TypeOK, FlagType
<1>11. SockType'
  <2>1. CASE UNCHANGED sock
    BY <1>1, <1>3, <2>1 DEF SockType
  <2>2. CASE sock' = [sock EXCEPT ![Sink].is = @ \cup {"nospace"}]
    BY <1>1, <1>2, <1>3, <2>2 DEF SockType, Socket
  <2>3. CASE sock' = [sock EXCEPT ![Sink].tx = @ + n, ![Sink].is = @ \cup full]
    BY <1>1, <1>2, <1>3, <1>7, <2>3 DEF SockType, Socket
  <2> QED BY <1>8, <2>1, <2>2, <2>3
<1>12. PoolInv'
  BY <1>3, PoolUntouched DEF sessionVars
<1>13. TypeOK'
  BY <1>1, <1>3, <1>5, <1>9, <1>10, <1>11
     DEF TypeOK, FlowType, FlagType, SockType, DispType, queueVars, poolVars, sessionVars
<1> QED BY <1>5, <1>12, <1>13 DEF IInv

\* Half-closing the sink keeps the invariant.
LEMMA ShutdownStep == IInv /\ ShutdownSink => IInv'
<1> SUFFICES ASSUME IInv, ShutdownSink PROVE IInv'
  OBVIOUS
<1> USE ConstantsAssumption
<1>1. TypeOK /\ DispatcherInv /\ DispType /\ SockType /\ QueueType /\ FlagType
      /\ disp.s \in Session /\ disp.d \in Dir /\ disp.ops \in 0..DIRECTION_BUDGET
  BY TypeParts DEF IInv, DispType
<1>2. Cur \in Flow /\ Sink \in End
  BY <1>1, CurrentType
<1>3. UNCHANGED <<poolVars, unsent, bytes, sessionVars>> /\ disp.pc = "shut"
  BY DEF ShutdownSink, At
<1>4. DispType' /\ DispatcherInv'
  <2>1. PICK pc \in {"fail", "leave"} :
           disp' = [disp EXCEPT !.pc = pc, !.d = disp.d, !.ops = disp.ops]
    BY <1>1 DEF ShutdownSink, TypeOK
  <2>2. phase'[disp.s] \in {"running", "stopping"}
    BY <1>1, <1>3 DEF DispatcherInv, sessionVars
  <2> QED BY <1>1, <1>3, <2>1, <2>2, PumpStep
<1>5. QueueType' /\ FlagType' /\ SockType' /\ done' \subseteq Flow
  <2>1. CASE UNCHANGED <<queueVars, flagVars, done, sockVars>>
    BY <1>1, <2>1 DEF TypeOK, QueueType, FlagType, SockType, queueVars, flagVars, sockVars
  <2>2. CASE /\ sock' = [sock EXCEPT ![Sink].is = @ \cup {"shut"}]
             /\ done' = done \cup {Cur}
             /\ Notify(Sink, TRUE, TRUE)
    <3>1. sock' \in [End -> Socket]
      BY <1>1, <1>2, <2>2 DEF SockType, Socket
    <3>2. QueueType' /\ FlagType' /\ edge' \subseteq Session
      BY <1>1, <1>2, <2>2, NotifyType DEF SockType
    <3> QED BY <1>1, <1>2, <2>2, <3>1, <3>2 DEF TypeOK, SockType
  <2> QED BY <2>1, <2>2 DEF ShutdownSink
<1>6. PoolInv'
  BY <1>3, PoolUntouched DEF sessionVars
<1>7. TypeOK'
  BY <1>1, <1>3, <1>4, <1>5
     DEF TypeOK, QueueType, FlagType, SockType, DispType, poolVars, sessionVars
<1> QED BY <1>4, <1>6, <1>7 DEF IInv

\* tcpcc_bridge_session_stop and the abort of both sockets.
LEMMA StopTypes ==
    ASSUME TypeOK, NEW s \in Session, NEW st \in {"error", "canceled"}
    PROVE  /\ FirstStatus(s, st) => status' \in [Session -> {"ok", "error", "canceled"}]
           /\ AbortSockets(s) => sock' \in [End -> Socket]
           /\ AbortEdge(s) \subseteq Session /\ AbortMark(s) \subseteq End
<1>1. FirstStatus(s, st) => status' \in [Session -> {"ok", "error", "canceled"}]
  BY DEF TypeOK, FirstStatus
<1>2. AbortSockets(s) => sock' \in [End -> Socket]
  <2>1. ASSUME NEW e \in End 
        PROVE  [sock[e] EXCEPT !.is = @ \cup {"eof", "shut"}] \in Socket
    BY DEF TypeOK, Socket
  <2>2. CASE phase[s] # "running"
    BY <2>2 DEF TypeOK, AbortSockets
  <2>3. CASE phase[s] = "running"
    <3> SUFFICES ASSUME AbortSockets(s) PROVE sock' \in [End -> Socket]
      OBVIOUS
    <3> DEFINE k(e) == IF e[1] = s THEN [sock[e] EXCEPT !.is = @ \cup {"eof", "shut"}]
                                   ELSE sock[e]
    <3>1. sock' = [e \in End |-> k(e)]
      BY <2>3 DEF AbortSockets
    <3>2. \A e \in End : k(e) \in Socket
      BY <2>1 DEF TypeOK
    <3> HIDE DEF k
    <3> QED BY <3>1, <3>2
  <2> QED BY <2>2, <2>3
<1>3. AbortEdge(s) \subseteq Session /\ AbortMark(s) \subseteq End
  BY DEF AbortEdge, AbortMark, End, Side
<1> QED BY <1>1, <1>2, <1>3

\* Failing a session keeps the invariant.
LEMMA FailStep == IInv /\ Fail => IInv'
<1> SUFFICES ASSUME IInv, Fail PROVE IInv'
  OBVIOUS
<1>1. TypeOK /\ disp.s \in Session /\ ready \in Seq(Session)
  BY DEF IInv, TypeOK
<1>2. /\ disp.pc = "fail" /\ NextSession /\ UNCHANGED flowVars
      /\ SessionFinish(disp.s, Queued(ready, disp.s))
      /\ FirstStatus(disp.s, "error") /\ AbortSockets(disp.s)
      /\ edge' = edge \cup AbortEdge(disp.s)
      /\ readable' = readable \cup AbortMark(disp.s)
      /\ writable' = writable \cup AbortMark(disp.s)
  BY DEF Fail, At
<1>3. Queued(ready, disp.s) \in Seq(Session)
  BY <1>1, QueuedType
<1>4. FlagType' /\ SockType' /\ status' \in [Session -> {"ok", "error", "canceled"}]
  BY <1>1, <1>2, StopTypes DEF TypeOK, FlagType, SockType
<1> QED BY <1>2, <1>3, <1>4, FinishStep

\* Leaving tcpcc_bridge_pump_session keeps the invariant.
LEMMA PumpEndStep == IInv /\ PumpEnd => IInv'
<1> SUFFICES ASSUME IInv, PumpEnd PROVE IInv'
  OBVIOUS
<1>1. TypeOK /\ DispatcherInv /\ disp.s \in Session /\ ready \in Seq(Session)
  BY DEF IInv, TypeOK
<1>2. /\ disp.pc = "end" /\ NextSession
      /\ UNCHANGED <<flagVars, flowVars, sockVars, status>>
      /\ SessionFinish(disp.s, ready) \/ UNCHANGED <<queueVars, poolVars, phase>>
  BY DEF PumpEnd, At
<1>3. CASE SessionFinish(disp.s, ready)
  <2>1. FlagType' /\ SockType' /\ status' \in [Session -> {"ok", "error", "canceled"}]
    BY <1>1, <1>2 DEF TypeOK, FlagType, SockType, flagVars, sockVars
  <2> QED BY <1>1, <1>2, <1>3, <2>1, FinishStep DEF flowVars
<1>4. CASE UNCHANGED <<queueVars, poolVars, phase>>
  <2>1. DispType' /\ DispatcherInv'
    BY <1>1, <1>2, NextSessionStep
  <2>2. PoolInv'
    BY <1>4, PoolUntouched
  <2>3. TypeOK'
    BY <1>1, <1>2, <1>4, <2>1
       DEF TypeOK, DispType, queueVars, poolVars, flagVars, flowVars, sockVars
  <2> QED BY <2>1, <2>2, <2>3 DEF IInv
<1> QED BY <1>2, <1>3, <1>4

\* A step of somebody else than the dispatcher, which leaves the pool, the
\* flows and the dispatcher's place alone.
LEMMA OutsideStep ==
    ASSUME IInv, UNCHANGED <<disp, poolVars, flowVars>>,
           SessionType', QueueType', FlagType', SockType',
           \A s \in Session : phase[s] \in {"running", "stopping"} =>
                                 phase'[s] \in {"running", "stopping"}
    PROVE  IInv'
<1>1. TypeOK'
  BY DEF IInv, TypeOK, SessionType, QueueType, FlagType, SockType, poolVars, flowVars
<1>2. PoolInv'
  BY PoolUntouched
<1>3. DispatcherInv'
  BY DEF IInv, TypeOK, DispatcherInv, Cur, poolVars
<1> QED BY <1>1, <1>2, <1>3 DEF IInv

\* Stopping a session, which queues it and keeps its buffers, keeps the invariant.
LEMMA StopStep ==
    ASSUME IInv, NEW s \in Session, NEW st \in {"error", "canceled"},
           SessionStop(s, st), UNCHANGED <<disp, poolVars, flowVars>>,
           FlagType', edge' \subseteq Session
    PROVE  IInv'
<1>1. TypeOK /\ QueueType
  BY DEF IInv, TypeOK, QueueType
<1>2. /\ FirstStatus(s, st) /\ AbortSockets(s) /\ QueueSession(s)
      /\ phase' = [phase EXCEPT ![s] = IF @ = "running" THEN "stopping" ELSE @]
  BY DEF SessionStop
<1>3. SessionType' /\ SockType'
  BY <1>1, <1>2, StopTypes DEF TypeOK, SessionType, SockType, Phase
<1>4. QueueType'
  BY <1>1, <1>2, QueueSessionType
<1>5. \A x \in Session : phase[x] \in {"running", "stopping"} =>
                            phase'[x] \in {"running", "stopping"}
  BY <1>1, <1>2 DEF TypeOK
<1> QED BY <1>3, <1>4, <1>5, OutsideStep

\* A host readiness event keeps the invariant.
LEMMA HostEventStep == \A s \in Session : IInv /\ HostEvent(s) => IInv'
<1> SUFFICES ASSUME IInv, NEW s \in Session, HostEvent(s) PROVE IInv'
  OBVIOUS
<1>1. TypeOK /\ QueueType /\ <<s, "host">> \in End
  BY DEF IInv, TypeOK, QueueType, End, Side
<1>2. UNCHANGED <<disp, poolVars, flowVars>>
  BY DEF HostEvent
<1>3. AbortEdge(s) \subseteq Session /\ AbortMark(s) \subseteq End
  BY <1>1, StopTypes
<1>4. /\ readable' \subseteq readable \cup {<<s, "host">>} \cup AbortMark(s)
      /\ writable' \subseteq writable \cup {<<s, "host">>} \cup AbortMark(s)
      /\ edge' \subseteq edge \cup AbortEdge(s)
  BY DEF HostEvent
<1>5. FlagType' /\ edge' \subseteq Session
  BY <1>1, <1>3, <1>4 DEF TypeOK, FlagType
<1>6. CASE SessionStop(s, "error")
  BY <1>2, <1>5, <1>6, StopStep
<1>7. CASE QueueSession(s) /\ UNCHANGED <<sessionVars, sock>>
  <2>1. SessionType' /\ SockType'
    BY <1>1, <1>5, <1>7 DEF TypeOK, SessionType, SockType, sessionVars
  <2>2. QueueType'
    BY <1>1, <1>7, QueueSessionType
  <2> QED BY <1>2, <1>5, <1>7, <2>1, <2>2, OutsideStep DEF sessionVars
<1> QED BY <1>6, <1>7 DEF HostEvent

\* A cancellation keeps the invariant.
LEMMA CancelStep == \A s \in Session : IInv /\ Cancel(s) => IInv'
<1> SUFFICES ASSUME IInv, NEW s \in Session, Cancel(s) PROVE IInv'
  OBVIOUS
<1>1. TypeOK
  BY DEF IInv
<1>2. /\ SessionStop(s, "canceled") /\ UNCHANGED <<disp, poolVars, flowVars>>
      /\ edge' = edge \cup AbortEdge(s)
      /\ readable' = readable \cup AbortMark(s)
      /\ writable' = writable \cup AbortMark(s)
  BY DEF Cancel
<1>3. FlagType' /\ edge' \subseteq Session
  BY <1>1, <1>2, StopTypes DEF TypeOK, FlagType
<1> QED BY <1>2, <1>3, StopStep

\* Both halves of a reap keep the invariant.
LEMMA ReapStep == \A s \in Session : IInv /\ (ReapBegin(s) \/ ReapEnd(s)) => IInv'
<1> SUFFICES ASSUME IInv, NEW s \in Session, ReapBegin(s) \/ ReapEnd(s) PROVE IInv'
  OBVIOUS
<1>1. TypeOK /\ DispatcherInv
  BY DEF IInv
<1>2. /\ UNCHANGED <<disp, poolVars, flagVars, flowVars, sock, status>>
      /\ phase[s] \in {"finished", "reaping"}
      /\ \/ phase' = [phase EXCEPT ![s] = "reaping"]
         \/ phase' = [phase EXCEPT ![s] = "retired"]
      /\ edge' \subseteq edge
      /\ ready' = Without(ready, s) \/ ready' = ready
      /\ dispatcher_pending' = TRUE \/ dispatcher_pending' = dispatcher_pending
  BY DEF ReapBegin, ReapEnd, sockVars
<1>3. SessionType' /\ FlagType' /\ SockType'
  BY <1>1, <1>2 DEF TypeOK, SessionType, FlagType, SockType, Phase, flagVars
<1>4. QueueType'
  <2>1. ready \in Seq(Session) /\ dispatcher_pending \in BOOLEAN
    BY <1>1 DEF TypeOK
  <2>2. ready' \in Seq(Session)
    BY <1>2, <2>1, WithoutType
  <2>3. dispatcher_pending' \in BOOLEAN
    BY <1>2, <2>1
  <2> QED BY <2>2, <2>3 DEF QueueType
<1>5. \A x \in Session : phase[x] \in {"running", "stopping"} =>
                            phase'[x] \in {"running", "stopping"}
  BY <1>1, <1>2 DEF TypeOK
<1> QED BY <1>2, <1>3, <1>4, <1>5, OutsideStep

\* What the peers do to their sockets keeps the invariant.
LEMMA PeerStep == \A e \in End : IInv /\ Peer(e) => IInv'
<1> SUFFICES ASSUME IInv, NEW e \in End, Peer(e) PROVE IInv'
  OBVIOUS
<1> USE ConstantsAssumption
<1>1. TypeOK /\ SockType /\ QueueType /\ FlagType /\ edge \subseteq Session
  BY TypeParts DEF IInv, SockType
<1>2. sock[e].rx \in 0..SOCKET_SPACE /\ sock[e].tx \in 0..SOCKET_SPACE
      /\ sock[e].made \in Nat
  BY <1>1, SocketFields
<1>3. UNCHANGED <<disp, poolVars, flowVars, sessionVars>>
  BY DEF Peer, PeerSend, PeerFin, PeerRead, PeerReset, PeerVars
<1>4. SessionType' /\ \A x \in Session : phase'[x] = phase[x]
  BY <1>1, <1>3 DEF TypeOK, SessionType, sessionVars
<1>5. QueueType' /\ FlagType' /\ edge' \subseteq Session
  <2>1. CASE UNCHANGED <<flagVars, queueVars, edge>>
    BY <1>1, <2>1 DEF QueueType, FlagType, flagVars, queueVars
  <2>2. CASE \E r, w \in BOOLEAN : Notify(e, r, w)
    BY <1>1, <2>2, NotifyType
  <2> QED BY <2>1, <2>2 DEF Peer, PeerSend, PeerFin, PeerRead, PeerReset
<1>6. sock' \in [End -> Socket]
  <2>1. CASE PeerSend(e)
    BY <1>1, <1>2, <2>1 DEF PeerSend, SockType, Socket
  <2>2. CASE PeerFin(e)
    BY <1>1, <1>2, <2>2 DEF PeerFin, SockType, Socket
  <2>3. CASE PeerRead(e)
    <3>1. sock[e].tx - 1 \in 0..SOCKET_SPACE
      BY <1>2, <2>3 DEF PeerRead
    <3>2. \/ sock' = [sock EXCEPT ![e].tx = @ - 1, ![e].is = @ \ {"nospace"}]
          \/ sock' = [sock EXCEPT ![e].tx = @ - 1]
      BY <2>3 DEF PeerRead
    <3> QED BY <1>1, <3>1, <3>2 DEF SockType, Socket
  <2>4. CASE PeerReset(e)
    <3>1. sock' = [sock EXCEPT ![e].tx = 0,
                      ![e].is = (@ \ {"nospace"}) \cup {"err", "closed"}]
      BY <2>4 DEF PeerReset
    <3> DEFINE is == (sock[e].is \ {"nospace"}) \cup {"err", "closed"}
    <3>2. 0 \in 0..SOCKET_SPACE /\ is \subseteq {"eof", "shut", "err", "nospace", "closed"}
      BY <1>1 DEF SockType, Socket
    <3>3. sock' = [sock EXCEPT ![e].tx = 0, ![e].is = is]
      BY <3>1
    <3> HIDE DEF is
    <3> QED BY <1>1, <3>2, <3>3 DEF SockType, Socket
  <2> QED BY <2>1, <2>2, <2>3, <2>4 DEF Peer
<1> QED BY <1>3, <1>4, <1>5, <1>6, OutsideStep DEF SockType

\* The public socket reaching TCP_CLOSE keeps the invariant.
LEMMA ClosedStep == \A s \in Session : IInv /\ PublicClosed(s) => IInv'
<1> SUFFICES ASSUME IInv, NEW s \in Session, PublicClosed(s) PROVE IInv'
  OBVIOUS
<1> DEFINE e == <<s, "public">>
<1>1. TypeOK /\ SockType /\ QueueType /\ FlagType /\ edge \subseteq Session /\ e \in End
  BY TypeParts DEF IInv, SockType, End, Side
<1>2. /\ UNCHANGED <<disp, poolVars, flowVars, sessionVars>>
      /\ Notify(e, TRUE, TRUE)
      /\ sock' = [sock EXCEPT ![e].is = @ \cup {"closed"}]
  BY DEF PublicClosed, PeerVars
<1> HIDE DEF e
<1>3. sock' \in [End -> Socket]
  BY <1>1, <1>2 DEF SockType, Socket
<1>4. QueueType' /\ FlagType' /\ edge' \subseteq Session
  BY <1>1, <1>2, NotifyType
<1>5. SessionType' /\ \A x \in Session : phase'[x] = phase[x]
  BY <1>1, <1>2 DEF TypeOK, SessionType, sessionVars
<1> QED BY <1>2, <1>3, <1>4, <1>5, OutsideStep DEF SockType

-----------------------------------------------------------------------------
\* Every step of the bridge keeps the invariant.
LEMMA NextInv == IInv /\ [Next]_vars => IInv'
<1> SUFFICES ASSUME IInv, [Next]_vars PROVE IInv'
  OBVIOUS
<1>1. CASE Dispatcher
  BY <1>1, WakeStep, TakeReadyStep, RoundEndStep, PumpBeginStep, FlowLeaveStep,
     TakeWritableStep, TakeReadableStep, NoRoomStep, ErrorStep, SendStep,
     RecvDataStep, RecvReleaseStep, ShutdownStep, FailStep, PumpEndStep
     DEF Dispatcher
<1>2. CASE \E s \in Session : HostEvent(s) \/ Control(s) \/ PublicClosed(s)
  BY <1>2, HostEventStep, CancelStep, ReapStep, ClosedStep DEF Control
<1>3. CASE \E e \in End : Peer(e)
  BY <1>3, PeerStep
<1>4. CASE UNCHANGED vars
  <2>1. /\ UNCHANGED <<queueVars, poolVars, flagVars, flowVars, sockVars, sessionVars>>
        /\ UNCHANGED disp
    BY <1>4 DEF vars, queueVars
  <2>2. TypeOK'
    BY <2>1 DEF IInv, TypeOK, queueVars, poolVars, flagVars, flowVars, sockVars, sessionVars
  <2>3. PoolInv'
    BY <2>1 DEF IInv, PoolInv, PoolExact, NoLostBufferWakeup, NoRepeat, Elements,
       queueVars, poolVars, sessionVars
  <2>4. DispatcherInv'
    BY <2>1 DEF IInv, DispatcherInv, Cur, poolVars, sessionVars
  <2> QED BY <2>2, <2>3, <2>4 DEF IInv
<1> QED BY <1>1, <1>2, <1>3, <1>4 DEF Next

\* The inductive invariant holds in every reachable state.
LEMMA Invariance == Spec => []IInv
<1>1. Init => IInv
  BY InitInv
<1>2. IInv /\ [Next]_vars => IInv'
  BY NextInv
<1> QED BY <1>1, <1>2, PTL DEF Spec

\* Type correctness of the data plane for all constants; with it the limit of
\* the pool, the budgets of a direction and of a round.
THEOREM TypeCorrect == Spec => []TypeOK
<1>1. IInv => TypeOK
  BY DEF IInv
<1> QED BY <1>1, Invariance, PTL

\* The accounting of the buffer pool is exact and finished sessions hold no
\* buffer, for every number of sessions and every size of the pool.
THEOREM PoolAccounting == Spec => []PoolExact
<1>1. IInv => PoolExact
  BY DEF IInv, PoolInv
<1> QED BY <1>1, Invariance, PTL

\* No wakeup of a waiter for a buffer is ever lost.
THEOREM BufferWakeups == Spec => []NoLostBufferWakeup
<1>1. IInv => NoLostBufferWakeup
  BY DEF IInv, PoolInv
<1> QED BY <1>1, Invariance, PTL
=============================================================================
