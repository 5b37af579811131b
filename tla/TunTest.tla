------------------------------- MODULE TunTest -------------------------------
(***************************************************************************)
(* The functional test scripts/run-tcpcc-tun-test.py: main attaches a TUN  *)
(* queue, starts the hosted kernel, and goes through a list of exercises.  *)
(* A bridge session of an exercise has a client thread and a backend       *)
(* thread of the test, and a bridge of the hosted kernel between them.     *)
(*                                                                         *)
(* An exercise is a sequence of steps of main, and the test their          *)
(* concatenation (Script).  A step that finds what it does not expect      *)
(* raises; then the finally clauses run and the test fails.                *)
(***************************************************************************)
EXTENDS Integers, Sequences, FiniteSets

CONSTANT CapacityConnections   \* BRIDGE_CAPACITY_CONNECTIONS, at least 2

Sessions == 1..(CapacityConnections + 1)

VARIABLES
  listeners,    \* args.exercise_listeners
  phase,        \* tun, script, unwind, finally, stderr, end
  at,           \* the step of Script main is at
  ses,          \* the sessions of the exercise at hand
  handles,      \* sockets in the control table of the hosted kernel
  free_slots,   \* of the bridge, the last released first
  generation,   \* of each slot that was ever used
  open,         \* descriptors of the test, and the child it started
  causes,       \* what a failure may be put down to
  wrong,        \* what the hosted kernel did wrong
  report        \* none, passed, failed

vars == <<listeners, phase, at, ses, handles, free_slots, generation, open,
          causes, wrong, report>>

\* c and b are the places of the client and of the backend thread, up and down
\* how far the payload has come, k the bridge, error its terminal ERROR event.
Idle == [c |-> "none", b |-> "none", up |-> "none", down |-> "none",
         k |-> "none", mode |-> "echo", held |-> FALSE, error |-> FALSE,
         slot |-> 0, gen |-> 0]

-----------------------------------------------------------------------------
(* The exercises *)

Do(op, s, x) == <<[op |-> op, s |-> s, x |-> x]>>

\* A payload each way over one connection, the first read by a thread.
Transfer(s) ==
  Do("write", s, 0) \o Do("drained", s, 0) \o Do("read", s, 0) \o
  Do("tcp_info", s, 0)

exercise_external_tcp ==
  Do("connect", 1, 0) \o Transfer(1) \o Do("close", 1, "guest") \o
  Do("done", 1, 0)

exercise_inbound_tcp_listener ==
  Do("listen", 1, "plain") \o Do("accept", 1, 0) \o Transfer(1) \o
  Do("close", 1, "accepted") \o Do("close", 1, "listener") \o Do("done", 1, 0)

\* mode says what the backend thread does: echo, hold (wait for release, then
\* echo), reset.
start_bridge_session(s, mode) ==
  Do("listen", s, mode) \o Do("accept", s, 0) \o Do("bridge", s, 0) \o
  Do("started", s, 0) \o Do("close", s, "listener") \o Do("ready", s, 0)

start_bridge_client(s) == Do("client", s, 0)

finish_bridge_session(s) ==
  Do("wait", s, 0) \o Do("backend", s, 0) \o Do("join", s, 0)

wait_cancelled_bridge_threads(s) ==
  Do("client_cancelled", s, 0) \o Do("release", s, "one") \o
  Do("backend_cancelled", s, 0)

cancel_and_reap_bridge_session(s) ==
  Do("cancel", s, 0) \o wait_cancelled_bridge_threads(s) \o
  Do("join_cancelled", s, 0)

\* The main thread is the client.
exercise_single_bridge ==
  Do("listen", 1, "echo") \o Do("accept", 1, 0) \o Do("bridge", 1, 0) \o
  Do("started", 1, 0) \o start_bridge_client(1) \o finish_bridge_session(1) \o
  Do("close", 1, "listener") \o Do("done", 1, 0)

\* fast, delayed, reuse
exercise_concurrent_bridges ==
  start_bridge_session(1, "echo") \o start_bridge_session(2, "hold") \o
  start_bridge_client(2) \o start_bridge_client(1) \o Do("wait", 1, 0) \o
  Do("pending", 2, 0) \o finish_bridge_session(1) \o
  start_bridge_session(3, "echo") \o Do("reused", 3, 1) \o Do("stale", 1, 0) \o
  start_bridge_client(3) \o finish_bridge_session(3) \o Do("pending", 2, 0) \o
  Do("release", 2, "one") \o finish_bridge_session(2) \o Do("done", 1, 0)

EachOf(n, Steps(_)) ==
  LET f[i \in 0..n] == IF i = 0 THEN <<>> ELSE f[i - 1] \o Steps(i) IN f[n]

\* All sessions hang on one event, which frees them together.
exercise_bridge_capacity ==
  LET n == CapacityConnections
      StartHeld(i) == start_bridge_session(i, "hold")
  IN EachOf(n, StartHeld) \o Do("unique", 1, 0) \o
     EachOf(n, start_bridge_client) \o Do("release", 1, "all") \o
     EachOf(n, finish_bridge_session) \o
     start_bridge_session(n + 1, "echo") \o start_bridge_client(n + 1) \o
     finish_bridge_session(n + 1) \o Do("done", 1, 0)

\* survivor, backend_reset, public_reset
exercise_reset_isolation ==
  start_bridge_session(1, "hold") \o start_bridge_client(1) \o
  start_bridge_session(2, "reset") \o Do("join_terminal", 2, "error") \o
  Do("backend_ended", 2, 0) \o
  start_bridge_session(3, "public") \o Do("reset_public", 3, 0) \o
  Do("join_terminal", 3, "any") \o Do("backend_ended", 3, 0) \o
  Do("pending", 1, 0) \o Do("release", 1, "one") \o finish_bridge_session(1) \o
  Do("done", 1, 0)

\* victim, survivor, replacement
exercise_cancelled_bridges ==
  start_bridge_session(1, "hold") \o start_bridge_session(2, "hold") \o
  start_bridge_client(1) \o start_bridge_client(2) \o
  cancel_and_reap_bridge_session(1) \o Do("pending", 2, 0) \o
  start_bridge_session(3, "echo") \o Do("reused", 3, 1) \o Do("stale", 1, 0) \o
  start_bridge_client(3) \o finish_bridge_session(3) \o Do("pending", 2, 0) \o
  Do("release", 2, "one") \o finish_bridge_session(2) \o Do("done", 1, 0)

\* The service of the hosted kernel accepts and starts the bridge by itself.
exercise_hosted_service ==
  Do("listen", 1, "echo") \o Do("service", 1, 0) \o Do("ready", 1, 0) \o
  start_bridge_client(1) \o Do("wait", 1, 0) \o Do("backend", 1, 0) \o
  Do("drain", 1, 0) \o Do("stop", 1, 0) \o Do("done", 1, 0)

\* The part of main inside its try statement.
Script(l) ==
  Do("popen", 1, 0) \o Do("command", 1, 0) \o exercise_external_tcp \o
  exercise_external_tcp \o
  (IF l THEN exercise_inbound_tcp_listener \o exercise_inbound_tcp_listener \o
             exercise_single_bridge \o exercise_concurrent_bridges \o
             exercise_bridge_capacity \o exercise_reset_isolation \o
             exercise_cancelled_bridges \o exercise_hosted_service
   ELSE <<>>) \o
  Do("mtu", 1, 0) \o Do("oversize", 1, 0) \o Do("command", 1, 0) \o
  (IF l THEN start_bridge_session(1, "hold") \o start_bridge_client(1) \o
             Do("pending", 1, 0)
   ELSE <<>>) \o
  Do("finish", 1, 0) \o
  (IF l THEN wait_cancelled_bridge_threads(1) ELSE <<>>) \o Do("exit", 1, 0)

ScriptOf == [l \in BOOLEAN |-> Script(l)]

Init ==
  /\ listeners \in BOOLEAN
  /\ phase = "tun"
  /\ at = 1
  /\ ses = [s \in Sessions |-> Idle]
  /\ handles = {}
  /\ free_slots = <<>>
  /\ generation = <<>>
  /\ open = {}
  /\ causes = {}
  /\ wrong = {}
  /\ report = "none"

-----------------------------------------------------------------------------
(* Steps of main *)

\* A descriptor has an owner or belongs to main; a changed MTU counts as open.
Tun == <<"tun", 0>>
Child == <<"child", 0>>
Mtu == <<"mtu", 0>>
Sockets == {"client", "listener"} \X Sessions

slots == <<free_slots, generation>>
verdict == <<listeners, report>>

Step == ScriptOf[listeners][at]
Ended == {"ok", "err"}
Gone == {"reset", "cancelled", "reaped"}   \* a bridge that forwards no more

Set(s, f, v) == ses' = [ses EXCEPT ![s][f] = v]

On(op) == phase = "script" /\ Step.op = op
Go == at' = at + 1 /\ UNCHANGED <<phase, causes>>
Raise(why) ==
  phase' = "unwind" /\ causes' = causes \cup why /\ UNCHANGED at

\* What main checks and the threads or the bridge decide.
Check(ok) == IF ok THEN Go ELSE Raise({})

\* attach_tun_queue, before the try statement.
AttachTun ==
  /\ phase = "tun"
  /\ \/ phase' = "script" /\ open' = {Tun} /\ UNCHANGED <<causes, report>>
     \/ /\ phase' = "end" /\ report' = "failed"
        /\ causes' = {"kernel"} /\ UNCHANGED open
  /\ UNCHANGED <<listeners, at, ses, handles, slots, wrong>>

\* The steps in which main waits for nobody; Oversize has a handler of its own.
Immediate ==
  {"client", "pending", "release", "reused", "unique", "done", "oversize"}

\* A timeout, a response with an unexpected status, a broken pipe, a command
\* that fails: append_command, transact, recv_exact and the waits raise.  A
\* command that changed the MTU may have done so before it failed.
Unexpected ==
  /\ phase = "script"
  /\ Step.op \notin Immediate
  /\ \/ Raise({"kernel"}) /\ UNCHANGED open
     \/ /\ Step.op = "mtu"
        /\ Raise({"kernel", "mtu command"})
        /\ open' = open \cup {Mtu}
  /\ UNCHANGED <<verdict, ses, handles, slots, wrong>>

\* The child inherits the queue, main closes its own descriptor; L3_ATTACH.
StartKernel ==
  /\ On("popen")
  /\ \/ Go /\ open' = {Child}
     \/ Raise({"kernel"}) /\ open' = {Child}
  /\ UNCHANGED <<verdict, ses, handles, slots, wrong>>

\* ping, query_stats, query_tcp_info: an answer as expected.
Query ==
  /\ On("command") \/ On("tcp_info")
  /\ Go
  /\ UNCHANGED <<verdict, ses, handles, slots, open, wrong>>

SetMtu ==
  /\ On("mtu")
  /\ Go /\ open' = open \cup {Mtu}
  /\ UNCHANGED <<verdict, ses, handles, slots, wrong>>

\* The ping that must not be answered; a finally clause restores the MTU, with
\* a command that may fail itself.
Oversize ==
  /\ On("oversize")
  /\ \/ (Go \/ Raise({"kernel"})) /\ open' = open \ {Mtu}
     \/ Raise({"kernel", "mtu command"}) /\ UNCHANGED open
  /\ UNCHANGED <<verdict, ses, handles, slots, wrong>>

\* exercise_external_tcp up to accept.
ConnectOut ==
  /\ On("connect")
  /\ Go
  /\ handles' = handles \cup {"guest"}
  /\ open' = open \cup {<<"listener", 1>>, <<"client", 1>>}
  /\ UNCHANGED <<verdict, ses, slots, wrong>>

\* SOCKET, SET_CC, GET_CC, BIND, LISTEN, and the two threads' sockets.
Listen ==
  /\ On("listen")
  /\ Go
  /\ handles' = handles \cup {"listener"}
  /\ ses' = [ses EXCEPT ![Step.s] =
               [Idle EXCEPT !.b = IF Step.x = "plain" THEN "none" ELSE "accept",
                            !.mode = Step.x, !.held = (Step.x = "hold")]]
  /\ open' = open \cup {<<"client", Step.s>>} \cup
               (IF Step.x = "plain" THEN {} ELSE {<<"listener", Step.s>>})
  /\ UNCHANGED <<verdict, slots, wrong>>

\* The client connects; ACCEPT, GET_CC.
Accept ==
  /\ On("accept")
  /\ Go
  /\ handles' = handles \cup {"accepted"}
  /\ UNCHANGED <<verdict, ses, slots, open, wrong>>

\* drain_host_socket starts, WRITE of every chunk.
Write ==
  /\ On("write")
  /\ Go
  /\ ses' = [ses EXCEPT ![Step.s].b = "drain", ![Step.s].up = "sent"]
  /\ UNCHANGED <<verdict, handles, slots, open, wrong>>

Drained ==
  /\ On("drained")
  /\ ses[Step.s].b \in Ended
  /\ Check(ses[Step.s].b = "ok")
  /\ UNCHANGED <<verdict, ses, handles, slots, open, wrong>>

\* The answers to READ hold what the host sent, or main sees the difference.
ReadBack ==
  /\ On("read")
  /\ \/ Go /\ UNCHANGED wrong
     \/ Raise({}) /\ wrong' = wrong \cup {"payload"}
  /\ UNCHANGED <<verdict, ses, handles, slots, open>>

Close ==
  /\ On("close")
  /\ Go
  /\ handles' = handles \ {Step.x}
  /\ UNCHANGED <<verdict, ses, slots, open, wrong>>

-----------------------------------------------------------------------------
(* Bridge sessions *)

\* tcpcc_bridge_allocate_session: the slot released last, or a new one.
TakeSlot(s, mode) ==
  LET n == IF free_slots = <<>> THEN Len(generation) + 1 ELSE Head(free_slots)
      g == IF n > Len(generation) THEN 1 ELSE generation[n] + 1
  IN /\ ses' = [ses EXCEPT ![s].k = mode, ![s].slot = n, ![s].gen = g]
     /\ generation' = IF n > Len(generation) THEN Append(generation, g)
                      ELSE [generation EXCEPT ![n] = g]
     /\ free_slots' = IF free_slots = <<>> THEN <<>> ELSE Tail(free_slots)

\* tcpcc_bridge_reap
FreeSlot(s) ==
  /\ Set(s, "k", "reaped")
  /\ free_slots' = <<ses[s].slot>> \o free_slots
  /\ UNCHANGED generation

\* BRIDGE_START is sent and the hosted kernel connects to the backend.
BridgeStart ==
  /\ On("bridge")
  /\ Go
  /\ TakeSlot(Step.s, "connecting")
  /\ handles' = handles \ {"accepted"}
  /\ UNCHANGED <<verdict, open, wrong>>

\* The answer.  A backend that has reset the connection by now makes the start
\* fail (SO_ERROR), which the test does not expect.
BridgeStarted ==
  /\ On("started")
  /\ LET s == Step.s IN
     \/ ses[s].b # "reset" /\ Go /\ Set(s, "k", "run")
     \/ ses[s].b = "reset" /\ Raise({"early reset"}) /\ UNCHANGED ses
  /\ UNCHANGED <<verdict, handles, slots, open, wrong>>

\* backend_ready.wait
Ready ==
  /\ On("ready")
  /\ ses[Step.s].b # "accept"
  /\ Check(ses[Step.s].b # "err")
  /\ UNCHANGED <<verdict, ses, handles, slots, open, wrong>>

StartClient ==
  /\ On("client")
  /\ Go
  /\ Set(Step.s, "c", "send")
  /\ UNCHANGED <<verdict, handles, slots, open, wrong>>

\* Slip: a client thread that ended with an error will do.
WaitClientAny ==
  /\ On("wait") \/ On("client_cancelled")
  /\ ses[Step.s].c \in Ended
  /\ Go
  /\ UNCHANGED <<verdict, ses, handles, slots, open, wrong>>

\* wait_bridge_client and, for a cancelled session, its opposite.
WaitClient ==
  /\ On("wait") \/ On("client_cancelled")
  /\ ses[Step.s].c \in Ended
  /\ Check(ses[Step.s].c = IF Step.op = "wait" THEN "ok" ELSE "err")
  /\ UNCHANGED <<verdict, ses, handles, slots, open, wrong>>

\* backend_thread.join and the result of the thread; for a reset only its end.
JoinBackend ==
  /\ On("backend") \/ On("backend_cancelled") \/ On("backend_ended")
  /\ ses[Step.s].b \in Ended \cup {"reset"}
  /\ Check(\/ Step.op = "backend_ended"
           \/ ses[Step.s].b = IF Step.op = "backend" THEN "ok" ELSE "err")
  /\ open' = IF Step.op = "backend_cancelled" THEN open \ {<<"client", Step.s>>}
             ELSE open
  /\ UNCHANGED <<verdict, ses, handles, slots, wrong>>

\* BRIDGE_JOIN and validate_bridge_result; finish_bridge_session closes the
\* client.
Join ==
  /\ On("join")
  /\ LET s == Step.s IN
     /\ ses[s].k \in {"clean"} \cup Gone
     /\ Check(ses[s].k = "clean" /\ ~ses[s].error)
     /\ FreeSlot(s)
     /\ open' = open \ {<<"client", s>>}
  /\ UNCHANGED <<verdict, handles, wrong>>

\* join_terminal_bridge: an error status other than that of a cancellation, and
\* for the reset backend the ERROR event.
JoinTerminal ==
  /\ On("join_terminal")
  /\ LET s == Step.s IN
     /\ ses[s].k \in {"clean"} \cup Gone
     /\ Check(ses[s].k = "reset" /\ (Step.x = "error" => ses[s].error))
     /\ FreeSlot(s)
  /\ UNCHANGED <<verdict, handles, open, wrong>>

JoinCancelled ==
  /\ On("join_cancelled")
  /\ Check(ses[Step.s].k = "cancelled")
  /\ FreeSlot(Step.s)
  /\ UNCHANGED <<verdict, handles, open, wrong>>

\* client_done.is_set(): too early if the backend has not been released.
Pending ==
  /\ On("pending")
  /\ Check(ses[Step.s].c \notin Ended)
  /\ UNCHANGED <<verdict, ses, handles, slots, open, wrong>>

Release ==
  /\ On("release")
  /\ Go
  /\ ses' = [s \in Sessions |->
               IF Step.x = "all" \/ s = Step.s THEN [ses[s] EXCEPT !.held = FALSE]
               ELSE ses[s]]
  /\ UNCHANGED <<verdict, handles, slots, open, wrong>>

\* The slot of session x was reused with another generation.
Reused ==
  /\ On("reused")
  /\ Check(/\ ses[Step.s].slot = ses[Step.x].slot
           /\ ses[Step.s].gen # ses[Step.x].gen)
  /\ UNCHANGED <<verdict, ses, handles, slots, open, wrong>>

Unique ==
  /\ On("unique")
  /\ Check(\A s, t \in 1..CapacityConnections :
              ses[s].slot = ses[t].slot => s = t)
  /\ UNCHANGED <<verdict, ses, handles, slots, open, wrong>>

\* BRIDGE_CANCEL and BRIDGE_JOIN with the handle of a session that was joined
\* find nobody (tcpcc_bridge_find_handle).
Stale ==
  /\ On("stale")
  /\ Check(\A s \in Sessions :
             ses[s].slot = ses[Step.s].slot /\ ses[s].gen = ses[Step.s].gen
               => ses[s].k \in {"none", "reaped"})
  /\ UNCHANGED <<verdict, ses, handles, slots, open, wrong>>

\* What ends the bridge of s; a hosted kernel that is wrong lets it reach
\* another session.
EndBridge(s, new) ==
  \/ ses' = [ses EXCEPT ![s] = new] /\ UNCHANGED wrong
  \/ \E t \in Sessions \ {s} :
       /\ ses[t].k = "run"
       /\ ses' = [ses EXCEPT ![s] = new, ![t].k = "reset"]
       /\ wrong' = wrong \cup {"leak"}

Cancel ==
  /\ On("cancel")
  /\ Go
  /\ EndBridge(Step.s, [ses[Step.s] EXCEPT !.k = "cancelled"])
  /\ UNCHANGED <<verdict, handles, slots, open>>

\* The client sends and closes with SO_LINGER zero.
ResetPublic ==
  /\ On("reset_public")
  /\ Go
  /\ ses' = [ses EXCEPT ![Step.s].c = "reset", ![Step.s].up = "sent"]
  /\ open' = open \ {<<"client", Step.s>>}
  /\ UNCHANGED <<verdict, handles, slots, wrong>>

\* SERVICE_START takes the listener; the client connects, and the service
\* accepts and starts a bridge.
StartService ==
  /\ On("service")
  /\ Go
  /\ handles' = (handles \ {"listener"}) \cup {"service"}
  /\ TakeSlot(Step.s, "run")
  /\ UNCHANGED <<verdict, open, wrong>>

\* SERVICE_DRAIN comes back when the service has reaped the session; the
\* statistics do not change after it (SERVICE_STATS).
DrainService ==
  /\ On("drain")
  /\ ses[Step.s].k \in {"clean"} \cup Gone
  /\ Check(ses[Step.s].k = "clean")
  /\ FreeSlot(Step.s)
  /\ UNCHANGED <<verdict, handles, open, wrong>>

StopService ==
  /\ On("stop")
  /\ Go
  /\ handles' = handles \ {"service"}
  /\ UNCHANGED <<verdict, ses, slots, open, wrong>>

\* The finally clause of an exercise that went through.
Done ==
  /\ On("done")
  /\ Go
  /\ ses' = [s \in Sessions |-> Idle]
  /\ open' = open \ Sockets
  /\ UNCHANGED <<verdict, handles, slots, wrong>>

\* FINISH cancels every bridge.
FinishKernel ==
  /\ On("finish")
  /\ Go
  /\ ses' = [s \in Sessions |->
               IF ses[s].k = "run" THEN [ses[s] EXCEPT !.k = "cancelled"] ELSE ses[s]]
  /\ UNCHANGED <<verdict, handles, slots, open, wrong>>

\* The child has exited with status 86.
Exit ==
  /\ On("exit")
  /\ phase' = "finally"
  /\ report' = "passed"
  /\ open' = open \ {Child}
  /\ UNCHANGED <<listeners, at, ses, handles, slots, causes, wrong>>

-----------------------------------------------------------------------------
(* The threads and the bridge between them *)

\* A step of thread or bridge of session s, while main goes through the script.
Acts(s) ==
  /\ phase = "script"
  /\ UNCHANGED <<verdict, phase, at, handles, slots>>

\* The backend thread ends, and closes its listener.
BackendEnds(s, b) ==
  Set(s, "b", b) /\ open' = open \ {<<"listener", s>>}

\* drain_host_socket reads the payload and main compares it.
DrainHost(s) ==
  /\ Acts(s)
  /\ ses[s].b = "drain"
  /\ \/ Set(s, "b", "ok") /\ UNCHANGED wrong
     \/ Set(s, "b", "err") /\ wrong' = wrong \cup {"payload"}
  /\ UNCHANGED <<open, causes>>

\* bridge_client_worker: sendall and shutdown.
ClientSend(s) ==
  /\ Acts(s)
  /\ ses[s].c = "send"
  /\ \/ /\ ses[s].k \in {"run", "clean"}
        /\ ses' = [ses EXCEPT ![s].c = "recv", ![s].up = "sent"]
     \/ ses[s].k \in Gone /\ Set(s, "c", "err")
  /\ UNCHANGED <<open, causes, wrong>>

\* The echo and the end of the stream, or an error.
ClientRecv(s) ==
  /\ Acts(s)
  /\ ses[s].c = "recv"
  /\ \/ ses[s].down = "forwarded" /\ Set(s, "c", "ok") /\ UNCHANGED wrong
     \/ /\ ses[s].down = "forwarded"
        /\ Set(s, "c", "err") /\ wrong' = wrong \cup {"payload"}
     \/ /\ ses[s].down # "forwarded" /\ ses[s].k \in Gone
        /\ Set(s, "c", "err") /\ UNCHANGED wrong
  /\ UNCHANGED <<open, causes>>

\* bridge_backend_worker: accept, and for reset_immediately the end.
BackendAccept(s) ==
  /\ Acts(s)
  /\ ses[s].b = "accept" /\ ses[s].k # "none"
  /\ IF ses[s].mode = "reset" THEN BackendEnds(s, "reset")
     ELSE Set(s, "b", "recv") /\ UNCHANGED open
  /\ UNCHANGED <<causes, wrong>>

\* After the release: the payload up to its end, compared, or an error.
BackendRecv(s) ==
  /\ Acts(s)
  /\ ses[s].b = "recv" /\ ~ses[s].held
  /\ \/ /\ ses[s].up = "forwarded"
        /\ Set(s, "b", "send") /\ UNCHANGED <<open, wrong>>
     \/ /\ ses[s].up = "forwarded" /\ ses[s].k = "run"
        /\ BackendEnds(s, "err") /\ wrong' = wrong \cup {"payload"}
     \/ /\ ses[s].up # "forwarded" /\ ses[s].k \in Gone
        /\ BackendEnds(s, "err") /\ UNCHANGED wrong
  /\ UNCHANGED causes

\* sendall and shutdown.  With the other end gone one of them fails, unless the
\* reset that answers the first segment comes after both.
BackendSend(s) ==
  /\ Acts(s)
  /\ ses[s].b = "send"
  /\ \/ /\ ses[s].k = "run"
        /\ ses' = [ses EXCEPT ![s].b = "ok", ![s].down = "sent"]
        /\ open' = open \ {<<"listener", s>>}
        /\ UNCHANGED causes
     \/ ses[s].k \in Gone /\ BackendEnds(s, "err") /\ UNCHANGED causes
     \/ /\ ses[s].k \in Gone /\ BackendEnds(s, "ok")
        /\ causes' = causes \cup {"late reset"}
  /\ UNCHANGED wrong

\* The bridge forwards the payload and the half-close behind it.
ForwardUp(s) ==
  /\ Acts(s)
  /\ ses[s].k = "run" /\ ses[s].up = "sent" /\ ses[s].c # "reset"
  /\ Set(s, "up", "forwarded")
  /\ UNCHANGED <<open, causes, wrong>>

ForwardDown(s) ==
  /\ Acts(s)
  /\ ses[s].k = "run" /\ ses[s].down = "sent"
  /\ ses' = [ses EXCEPT ![s].down = "forwarded", ![s].k = "clean"]
  /\ UNCHANGED <<open, causes, wrong>>

\* The backend's reset is reported as an ERROR event, unless a recv of the
\* dispatcher comes before the event and takes the error with it.
BackendReset(s) ==
  /\ Acts(s)
  /\ ses[s].k = "run" /\ ses[s].b = "reset"
  /\ \E e \in BOOLEAN :
       /\ EndBridge(s, [ses[s] EXCEPT !.k = "reset", !.error = e])
       /\ causes' = IF e THEN causes ELSE causes \cup {"error taken"}
  /\ UNCHANGED open

PublicReset(s) ==
  /\ Acts(s)
  /\ ses[s].k = "run" /\ ses[s].c = "reset"
  /\ EndBridge(s, [ses[s] EXCEPT !.k = "reset"])
  /\ UNCHANGED <<open, causes>>

-----------------------------------------------------------------------------
(* The end *)

\* The finally clause of the exercise (releases, sockets, SERVICE_STOP), then
\* the handler of main: the child is killed and reaped, but when it has not
\* gone after two seconds the TimeoutExpired is swallowed.  Nobody looks at the
\* daemon threads any more.
Unwind ==
  /\ phase = "unwind"
  /\ phase' = "finally"
  /\ ses' = [s \in Sessions |-> Idle]
  /\ handles' = {}
  /\ open' \in {open \ Sockets, open \ (Sockets \cup {Child})}
  /\ report' = "failed"
  /\ UNCHANGED <<listeners, at, slots, causes, wrong>>

\* A child that survived the reap goes away at last, or never.
KilledEnds ==
  /\ phase \in {"finally", "stderr"}
  /\ Child \in open
  /\ open' = open \ {Child}
  /\ UNCHANGED <<verdict, phase, at, ses, handles, slots, causes, wrong>>

\* main's finally clause: the session of the FINISH test, the TUN, stdin.
Finally ==
  /\ phase = "finally"
  /\ phase' = "stderr"
  /\ open' = open \ (Sockets \cup {Tun})
  /\ UNCHANGED <<verdict, at, ses, handles, slots, causes, wrong>>

\* proc.stderr.read() comes back when the child is gone and has no deadline;
\* then the logs are written, or one of them cannot be.
ReadStderr ==
  /\ phase = "stderr"
  /\ Child \notin open
  /\ phase' = "end"
  /\ \/ UNCHANGED <<causes, report>>
     \/ causes' = causes \cup {"logs"} /\ report' = "failed"
  /\ UNCHANGED <<listeners, at, ses, handles, slots, open, wrong>>

Main ==
  \/ AttachTun \/ Unexpected \/ StartKernel \/ Query \/ SetMtu \/ Oversize
  \/ ConnectOut \/ Listen \/ Accept \/ Write \/ Drained \/ ReadBack \/ Close
  \/ BridgeStart \/ BridgeStarted \/ Ready \/ StartClient \/ WaitClient
  \/ JoinBackend \/ Join \/ JoinTerminal \/ JoinCancelled \/ Pending
  \/ Release \/ Reused \/ Unique \/ Stale \/ Cancel \/ ResetPublic
  \/ StartService \/ DrainService \/ StopService \/ Done \/ FinishKernel
  \/ Exit \/ Unwind \/ Finally \/ ReadStderr

Session(s) ==
  \/ DrainHost(s) \/ ClientSend(s) \/ ClientRecv(s)
  \/ BackendAccept(s) \/ BackendRecv(s) \/ BackendSend(s)
  \/ ForwardUp(s) \/ ForwardDown(s) \/ BackendReset(s) \/ PublicReset(s)

Next == Main \/ KilledEnds \/ \E s \in Sessions : Session(s)

\* Every wait of main ends, at its timeout if not before, but the one for the
\* end of the child's stderr: nothing is asked of KilledEnds.
FairSpec == Init /\ [][Next]_vars /\ WF_vars(Main)

-----------------------------------------------------------------------------
(* Properties *)

TypeOK ==
  /\ phase \in {"tun", "script", "unwind", "finally", "stderr", "end"}
  /\ at \in 1..Len(ScriptOf[listeners])
  /\ \A s \in Sessions :
       /\ ses[s].c \in {"none", "send", "recv", "reset"} \cup Ended
       /\ ses[s].b \in {"none", "drain", "accept", "recv", "send", "reset"} \cup Ended
       /\ ses[s].k \in {"none", "connecting", "run", "clean"} \cup Gone
       /\ ses[s].slot \in 0..Len(generation)
  /\ handles \subseteq {"guest", "listener", "accepted", "service"}
  /\ open \subseteq {Tun, Child, Mtu} \cup Sockets
  /\ causes \subseteq {"kernel", "mtu command", "early reset", "error taken", "late reset",
                     "logs"}
  /\ wrong \subseteq {"payload", "leak"}
  /\ report \in {"none", "passed", "failed"}

\* A test that passes has seen every payload echoed unchanged, no session ended
\* by the end of another one, every socket handle closed or handed over, and
\* every bridge slot given back but that of the session FINISH cancelled.
PassedIsEarned ==
  report = "passed" =>
    /\ wrong = {} /\ handles = {}
    /\ Len(free_slots) = Len(generation) - (IF listeners THEN 1 ELSE 0)

\* A test that fails has a cause outside itself: a hosted kernel that was late
\* or wrong, logs that cannot be written, or one of three races it does not
\* allow for.  Otherwise, however
\* its threads are scheduled, the barriers and slot checks of the exercises
\* raise no false alarm.
NoFalseAlarm == report = "failed" => causes \cup wrong # {}

\* At its end the test holds no descriptor and no child, not even one that
\* outlived its reap, and the MTU of the TUN is what it was unless the command
\* that sets it failed.
NothingLeft ==
  phase = "end" => open \subseteq (IF "mtu command" \in causes THEN {Mtu} ELSE {})

\* The test waits for the end of stderr of a child that SIGKILL has not ended.
WaitsForKilled == phase = "stderr" /\ Child \in open

\* The test comes to its end whatever the hosted kernel does, unless SIGKILL
\* never ends it.
Ends == <>[](phase = "end" \/ WaitsForKilled)
==============================================================================
