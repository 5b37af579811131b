---------------------------- MODULE HostedRuntime ----------------------------
(***************************************************************************)
(* The Python supervisor (tools/tcpcc_cli.py) with its control client      *)
(* (tools/tcpcc_control.py): run_service takes the host lease, starts the  *)
(* hosted kernel, serves connections by polling it over one pair of pipes, *)
(* and takes everything down again.                                        *)
(*                                                                         *)
(* A control response carries its operation and no sequence number.  A     *)
(* request that timed out leaves its answer in the pipe (late), where the  *)
(* next transact finds it.  The hosted kernel may exit, a bridge may end   *)
(* and a signal may come between any two steps.                            *)
(***************************************************************************)
EXTENDS HostConfig, ControlPipe, FiniteSets

CONSTANTS
  MaxAccepts,             \* bound on the connections a behaviour accepts
  MaxLate                 \* bound on the answers left behind in the pipe

VARIABLES
  net, opt,               \* the command line: addresses; options
  missing,                \* the prerequisite the host lacks, or None
  pc,
  lease,                  \* HostNetworkLease: none, held, closed, broken
  child,                  \* the hosted process: none, run, zero, fail
  step,                   \* requests of start() answered so far
  active,                 \* active_bridges
  todo,                   \* handles a for loop has left
  late,                   \* answers in the pipe nobody waited for
  hosted,                 \* what the hosted kernel holds
  flags                   \* what has happened; see Flags

vars == <<net, opt, missing, pc, lease, child, step, active, todo, late,
          hosted, flags>>

\* stop: ShutdownSignals.requested.  primary: an exception ended the service.
\* failed: a cleanup failure was collected.  ready: the ready event was sent.
\* running: process_was_running.  stuck: a killed child did not go away.
\* expired: the drain deadline is past.  confused: an answer to an earlier
\* request was taken for the answer to a later one.  refused: the command line
\* or the host did not pass.
Flags == {"stop", "primary", "failed", "ready", "running", "stuck", "expired",
          "confused", "refused"}

Handles == 1..MaxAccepts

StartOps == <<"l3_attach", "socket", "set_cc", "get_cc", "bind", "listen">>
Ops == {"l3_attach", "socket", "set_cc", "get_cc", "bind", "listen", "close",
        "accept", "bridge_start", "join", "cancel", "shutdown"}

\* ok; again is EAGAIN; etimedout is ETIMEDOUT; error any other errno; bad a
\* well-formed answer the caller's own validation refuses.
Statuses == {"ok", "again", "etimedout", "error", "bad"}
Messages == [op : Ops, h : 0..MaxAccepts, st : Statuses]

-----------------------------------------------------------------------------
(* The hosted kernel, as far as the supervisor's requests change it *)

\* What a request does to the hosted kernel, whether or not its answer is read.
Effect(m) ==
  CASE m.op = "accept" /\ m.st = "ok" -> [hosted EXCEPT !.sockets = @ + 1]
    [] m.op = "bridge_start" /\ m.st \in {"ok", "bad"} ->
         [hosted EXCEPT !.sockets = @ - 1, !.used = @ + 1,
                        !.bridges = @ \cup {m.h}]
    [] m.op = "close" /\ m.h # 0 /\ hosted.sockets > 0 ->
         [hosted EXCEPT !.sockets = @ - 1]
    [] m.op = "cancel" ->
         [hosted EXCEPT !.ended = @ \cup ({m.h} \cap hosted.bridges)]
    [] m.op = "join" /\ m.st \in {"ok", "bad"} ->
         [hosted EXCEPT !.bridges = @ \ {m.h}, !.ended = @ \ {m.h}]
    [] OTHER -> hosted

\* The answers a join of h can get now.
JoinStatuses(h) ==
  IF h \notin hosted.bridges THEN {"error"}
  ELSE IF h \in hosted.ended THEN {"ok", "bad"} ELSE {"etimedout"}

-----------------------------------------------------------------------------
(* ControlClient.transact *)

\* One request with handle h that the hosted kernel may answer with any of sts,
\* and what the caller does with the outcome.
Transact(op, h, sts, Then(_)) ==
  \E st \in sts :
    LET m == [op |-> op, h |-> h, st |-> st] IN
    \E r \in Answers(m, child = "run", late, MaxLate) :
      /\ late' = r.late
      /\ hosted' = IF child = "run" THEN Effect(m) ELSE hosted
      /\ Then(r)

Note(r, fs) ==
  flags' = flags \cup fs \cup (IF r.stale THEN {"confused"} ELSE {})

still == <<net, opt, missing, lease, child, step>>

Init ==
  /\ net \in NetChoices
  /\ opt \in OptChoices
  /\ net \in {DefaultNet(4), DefaultNet(6)} \/ opt = DefaultOpt
  /\ missing = None
  /\ pc = "config"
  /\ lease = "none"
  /\ child = "none"
  /\ step = 0
  /\ active = {}
  /\ todo = {}
  /\ late = <<>>
  /\ hosted = [bridges |-> {}, ended |-> {}, sockets |-> 0, used |-> 0]
  /\ flags = {}

Goto(l) == pc' = l

-----------------------------------------------------------------------------
(* Before the hosted kernel runs *)

\* The command line is refused with nothing changed, or run_service begins.
ParseArguments ==
  /\ pc = "config"
  /\ Goto(IF Accepts(net, opt) THEN "preflight" ELSE "end")
  /\ IF Accepts(net, opt)
       THEN \E m \in Prerequisites \cup {None} : missing' = m
       ELSE UNCHANGED missing
  /\ flags' = IF Accepts(net, opt) THEN flags
              ELSE flags \cup {"primary", "refused"}
  /\ UNCHANGED <<net, opt, lease, child, step, active, todo, late, hosted>>

\* What is read again once the host is taken: the limits.
Limits == [DefaultOpt EXCEPT !.max = opt.max,
                             !.grace = IF opt.grace > 0 THEN 5 ELSE 0]

\* acquire_host_network begins with the preflight.
Preflight ==
  /\ pc = "preflight"
  /\ IF PreflightOk(opt, net.listen.v, Prerequisites \ {missing})
       THEN Goto("acquire") /\ UNCHANGED flags
       ELSE Goto("end") /\ flags' = flags \cup {"primary", "refused"}
  /\ UNCHANGED <<net, opt, missing, lease, child, step, active, todo, late,
                 hosted>>

\* The rest of acquire_host_network is module HostLease: the lease or nothing.
AcquireLease ==
  /\ pc = "acquire"
  /\ \/ /\ lease' = "held"
        /\ Goto(IF "stop" \in flags THEN "lease" ELSE "spawn")
        /\ UNCHANGED flags
     \/ Goto("end") /\ flags' = flags \cup {"primary"} /\ UNCHANGED lease
  /\ net' = DefaultNet(4)
  /\ opt' = Limits
  /\ missing' = None
  /\ UNCHANGED <<child, step, active, todo, late, hosted>>

\* Popen, with the TUN fd passed on.
Spawn ==
  /\ pc = "spawn"
  /\ \/ child' = "run" /\ Goto("starting") /\ UNCHANGED flags
     \/ /\ Goto("lease")
        /\ flags' = flags \cup {"primary"}
        /\ UNCHANGED child
  /\ UNCHANGED <<net, opt, missing, lease, step, active, todo, late, hosted>>

\* The next of the six requests of start(); the last one leads to the second
\* look at the stop request.
StartStep ==
  /\ pc = "starting"
  /\ Transact(StartOps[step + 1], 0, {"ok", "error", "bad"}, LAMBDA r :
       IF r.kind # "ok"
         THEN Goto("shutdown") /\ Note(r, {"primary"}) /\ UNCHANGED step
         ELSE /\ step' = step + 1
              /\ Note(r, IF step + 1 = Len(StartOps) /\ "stop" \notin flags
                           THEN {"ready"} ELSE {})
              /\ Goto(IF step + 1 < Len(StartOps) THEN "starting"
                      ELSE IF "stop" \in flags THEN "shutdown" ELSE "serve"))
  /\ UNCHANGED <<net, opt, missing, lease, child, active, todo>>

-----------------------------------------------------------------------------
(* serve *)

\* while not stop.requested, _ensure_running, and the handles to reap.
Poll ==
  /\ pc = "serve"
  /\ IF "stop" \in flags THEN Goto("shutdown") /\ UNCHANGED <<flags, todo>>
     ELSE IF child # "run"
       THEN /\ Goto("shutdown")
            /\ flags' = flags \cup {"primary"}
            /\ UNCHANGED todo
     ELSE Goto("reap") /\ todo' = active /\ UNCHANGED flags
  /\ UNCHANGED <<still, active, late, hosted>>

\* _join_bridge_result: a result or an errno other than ETIMEDOUT gives the
\* handle up; ETIMEDOUT and an exception keep it.
Joined(h, r) ==
  IF r.kind \in {"ok", "again", "error"} THEN active \ {h} ELSE active

JoinRaises(r) == r.kind \in {"bad", "timeout", "protocol", "broken"}

Reap ==
  /\ pc = "reap"
  /\ \E h \in todo :
       Transact("join", h, JoinStatuses(h), LAMBDA r :
         /\ active' = Joined(h, r)
         /\ IF JoinRaises(r)
              THEN Goto("shutdown") /\ Note(r, {"primary"}) /\ todo' = {}
              ELSE UNCHANGED pc /\ Note(r, {}) /\ todo' = todo \ {h})
  /\ UNCHANGED still

Reaped ==
  /\ pc = "reap"
  /\ todo = {}
  /\ Goto("accept")
  /\ UNCHANGED <<still, active, todo, late, hosted, flags>>

Room == opt.max = 0 \/ Cardinality(active) < opt.max

\* The head of _accept_available's loop, when the limit is reached.
AcceptFull ==
  /\ pc = "accept"
  /\ ~Room
  /\ Goto("serve")
  /\ UNCHANGED <<still, active, todo, late, hosted, flags>>

\* ACCEPT_NONBLOCK: no connection ends the round, another errno or an exception
\* the service.
AcceptCall(sts) ==
  /\ pc = "accept"
  /\ Room
  /\ Transact("accept", 0, sts, LAMBDA r :
       IF r.kind = "again" THEN Goto("serve") /\ Note(r, {})
       ELSE IF r.kind = "ok" THEN Goto("verify") /\ Note(r, {})
       ELSE Goto("shutdown") /\ Note(r, {"primary"}))
  /\ UNCHANGED <<still, active, todo>>

\* No connection is waiting.
AcceptEmpty == AcceptCall({"again"})

Accept ==
  \/ AcceptEmpty
  \/ AcceptCall({"error", "bad"})
  \/ hosted.used + hosted.sockets < MaxAccepts /\ AcceptCall({"ok"})

\* _verify_cc of the accepted socket.
VerifyAccepted ==
  /\ pc = "verify"
  /\ Transact("get_cc", 0, {"ok", "error", "bad"}, LAMBDA r :
       IF r.kind = "ok" THEN Goto("bridge") /\ Note(r, {})
       ELSE Goto("closeAccepted") /\ Note(r, {"primary"}))
  /\ UNCHANGED <<still, active, todo>>

\* BRIDGE_START.  An errno rejects this connection and the loop goes on; any
\* other failure ends the service.  Either way the socket is closed first.
StartBridge ==
  /\ pc = "bridge"
  /\ Transact("bridge_start", hosted.used + 1, {"ok", "error", "bad"},
       LAMBDA r :
       IF r.kind = "ok"
         THEN /\ active' = active \cup {r.h}
              /\ Goto("accept")
              /\ Note(r, {})
         ELSE /\ Goto("closeAccepted")
              /\ Note(r, IF OperationError(r) THEN {} ELSE {"primary"})
              /\ UNCHANGED active)
  /\ UNCHANGED <<still, todo>>

\* Slip: the finally clause is missing, a rejected connection is not closed.
CloseAcceptedSkipped ==
  /\ pc = "closeAccepted"
  /\ Goto(IF "primary" \in flags THEN "shutdown" ELSE "accept")
  /\ UNCHANGED <<still, active, todo, late, hosted, flags>>

\* The finally clause: whatever comes of the close, even a timeout, is only
\* reported; then the loop goes on or the exception does.
CloseAccepted ==
  /\ pc = "closeAccepted"
  /\ Transact("close", 1, {"ok"}, LAMBDA r :
       /\ Goto(IF "primary" \in flags THEN "shutdown" ELSE "accept")
       /\ Note(r, {}))
  /\ UNCHANGED <<still, active, todo>>

-----------------------------------------------------------------------------
(* shutdown *)

\* process.poll(), then the three ways on.
Shutdown ==
  /\ pc = "shutdown"
  /\ flags' = flags \cup (IF child = "run" THEN {"running"} ELSE {})
                   \cup (IF child = "fail" THEN {"failed"} ELSE {})
  /\ Goto(IF child = "run" /\ step >= 1 THEN "closeListener" ELSE "force")
  /\ UNCHANGED <<still, active, todo, late, hosted>>

\* The listener, if start() got one; then _drain_bridges begins.
CloseListener ==
  /\ pc = "closeListener"
  /\ IF step < 2 THEN UNCHANGED <<late, hosted, flags>>
     ELSE Transact("close", 0, {"ok"}, LAMBDA r :
            Note(r, IF r.kind = "ok" THEN {} ELSE {"failed"}))
  /\ Goto(IF active = {} \/ opt.grace <= 0 THEN "cancel" ELSE "drain")
  /\ todo' = active
  /\ UNCHANGED <<still, active>>

\* One join of the drain.  Its exceptions end the drain, not the shutdown.
Drain ==
  /\ pc = "drain"
  /\ "expired" \notin flags
  /\ \E h \in todo :
       Transact("join", h, JoinStatuses(h), LAMBDA r :
         /\ active' = Joined(h, r)
         /\ Note(r, IF JoinRaises(r) THEN {"failed"} ELSE {})
         /\ IF JoinRaises(r) THEN Goto("cancel") /\ todo' = active'
            ELSE UNCHANGED pc /\ todo' = todo \ {h})
  /\ UNCHANGED still

\* Slip: the rounds go on until no bridge is left, whatever the clock says.
DrainRoundForever ==
  /\ pc = "drain"
  /\ todo = {} \/ "expired" \in flags
  /\ Goto(IF active = {} THEN "cancel" ELSE "drain")
  /\ todo' = active
  /\ UNCHANGED <<still, active, late, hosted, flags>>

\* The round is over or the deadline past: another round, or on.
DrainRound ==
  /\ pc = "drain"
  /\ todo = {} \/ "expired" \in flags
  /\ Goto(IF active = {} \/ "expired" \in flags THEN "cancel" ELSE "drain")
  /\ todo' = active
  /\ UNCHANGED <<still, active, late, hosted, flags>>

\* The deadline of the drain passes.
Expire ==
  /\ pc = "drain"
  /\ flags' = flags \cup {"expired"}
  /\ UNCHANGED <<still, pc, active, todo, late, hosted>>

\* BRIDGE_CANCEL for every bridge left; ENOENT is fine.
Cancel ==
  /\ pc = "cancel"
  /\ \E h \in todo :
       Transact("cancel", h, {"ok"}, LAMBDA r :
         /\ Note(r, IF r.kind = "ok" THEN {} ELSE {"failed"})
         /\ todo' = todo \ {h})
  /\ UNCHANGED <<still, pc, active>>

Cancelled ==
  /\ pc = "cancel"
  /\ todo = {}
  /\ Goto("join")
  /\ todo' = active
  /\ UNCHANGED <<still, active, late, hosted, flags>>

\* The last join of every bridge.  The handle is given up in any case.
FinalJoin ==
  /\ pc = "join"
  /\ \E h \in todo :
       Transact("join", h, JoinStatuses(h), LAMBDA r :
         /\ active' = active \ {h}
         /\ Note(r, IF JoinRaises(r) \/ r.kind = "etimedout"
                      THEN {"failed"} ELSE {})
         /\ todo' = todo \ {h})
  /\ UNCHANGED <<still, pc>>

\* OP_SHUTDOWN once no handle is left; then process.wait, or the exception.
SendShutdown ==
  /\ pc = "join"
  /\ todo = {}
  /\ Transact("shutdown", 0, {"ok", "error"}, LAMBDA r :
       IF r.kind = "ok" THEN Goto("wait") /\ Note(r, {})
       ELSE Goto("force") /\ Note(r, {"failed"}))
  /\ UNCHANGED <<still, active, todo>>

\* Slip: the exit status of the child is not looked at.
WaitChildAnyStatus ==
  /\ pc = "wait"
  /\ Goto("force")
  /\ UNCHANGED <<still, active, todo, late, hosted, flags>>

\* The child is gone with its status, or the wait times out.
WaitChild ==
  /\ pc = "wait"
  /\ Goto("force")
  /\ flags' = IF child = "zero" THEN flags ELSE flags \cup {"failed"}
  /\ UNCHANGED <<still, active, todo, late, hosted>>

\* Slip: the finally clause only stops a child that never got its device.
ForceStopUnattached ==
  /\ pc = "force"
  /\ child' = IF child = "run" /\ step = 0 THEN "fail" ELSE child
  /\ Goto("lease")
  /\ UNCHANGED <<net, opt, missing, lease, step, active, todo, late, hosted,
                 flags>>

\* _force_stop: SIGTERM, two seconds, SIGKILL, two more.  A process the kernel
\* cannot end makes the second wait raise.  Then both pipes are closed.
ForceStop ==
  /\ pc = "force"
  /\ \/ /\ child' = IF child = "run" THEN "fail" ELSE child
        /\ UNCHANGED flags
     \/ /\ child = "run"
        /\ flags' = flags \cup {"failed", "stuck"}
        /\ UNCHANGED child
  /\ Goto("lease")
  /\ UNCHANGED <<net, opt, missing, lease, step, active, todo, late, hosted>>

\* lease.close, after the runtime whatever it raised.
CloseLease ==
  /\ pc = "lease"
  /\ \/ lease' = "closed" /\ UNCHANGED flags
     \/ lease' = "broken" /\ flags' = flags \cup {"failed"}
  /\ Goto("end")
  /\ UNCHANGED <<net, opt, missing, child, step, active, todo, late, hosted>>

-----------------------------------------------------------------------------
(* What the supervisor does not decide *)

\* SIGINT or SIGTERM, once the handlers are installed; the first one counts.
Signal ==
  /\ pc \notin {"config", "end"}
  /\ "stop" \notin flags
  /\ flags' = flags \cup {"stop"}
  /\ UNCHANGED <<still, pc, active, todo, late, hosted>>

BridgeEnds ==
  /\ child = "run"
  /\ \E h \in hosted.bridges \ hosted.ended :
       hosted' = [hosted EXCEPT !.ended = @ \cup {h}]
  /\ UNCHANGED <<still, pc, active, todo, late, flags>>

\* The hosted kernel exits, asked to or not.  Nobody will read what is in the
\* pipe: the next write fails first.
ChildExits ==
  /\ child = "run"
  /\ child' \in {"zero", "fail"}
  /\ late' = <<>>
  /\ UNCHANGED <<net, opt, missing, pc, lease, step, active, todo, hosted,
                 flags>>

Supervisor ==
  \/ ParseArguments \/ Preflight \/ AcquireLease \/ Spawn \/ StartStep
  \/ Poll \/ Reap \/ Reaped \/ AcceptFull \/ Accept \/ VerifyAccepted
  \/ StartBridge \/ CloseAccepted
  \/ Shutdown \/ CloseListener \/ Drain \/ DrainRound \/ Cancel \/ Cancelled
  \/ FinalJoin \/ SendShutdown \/ WaitChild \/ ForceStop \/ CloseLease

Next == Supervisor \/ Expire \/ Signal \/ BridgeEnds \/ ChildExits

Spec == Init /\ [][Next]_vars

\* The supervisor is one thread, every transact and wait has a timeout, and
\* the clock moves.
FairSpec == Spec /\ WF_vars(Supervisor) /\ WF_vars(Expire)

-----------------------------------------------------------------------------
(* Properties *)

\* The supervisor's state has the shape run_service and HostedKernelRuntime give
\* it, and the pipe holds no more late answers than requests that timed out.
TypeOK ==
  /\ missing \in Prerequisites \cup {None}
  /\ pc \in {"config", "preflight", "acquire", "spawn", "starting", "serve",
             "reap", "accept", "verify", "bridge", "closeAccepted",
             "shutdown", "closeListener", "drain", "cancel", "join", "wait",
             "force", "lease", "end"}
  /\ lease \in {"none", "held", "closed", "broken"}
  /\ child \in {"none", "run", "zero", "fail"}
  /\ step \in 0..Len(StartOps)
  /\ active \subseteq Handles /\ todo \subseteq Handles
  /\ Len(late) <= MaxLate /\ \A i \in DOMAIN late : late[i] \in Messages
  /\ hosted.ended \subseteq hosted.bridges /\ hosted.bridges \subseteq Handles
  /\ hosted.sockets \in 0..MaxAccepts /\ hosted.used \in 0..MaxAccepts
  /\ flags \subseteq Flags

\* The checks before the host changes are exact.  A command line goes on if and
\* only if it describes an ingress path that makes sense, in particular none
\* that encode_l3_config or encode_ip_endpoint would refuse with the firewall
\* already changed; and a host passes if and only if it has every command,
\* library and setting that this backend and IP version will use.
ChecksExact ==
  /\ pc = "preflight" => Sensible(net, opt) /\ Encodable(net)
  /\ pc = "acquire" => missing \notin Uses(opt, net.listen.v)
  /\ "refused" \in flags =>
       IF missing = None THEN ~Sensible(net, opt)
                         ELSE missing \in Uses(opt, net.listen.v)

\* "stopped clean" can be believed: every answer was the answer to its own
\* request, the hosted kernel ended with status 0, the lease was closed without
\* a failure, and no session was left unless the hosted kernel had ended by
\* itself before shutdown() looked at it.
CleanStop ==
  pc = "end" /\ "ready" \in flags /\ flags \cap {"primary", "failed"} = {} =>
    /\ "confused" \notin flags
    /\ child = "zero"
    /\ lease = "closed"
    /\ "running" \in flags => hosted.bridges = {} /\ hosted.sockets = 0

\* An answer left over from a request that timed out is never taken for the
\* answer to another request unless the service is already going down with an
\* error: the operation in the response is enough to notice.
NoStaleAnswer ==
  "confused" \in flags => flags \cap {"primary", "failed"} # {}

\* While it serves and no answer is outstanding, the supervisor's set of
\* bridges is the hosted kernel's, rejected connections are closed, and the
\* configured limit holds.
BooksAgree ==
  /\ opt.max > 0 => Cardinality(active) <= opt.max
  /\ pc \in {"serve", "accept"} /\ late = <<>> /\ child = "run" =>
       active = hosted.bridges /\ hosted.sockets = 0

\* The host lease is given up after the hosted kernel, which holds the other
\* end of its device, is gone, unless even SIGKILL did not end it.
HostedEndsFirst ==
  [][lease = "held" /\ lease' # "held"
       => child # "run" \/ "stuck" \in flags]_vars

\* A signal ends the service, with the lease closed or reported, whatever the
\* hosted kernel answers or fails to answer.  The condition is on the clients:
\* _accept_available goes on as long as connections are waiting.
StopEnds ==
  SF_vars(AcceptEmpty) => ("stop" \in flags ~> pc = "end")

\* Both: a stop ends, and in the right order.
StopsInOrder == StopEnds /\ HostedEndsFirst
==============================================================================
