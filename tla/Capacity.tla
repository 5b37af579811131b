------------------------------ MODULE Capacity -------------------------------
(***************************************************************************)
(* The capacity driver scripts/run-tcpcc-capacity-discovery.py: discover   *)
(* starts a hosted kernel, climbs a ladder of connection counts, probes    *)
(* the connections, stops the service, and (unless told to skip it) reuses *)
(* the kernel and runs stability rounds against a memory ceiling.  main    *)
(* writes a report with status passed or failed.                           *)
(*                                                                         *)
(* The hosted service accepts, rejects and dies on its own; an answer may  *)
(* come after the driver gave up waiting for it; a backend connection may  *)
(* stay in the driver's accept queue longer than the service that made it. *)
(***************************************************************************)
EXTENDS ControlPipe, SequencesExt, FiniteSetsExt

CONSTANTS
  BRIDGE_SESSION_LIMIT,
  ACCEPT_BATCH,
  MaxRounds,              \* bound on --stability-rounds
  MaxRss,                 \* anonymous RSS is 0..MaxRss units
  Drift,                  \* --stability-drift-kib in those units
  MaxLate                 \* bound on the answers left behind in the pipe

ASSUME CapacityConstants ==
  /\ {BRIDGE_SESSION_LIMIT, ACCEPT_BATCH, MaxLate} \subseteq Nat \ {0}
  /\ {MaxRounds, MaxRss, Drift} \subseteq Nat

VARIABLES
  args,                   \* the command line
  pc,
  phase,                  \* capacity, reuse or round
  level,                  \* index of the target in args.levels
  round,                  \* stability rounds begun
  nofile,                 \* descriptors the driver may open
  clients,                \* number of open client sockets
  queue,                  \* backend connections not accepted yet
  backends,               \* accepted ones, each named by its service
  handle,                 \* service_handle, 0 for None
  svc,                    \* the hosted service
  late,                   \* answers in the pipe nobody waited for
  child,                  \* the hosted process: none, run, zero, fail
  held,                   \* what discover holds; see Resources
  reached,                \* last_successful
  peak,                   \* most flows the first service had at once
  expired,                \* the deadline of the loop at hand is past
  baseline, floors,       \* RSS before the rounds; after each of them
  marks,                  \* what has happened; see Marks
  report                  \* none, passed, failed

vars == <<args, pc, phase, level, round, nofile, clients, queue, backends,
          handle, svc, late, child, held, reached, peak, expired, baseline,
          floors, marks, report>>

\* probe: the probe of the ladder passed.  limit: capacity_failure is set.
\* foreign: a probe passed with a backend of another service.  returned:
\* discover returns a report.  stuck: a killed child did not go away.  nolog:
\* the boot log could not be opened.  skipped: a step of the finally clause
\* raised and the steps behind it did not run.
Marks == {"probe", "limit", "foreign", "returned", "stuck", "nolog", "skipped"}

\* What the finally clause gives back once the child is reaped, in its order.
ReleaseOrder == <<"cgroup", "listener", "tun", "bootlog">>

\* An orphan is a cgroup that place_in_cpu_cgroup made and could not remove:
\* cpu_cgroup stays None and the finally clause does not know of it.
Resources == Range(ReleaseOrder) \cup {"orphan"}

Services == 0..(2 + MaxRounds)
Counts == 0..BRIDGE_SESSION_LIMIT
Args == [levels : SeqOf(0..(BRIDGE_SESSION_LIMIT + 1), 2),
         minimum : 0..(BRIDGE_SESSION_LIMIT + 1), active : Counts,
         rounds : 0..MaxRounds, conns : Counts, skip : BOOLEAN]

\* parse_levels: unique increasing values from 1 through the session limit.
ParseLevels(levels) ==
  /\ levels # <<>>
  /\ \A i \in DOMAIN levels : levels[i] \in 1..BRIDGE_SESSION_LIMIT
  /\ SetToSortSeq(Range(levels), <) = levels

\* The bounds main puts on the other arguments.
ArgsValid(a) ==
  /\ a.minimum \in 1..Last(a.levels)
  /\ a.active \in 1..a.minimum
  /\ a.conns >= 1
  /\ a.rounds > 0 => a.active <= a.conns
  /\ ~(a.skip /\ a.rounds > 0)

\* Descriptors ensure_driver_fd_capacity asks for, without the constant 256.
Required(a) ==
  2 * Max({Last(a.levels)} \cup (IF a.rounds > 0 THEN {a.conns} ELSE {}))

Target ==
  CASE phase = "capacity" -> args.levels[level]
    [] phase = "reuse" -> args.active
    [] phase = "round" -> args.conns

Ceiling == baseline + Drift

NoService == [id |-> 0, up |-> FALSE, pending |-> 0, active |-> 0,
              bad |-> FALSE, ended |-> {}]

Init ==
  /\ args \in Args
  /\ pc = "config"
  /\ phase = "capacity"
  /\ level = 1
  /\ round = 0
  /\ nofile = 0
  /\ clients = 0
  /\ queue = <<>>
  /\ backends = <<>>
  /\ handle = 0
  /\ svc = NoService
  /\ late = <<>>
  /\ child = "none"
  /\ held = {}
  /\ reached = 0
  /\ peak = 0
  /\ expired = FALSE
  /\ baseline = 0
  /\ floors = <<>>
  /\ marks = {}
  /\ report = "none"

config == <<args, nofile>>
progress == <<phase, level, round, reached, baseline, floors>>
sockets == <<clients, queue, backends>>
hosted == <<handle, svc, late, child, peak>>

Goto(l) == pc' = l /\ expired' = FALSE
Again == UNCHANGED <<pc, expired>>

\* An exception leaves the body of discover: its except and finally follow.
Raise == Goto("cleanup")

\* CapacityReached, OSError or TimeoutError: a limit in the ladder if the floor
\* has its backends, an error anywhere else.
Limit ==
  IF phase = "capacity" /\ Len(backends) >= args.minimum
    THEN Goto("floor") /\ marks' = marks \cup {"limit"}
    ELSE Raise /\ UNCHANGED marks

\* One request the hosted kernel answers with a status of sts; Effect(st) is
\* the service after it, Then(r) what the driver does with the outcome.
Transact(op, sts, Effect(_), Then(_)) ==
  \E st \in sts :
    \E r \in Answers([op |-> op, h |-> svc.id, st |-> st], child = "run",
                     late, MaxLate) :
      /\ late' = r.late
      /\ svc' = IF child = "run" THEN Effect(st) ELSE svc
      /\ Then(r)

Same(st) == svc

\* SERVICE_STOP ends the flows of the service: the backend sees the end of each
\* connection, accepted by the driver or not.
Stopped == [NoService EXCEPT !.id = svc.id, !.ended = svc.ended \cup {svc.id}]

\* The driver closes its sockets; what waits in the accept queue stays there.
CloseSockets ==
  /\ clients' = 0
  /\ backends' = <<>>
  /\ UNCHANGED queue

-----------------------------------------------------------------------------
(* main, and discover up to the first service *)

Configure ==
  /\ pc = "config"
  /\ IF ParseLevels(args.levels) /\ ArgsValid(args)
       THEN Goto("fds") /\ UNCHANGED report
       ELSE Goto("end") /\ report' = "failed"
  /\ UNCHANGED <<config, progress, sockets, hosted, held, marks>>

\* The soft limit starts below what is needed and is raised as far as the hard
\* limit goes.
EnsureFds ==
  /\ pc = "fds"
  /\ \E hard \in {Required(args) - 1, Required(args)} :
       /\ nofile' = hard
       /\ Goto(IF hard < Required(args) THEN "write" ELSE "tun")
  /\ UNCHANGED <<args, progress, sockets, hosted, held, marks, report>>

\* create_tun; its two ip commands run without a timeout.
CreateTun ==
  /\ pc = "tun"
  /\ \/ Goto("bootlog") /\ held' = {"tun"}
     \/ Goto("write") /\ UNCHANGED held
  /\ UNCHANGED <<config, progress, sockets, hosted, marks, report>>

\* The boot log is opened before the try statement: if that fails the finally
\* clause does not run.
OpenBootLog ==
  /\ pc = "bootlog"
  /\ \/ Goto("spawn") /\ held' = held \cup {"bootlog"} /\ UNCHANGED marks
     \/ Goto("write") /\ marks' = marks \cup {"nolog"} /\ UNCHANGED held
  /\ UNCHANGED <<config, progress, sockets, hosted, report>>

\* Popen; with --cpu-quota-percent the child is moved into a cgroup of its own,
\* which is removed again when that fails (and that may fail, too); then the
\* driver's TUN descriptor is closed.
Spawn ==
  /\ pc = "spawn"
  /\ \/ Raise /\ UNCHANGED <<child, held>>
     \/ /\ Raise
        /\ child' = "run"
        /\ held' \in {held, held \cup {"orphan"}}
     \/ \E cgroup \in {{}, {"cgroup"}} :
          /\ Goto("attach")
          /\ child' = "run"
          /\ held' = (held \cup cgroup) \ {"tun"}
  /\ UNCHANGED <<config, progress, sockets, handle, svc, late, peak, marks,
                 report>>

\* L3_ATTACH, whose handle may be no interface index; then the listener, whose
\* bind or listen may fail once the socket is there.
Attach ==
  /\ pc = "attach"
  /\ Transact("l3_attach", {"ok", "error"}, Same,
       LAMBDA r : \/ /\ r.kind = "ok"
                     /\ Goto("start") \/ Raise
                     /\ held' = held \cup {"listener"}
                  \/ Raise /\ UNCHANGED held)
  /\ UNCHANGED <<config, progress, sockets, handle, child, peak, marks,
                 report>>

\* start_capacity_service up to LISTEN, then SERVICE_START; the handle is only
\* assigned when the last answer has been read.
Setup ==
  /\ pc = "start"
  /\ Transact("setup", {"ok", "error"}, Same,
       LAMBDA r : IF r.kind = "ok" THEN Goto("service") ELSE Raise)
  /\ UNCHANGED <<config, progress, sockets, handle, child, held, peak, marks,
                 report>>

StartService ==
  /\ pc = "service"
  /\ Transact("service_start", {"ok", "error"},
       LAMBDA st : IF st = "ok" THEN [NoService EXCEPT !.id = svc.id + 1,
                                                       !.up = TRUE,
                                                       !.ended = svc.ended]
                   ELSE svc,
       LAMBDA r : IF r.kind = "ok"
                    THEN /\ Goto(IF phase = "capacity" THEN "ready"
                                 ELSE "connect")
                         /\ handle' = svc.id + 1
                    ELSE Raise /\ UNCHANGED handle)
  /\ UNCHANGED <<config, progress, sockets, child, held, peak, marks, report>>

\* The same for reclaim_stats and decode_reclaim_stats.
ReclaimStatuses == {"ok", "error"}

\* A sample (SERVICE_STATS and RECLAIM_STATS, /proc, the idle gates): it fails
\* or the driver goes on to l.
Observe(l) ==
  Transact("reclaim_stats", ReclaimStatuses, Same,
    LAMBDA r : (r.kind = "ok" /\ Goto(l)) \/ Raise)

ReadySample ==
  /\ pc = "ready"
  /\ Observe("connect")
  /\ UNCHANGED <<config, progress, sockets, handle, child, held, peak, marks,
                 report>>

-----------------------------------------------------------------------------
(* Load: the ladder, the reuse service and the rounds take the same steps *)

\* drain_available_backends, called after every ACCEPT_BATCH connections.
Drained(n) ==
  IF n % ACCEPT_BATCH = 0 THEN Min({Len(queue), n - Len(backends)}) ELSE 0

Connect ==
  /\ pc = "connect"
  /\ clients < Target
  /\ \/ /\ child = "run"
        /\ svc.up
        /\ clients' = clients + 1
        /\ svc' = [svc EXCEPT !.pending = @ + 1]
        /\ LET n == Drained(clients + 1) IN
             /\ backends' = backends \o SubSeq(queue, 1, n)
             /\ queue' = SubSeq(queue, n + 1, Len(queue))
        /\ Again
        /\ UNCHANGED marks
     \/ Limit /\ UNCHANGED <<svc, sockets>>
  /\ UNCHANGED <<config, progress, handle, late, child, held, peak, report>>

Connected ==
  /\ pc = "connect"
  /\ clients >= Target
  /\ Goto("accept")
  /\ UNCHANGED <<config, progress, sockets, hosted, held, marks, report>>

\* accept_backends: the connections are taken in the order of the queue,
\* whichever service they come from.
AcceptBackend ==
  /\ pc = "accept"
  /\ Len(backends) < Target
  /\ child = "run"
  /\ ~expired
  /\ queue # <<>>
  /\ backends' = Append(backends, Head(queue))
  /\ queue' = Tail(queue)
  /\ Again
  /\ UNCHANGED <<config, progress, clients, hosted, held, marks, report>>

\* The target is there, the deadline has passed or the hosted kernel is gone.
AcceptDone ==
  /\ pc = "accept"
  /\ IF Len(backends) = Target
       THEN Goto("wait") /\ UNCHANGED marks
       ELSE (expired \/ child # "run") /\ Limit
  /\ UNCHANGED <<config, progress, sockets, hosted, held, report>>

\* What service_stats can bring: the counters, or an errno or a payload that
\* decode_service_stats refuses, either of which raises.
StatsStatuses == {"ok", "error"}

\* wait_service_active: one turn of the loop, first its conditions.
WaitTurn ==
  /\ pc = "wait"
  /\ IF expired \/ child # "run"
       THEN Limit
       ELSE pc' = "stats" /\ UNCHANGED <<expired, marks>>
  /\ UNCHANGED <<config, progress, sockets, hosted, held, report>>

\* Slip: the deadline of the loop is forgotten.
WaitStatsForever ==
  /\ pc = "stats"
  /\ Transact("service_stats", StatsStatuses, Same,
       LAMBDA r :
         CASE r.kind = "ok" /\ svc.bad -> Limit
           [] r.kind = "ok" /\ ~svc.bad /\ svc.active >= Target ->
                Goto("loaded") /\ UNCHANGED marks
           [] r.kind = "ok" /\ ~svc.bad /\ svc.active < Target ->
                Goto("wait") /\ UNCHANGED marks
           [] r.kind = "timeout" -> Limit
           [] OTHER -> Raise /\ UNCHANGED marks)
  /\ UNCHANGED <<config, progress, sockets, handle, child, held, peak, report>>

\* Then the SERVICE_STATS request.  Its TimeoutError is among the exceptions
\* the ladder takes for a capacity limit, a broken pipe or an error is not.
WaitStats ==
  /\ pc = "stats"
  /\ Transact("service_stats", StatsStatuses, Same,
       LAMBDA r :
         CASE r.kind = "ok" /\ svc.bad -> Limit
           [] r.kind = "ok" /\ ~svc.bad /\ svc.active >= Target ->
                Goto("loaded") /\ UNCHANGED marks
           [] r.kind = "ok" /\ ~svc.bad /\ svc.active < Target ->
                pc' = "wait" /\ UNCHANGED <<expired, marks>>
           [] r.kind = "timeout" -> Limit
           [] OTHER -> Raise /\ UNCHANGED marks)
  /\ UNCHANGED <<config, progress, sockets, handle, child, held, peak, report>>

\* The backends that can still bring a payload.
Alive == {i \in DOMAIN backends : backends[i] \notin svc.ended}

\* active_probe sends a payload over each of the first count clients.
ProbeCount == Min({args.active, clients, Len(backends)})

\* It then reads from all backends until count payloads have come back; one at
\* its end of file is readable from the start and fails the probe.
ProbePasses ==
  /\ child = "run"
  /\ ProbeCount \in 1..Cardinality(Alive)
  /\ Alive = DOMAIN backends

\* Every backend was made by the service under load.
Own == \A i \in DOMAIN backends : backends[i] = svc.id

\* The ladder probes once, at the first level with enough connections; the
\* reuse service and the rounds always do.
Probe ==
  /\ pc = "loaded"
  /\ reached' = IF phase = "capacity" THEN Target ELSE reached
  /\ IF phase = "capacity" /\ ("probe" \in marks \/ Target < args.active)
       THEN Goto("stage") /\ UNCHANGED marks
       ELSE \/ /\ ProbePasses
               /\ Goto("stage")
               /\ marks' = marks \cup {"probe"}
                                 \cup (IF Own THEN {} ELSE {"foreign"})
            \/ Raise /\ UNCHANGED marks
  /\ UNCHANGED <<config, phase, level, round, baseline, floors, sockets,
                 hosted, held, report>>

\* The sample under load.  After it the ladder goes up a level or ends; the
\* reuse service and the rounds close their sockets and stop.
Stage ==
  /\ pc = "stage"
  /\ Observe(IF phase # "capacity" THEN "stop"
             ELSE IF level < Len(args.levels) THEN "connect" ELSE "floor")
  /\ level' = IF pc' = "connect" THEN level + 1 ELSE level
  /\ IF pc' = "stop" THEN CloseSockets ELSE UNCHANGED sockets
  /\ UNCHANGED <<config, phase, round, reached, baseline, floors, handle,
                 child, held, peak, marks, report>>

\* Slip: the floor is left to the test a limit makes, which counts backends.
CheckFloorByBackends ==
  /\ pc = "floor"
  /\ IF "probe" \notin marks \/ child # "run"
       THEN Raise /\ UNCHANGED sockets
       ELSE Goto("stop") /\ CloseSockets
  /\ UNCHANGED <<config, progress, hosted, held, marks, report>>

\* After the ladder: the floor, the probe and the hosted kernel are checked and
\* the sockets closed.
CheckFloor ==
  /\ pc = "floor"
  /\ IF \/ reached < args.minimum
        \/ "probe" \notin marks
        \/ child # "run"
       THEN Raise /\ UNCHANGED sockets
       ELSE Goto("stop") /\ CloseSockets
  /\ UNCHANGED <<config, progress, hosted, held, marks, report>>

\* SERVICE_STOP ends the service, its flows included; dirty is an answer whose
\* counters the driver refuses.  A round also refuses rejected flows.
StopService ==
  /\ pc = "stop"
  /\ Transact("service_stop", {"ok", "dirty", "error"},
       LAMBDA st : IF st = "error" THEN svc
                   ELSE Stopped,
       LAMBDA r : IF r.kind \in {"ok", "dirty"}
                    THEN /\ handle' = 0
                         /\ IF r.kind = "dirty" \/ (phase = "round" /\ svc.bad)
                              THEN Raise
                              ELSE Goto("sample")
                    ELSE Raise /\ UNCHANGED handle)
  /\ UNCHANGED <<config, progress, sockets, child, held, peak, marks, report>>

-----------------------------------------------------------------------------
(* The memory lifecycle *)

\* The samples after a stop.
AfterStop ==
  /\ pc = "sample"
  /\ Observe(CASE phase = "capacity" /\ args.skip -> "shutdown"
               [] phase = "capacity" /\ ~args.skip -> "reclaim"
               [] phase = "reuse" -> "rounds"
               [] phase = "round" -> "settle")
  /\ UNCHANGED <<config, progress, sockets, handle, child, held, peak, marks,
                 report>>

\* The reclaim observation is telemetry: it samples until half of the load is
\* recovered or the deadline has passed, and either will do.
Reclaim ==
  /\ pc = "reclaim"
  /\ \/ Observe("windows")
     \/ /\ ~expired
        /\ Transact("reclaim_stats", {"ok"}, Same,
             LAMBDA r : r.kind = "ok" /\ Again)
  /\ UNCHANGED <<config, progress, sockets, handle, child, held, peak, marks,
                 report>>

\* Two idle windows; the second one gives the baseline of the rounds.
IdleWindows ==
  /\ pc = "windows"
  /\ Observe("start")
  /\ phase' = IF pc' = "start" THEN "reuse" ELSE phase
  /\ \E rss \in 0..MaxRss :
       baseline' = IF pc' = "start" THEN rss ELSE baseline
  /\ UNCHANGED <<config, level, round, reached, floors, sockets, handle, child,
                 held, peak, marks, report>>

NextRound ==
  /\ pc = "rounds"
  /\ IF round < args.rounds
       THEN Goto("start") /\ phase' = "round" /\ round' = round + 1
       ELSE Goto("summary") /\ UNCHANGED <<phase, round>>
  /\ UNCHANGED <<config, level, reached, baseline, floors, sockets, hosted,
                 held, marks, report>>

\* After a round the driver samples until the memory is back below the ceiling;
\* past the deadline, or with the hosted kernel gone, the round has failed.
Settle ==
  /\ pc = "settle"
  /\ IF expired \/ child # "run"
       THEN Raise /\ UNCHANGED <<svc, late>>
       ELSE \E rss \in 0..MaxRss :
              Transact("reclaim_stats", ReclaimStatuses, Same,
                LAMBDA r : IF r.kind # "ok" THEN Raise
                           ELSE IF rss <= Ceiling THEN Goto("idle")
                           ELSE Again)
  /\ UNCHANGED <<config, progress, sockets, handle, child, held, peak, marks,
                 report>>

\* The floor of the round is the memory after one more idle window.
RoundIdle ==
  /\ pc = "idle"
  /\ \/ \E rss \in 0..MaxRss :
          IF rss <= Ceiling
            THEN Goto("rounds") /\ floors' = Append(floors, rss)
            ELSE Raise /\ UNCHANGED floors
     \/ child # "run" /\ Raise /\ UNCHANGED floors
  /\ UNCHANGED <<config, phase, level, round, reached, baseline, sockets,
                 hosted, held, marks, report>>

\* summarize_stability over the floors of all rounds.
StabilityPassed ==
  /\ Len(floors) = args.rounds
  /\ Max(Range(floors) \cup {baseline}) <= Ceiling

Summarize ==
  /\ pc = "summary"
  /\ IF args.rounds > 0 => StabilityPassed THEN Goto("shutdown") ELSE Raise
  /\ UNCHANGED <<config, progress, sockets, hosted, held, marks, report>>

Shutdown ==
  /\ pc = "shutdown"
  /\ Transact("shutdown", {"ok", "error"}, Same,
       LAMBDA r : IF r.kind = "ok" THEN Goto("await") ELSE Raise)
  /\ UNCHANGED <<config, progress, sockets, handle, child, held, peak, marks,
                 report>>

\* wait(timeout=15): status 0 is the only way discover returns.
AwaitExit ==
  /\ pc = "await"
  /\ \/ child = "zero" /\ Raise /\ marks' = marks \cup {"returned"}
     \/ child = "fail" /\ Raise /\ UNCHANGED marks
     \/ child = "run" /\ expired /\ Raise /\ UNCHANGED marks
  /\ UNCHANGED <<config, progress, sockets, hosted, held, report>>

-----------------------------------------------------------------------------
(* The finally clause of discover, and the end of main *)

\* The sockets are closed and a service that is still there is asked to stop;
\* the answer does not matter.
Cleanup ==
  /\ pc = "cleanup"
  /\ CloseSockets
  /\ Goto("reap")
  /\ IF handle # 0
       THEN Transact("service_stop", {"ok", "error"},
              LAMBDA st : IF st = "error" THEN svc
                          ELSE Stopped,
              LAMBDA r : TRUE)
       ELSE UNCHANGED <<svc, late>>
  /\ UNCHANGED <<config, progress, handle, child, held, peak, marks, report>>

\* An exception leaves the finally clause: the steps behind it are skipped, and
\* it takes the place of the report discover was about to return.
RaiseSkipping(why) ==
  Goto("write") /\ marks' = (marks \ {"returned"}) \cup why

\* stop_process: SIGTERM, then SIGKILL, to the process group.  The wait raises
\* if even that leaves it running, and so does killpg if it has gone meanwhile.
StopProcess ==
  /\ pc = "reap"
  /\ \/ /\ child' = IF child = "run" THEN "fail" ELSE child
        /\ Goto("release")
        /\ UNCHANGED marks
     \/ /\ child = "run"
        /\ \/ RaiseSkipping({"stuck"}) /\ UNCHANGED child
           \/ RaiseSkipping({"skipped"}) /\ child' = "fail"
  /\ UNCHANGED <<config, progress, sockets, handle, svc, late, peak, held,
                 report>>

\* Slip: an error in the release is swallowed.
ReleaseSwallow ==
  /\ pc = "release"
  /\ held \cap Range(ReleaseOrder) # {}
  /\ LET x == SelectSeq(ReleaseOrder, LAMBDA y : y \in held)[1] IN
       \/ held' = held \ {x} /\ Again /\ UNCHANGED marks
       \/ /\ held' = IF x = "cgroup" THEN held ELSE held \ {x}
          /\ Goto("write") /\ marks' = marks \cup {"skipped"}
  /\ UNCHANGED <<config, progress, sockets, hosted, report>>

\* The next of the steps behind stop_process.  remove_cpu_cgroup lets every
\* error but FileNotFoundError through and the cgroup stays; a close that
\* raises has given its descriptor back.
Release ==
  /\ pc = "release"
  /\ held \cap Range(ReleaseOrder) # {}
  /\ LET x == SelectSeq(ReleaseOrder, LAMBDA y : y \in held)[1] IN
       \/ held' = held \ {x} /\ Again /\ UNCHANGED marks
       \/ /\ held' = IF x = "cgroup" THEN held ELSE held \ {x}
          /\ RaiseSkipping({"skipped"})
  /\ UNCHANGED <<config, progress, sockets, hosted, report>>

Released ==
  /\ pc = "release"
  /\ held \cap Range(ReleaseOrder) = {}
  /\ Goto("write")
  /\ UNCHANGED <<config, progress, sockets, hosted, held, marks, report>>

\* main checks the boot log of a run that returned and writes the report.
WriteReport ==
  /\ pc = "write"
  /\ \/ "returned" \in marks /\ report' = "passed"
     \/ report' = "failed"
  /\ Goto("end")
  /\ UNCHANGED <<config, progress, sockets, hosted, held, marks>>

-----------------------------------------------------------------------------
(* The hosted service, the hosted process and the clock *)

ServiceAccepts ==
  /\ child = "run"
  /\ svc.pending > 0
  /\ svc' = [svc EXCEPT !.pending = @ - 1, !.active = @ + 1]
  /\ queue' = Append(queue, svc.id)
  /\ peak' = IF svc.id = 1 THEN Max({peak, svc.active + 1}) ELSE peak
  /\ UNCHANGED <<config, progress, pc, expired, clients, backends, handle,
                 late, child, held, marks, report>>

ServiceRejects ==
  /\ child = "run"
  /\ svc.pending > 0
  /\ svc' = [svc EXCEPT !.pending = @ - 1, !.bad = TRUE]
  /\ UNCHANGED <<config, progress, pc, expired, sockets, handle, late, child,
                 peak, held, marks, report>>

\* The hosted kernel goes down when told to, or fails at any time.
ChildExits ==
  /\ child = "run"
  /\ child' \in IF pc = "await" THEN {"zero", "fail"} ELSE {"fail"}
  /\ UNCHANGED <<config, progress, pc, expired, sockets, handle, svc, late,
                 peak, held, marks, report>>

Expire ==
  /\ pc \in {"accept", "wait", "stats", "reclaim", "settle", "await"}
  /\ ~expired
  /\ expired' = TRUE
  /\ UNCHANGED <<config, progress, pc, sockets, hosted, held, marks, report>>

\* The steps of the driver that come to an end by themselves or at a deadline.
Bounded ==
  \/ Configure \/ EnsureFds \/ OpenBootLog \/ Spawn \/ Attach
  \/ Setup \/ StartService \/ ReadySample
  \/ Connect \/ Connected \/ AcceptBackend \/ AcceptDone \/ WaitTurn
  \/ WaitStats \/ Probe \/ Stage \/ CheckFloor \/ StopService
  \/ AfterStop \/ Reclaim \/ IdleWindows \/ NextRound \/ Settle \/ RoundIdle
  \/ Summarize \/ Shutdown \/ AwaitExit
  \/ Cleanup \/ StopProcess \/ Release \/ Released \/ WriteReport

Driver == CreateTun \/ Bounded

Next == Driver \/ ServiceAccepts \/ ServiceRejects \/ ChildExits \/ Expire

Spec == Init /\ [][Next]_vars

\* The driver moves on where it waits with a deadline, and so does the clock.
\* Nothing is asked of the ip commands of create_tun, which have none, and
\* nothing of the hosted kernel.
FairSpec == Spec /\ WF_vars(Bounded) /\ WF_vars(Expire)

-----------------------------------------------------------------------------
(* Properties *)

\* Every piece of the driver's state has the shape its code gives it; the pipe
\* holds no more late answers than requests that timed out.
TypeOK ==
  /\ args \in Args
  /\ phase \in {"capacity", "reuse", "round"}
  /\ level \in Nat /\ round \in 0..MaxRounds
  /\ nofile \in Nat
  /\ clients \in Counts
  /\ Range(queue) \cup Range(backends) \subseteq Services
  /\ handle \in Services
  /\ svc \in [id : Services, up : BOOLEAN, pending : Counts, active : Counts,
              bad : BOOLEAN, ended : SUBSET Services]
  /\ Len(late) <= MaxLate
  /\ child \in {"none", "run", "zero", "fail"}
  /\ held \subseteq Resources
  /\ reached \in Counts /\ peak \in Counts
  /\ expired \in BOOLEAN
  /\ baseline \in 0..MaxRss /\ Range(floors) \subseteq 0..MaxRss
  /\ marks \subseteq Marks
  /\ report \in {"none", "passed", "failed"}

\* A report with status passed (discover and main) is earned: the reported
\* number of connections meets --minimum and was really active at one time,
\* the probes ran over backends of their own service, every service was
\* stopped, no answer is left in the control pipe, the hosted kernel ended with
\* status 0, and all stability rounds ended at or below the ceiling.
PassedIsEarned ==
  report = "passed" =>
    /\ args.minimum <= reached /\ reached <= peak
    /\ "probe" \in marks /\ "foreign" \notin marks
    /\ handle = 0 /\ ~svc.up /\ late = <<>>
    /\ child = "zero"
    /\ ~args.skip => /\ svc.id = 2 + args.rounds
                     /\ Len(floors) = args.rounds
                     /\ \A i \in DOMAIN floors : floors[i] <= Ceiling

\* The sockets of the driver never exceed the descriptor limit that
\* ensure_driver_fd_capacity arranged, neither in the ladder nor in the rounds.
WithinDescriptors ==
  pc \notin {"config", "fds", "write", "end"} =>
    clients + Len(backends) <= nofile

\* When discover is left its sockets are closed; the hosted process runs only
\* if SIGKILL did not end it; a cgroup, listener, boot log or TUN descriptor is
\* left only if the boot log could not be opened or a step of the finally
\* clause raised; and a run that reports passed has left none of all these,
\* whichever step of the clause failed.
CleanupComplete ==
  pc \in {"write", "end"} =>
    /\ clients = 0 /\ backends = <<>>
    /\ child = "run" => "stuck" \in marks
    /\ held \ {"orphan"} # {} => marks \cap {"stuck", "nolog", "skipped"} # {}
    /\ report = "passed" => held = {} /\ child = "zero"

\* Both: the driver keeps to its descriptors and leaves nothing behind.
DriverResources == WithinDescriptors /\ CleanupComplete

\* The driver ends, whatever the hosted kernel does, unless an ip command of
\* create_tun never does: every other wait of discover has a deadline.
DriverEnds == <>[](pc \in {"tun", "end"})
==============================================================================
