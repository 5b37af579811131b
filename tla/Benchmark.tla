------------------------------ MODULE Benchmark ------------------------------
(***************************************************************************)
(* The high-BDP harness scripts/run-tcpcc-high-bdp-iperf.py: benchmark     *)
(* builds three network namespaces, starts two iperf servers and two tcpcc *)
(* supervisors, measures four cases in rotating order, stops the           *)
(* supervisors, checks the events they wrote, and writes a report.  Its    *)
(* finally clause stops what it started.  A process may die at any time.   *)
(***************************************************************************)
EXTENDS Integers, Sequences, FiniteSets, SequencesExt

CONSTANT MaxRepetitions   \* bound on iperf.repetitions, at least 3

CASES == <<"native_cubic", "native_bbr", "tcpcc_cubic", "tcpcc_bbr">>
TCPCC_CASES == <<"tcpcc_cubic", "tcpcc_bbr">>
SERVERS == <<"native", "backend">>
NAMESPACES == <<"server", "wan", "client">>

VARIABLES
  repetitions,            \* scenario.repetitions
  trace,                  \* args.packet_trace
  pc,
  at,                     \* position in the loop at hand
  namespaces,             \* those that exist
  proc,                   \* none, run, zero or fail, per process
  registered,             \* tcpcc_processes
  measured,               \* measurements, in the order they were made
  stats,                  \* service-stats event of each supervisor
  spoiled,                \* supervisors with a flow the doc calls a failure
  gates,                  \* checks on the shaped path that passed
  stuck,                  \* a cleanup step raised
  report                  \* none, passed, failed

vars == <<repetitions, trace, pc, at, namespaces, proc, registered, measured,
          stats, spoiled, gates, stuck, report>>

Processes == Range(SERVERS) \cup Range(TCPCC_CASES) \cup {"tcpdump"}
PathGates == {"ack loss", "data loss", "server fq", "client fq"}
Errnos == {"none", "epipe", "econnreset", "other"}

scenario == <<repetitions, trace>>

Goto(l) == pc' = l /\ at' = 1

\* A command of run fails or takes too long, a wait times out: the finally
\* clause follows.
Raise == Goto("stop_tcpcc")

Init ==
  /\ repetitions \in 3..MaxRepetitions
  /\ trace \in BOOLEAN
  /\ pc = "prepare"
  /\ at = 1
  /\ namespaces = {}
  /\ proc = [p \in Processes |-> "none"]
  /\ registered = {}
  /\ measured = <<>>
  /\ stats = [c \in Range(TCPCC_CASES) |-> [failures |-> 0, last |-> "none"]]
  /\ spoiled = {}
  /\ gates = {}
  /\ stuck = FALSE
  /\ report = "none"

-----------------------------------------------------------------------------
(* Setting up *)

\* A step before the try statement, that goes on or ends with nothing to clean
\* up.
Requires(l, next) ==
  /\ pc = l
  /\ Goto(next) \/ Goto("end")
  /\ UNCHANGED <<scenario, namespaces, proc, registered, measured, stats,
                 spoiled, gates, stuck, report>>

\* Root, the tools and the kernel image.
Prepare == Requires("prepare", "scenario")

\* parse_scenario takes the file, with repetitions as in Init, or refuses it.
LoadScenario == Requires("scenario", "namespaces")

AddNamespace ==
  /\ pc = "namespaces"
  /\ \/ /\ namespaces' = namespaces \cup {NAMESPACES[at]}
        /\ IF at < Len(NAMESPACES) THEN at' = at + 1 /\ UNCHANGED pc
           ELSE Goto("topology")
     \/ Raise /\ UNCHANGED namespaces
  /\ UNCHANGED <<scenario, proc, registered, measured, stats, spoiled, gates,
                 stuck, report>>

\* A part of the set-up that goes on or raises.
Sets(l, next) ==
  /\ pc = l
  /\ Goto(next) \/ Raise
  /\ UNCHANGED <<scenario, namespaces, proc, registered, measured, stats,
                 spoiled, gates, stuck, report>>

\* The links with their addresses and routes, and the sysctls.
BuildTopology == Sets("topology", "shape")

\* Both congestion controls are there, cubic is the default; fq and netem.
ShapePath == Sets("shape", "ping")

PingPath == Sets("ping", "environment")

CollectEnvironment == Sets("environment", "server")

StartServer ==
  /\ pc = "server"
  /\ \/ /\ proc' = [proc EXCEPT ![SERVERS[at]] = "run"]
        /\ pc' = "listener"
        /\ UNCHANGED at
     \/ Raise /\ UNCHANGED proc
  /\ UNCHANGED <<scenario, namespaces, registered, measured, stats, spoiled,
                 gates, stuck, report>>

\* wait_listener sees the port, or the server die, or ten seconds pass.
WaitListener ==
  /\ pc = "listener"
  /\ \/ /\ proc[SERVERS[at]] = "run"
        /\ IF at < Len(SERVERS) THEN at' = at + 1 /\ pc' = "server"
           ELSE Goto("tcpcc")
     \/ Raise
  /\ UNCHANGED <<scenario, namespaces, proc, registered, measured, stats,
                 spoiled, gates, stuck, report>>

StartTcpccCase ==
  /\ pc = "tcpcc"
  /\ \/ /\ proc' = [proc EXCEPT ![TCPCC_CASES[at]] = "run"]
        /\ pc' = "ready"
        /\ UNCHANGED at
     \/ Raise /\ UNCHANGED proc
  /\ UNCHANGED <<scenario, namespaces, registered, measured, stats, spoiled,
                 gates, stuck, report>>

\* wait_tcpcc_ready: the ready event may be read from a supervisor that has
\* died since.  Only after it does benchmark get to know the process.
WaitReady ==
  /\ pc = "ready"
  /\ \/ /\ registered' = registered \cup {TCPCC_CASES[at]}
        /\ IF at < Len(TCPCC_CASES) THEN at' = at + 1 /\ pc' = "tcpcc"
           ELSE Goto("outer")
     \/ Raise /\ UNCHANGED registered
  /\ UNCHANGED <<scenario, namespaces, proc, measured, stats, spoiled, gates,
                 stuck, report>>

\* The hosted stacks have left the default of the outer namespace alone.
CheckOuterCc == Sets("outer", "measure")

-----------------------------------------------------------------------------
(* Measuring *)

\* Slip: the second part of the rotation is one case too long.
OrderLong(i) ==
  SubSeq(CASES, i + 1, Len(CASES)) \o
  SubSeq(CASES, 1, IF i + 1 <= Len(CASES) THEN i + 1 ELSE Len(CASES))

\* order = CASES[round_index:] + CASES[:round_index]; a slice past the end is
\* cut off.
Order(i) ==
  SubSeq(CASES, i + 1, Len(CASES)) \o
  SubSeq(CASES, 1, IF i <= Len(CASES) THEN i ELSE Len(CASES))

\* The cases in the order the two loops take them.
Schedule == FlattenSeq([i \in 1..repetitions |-> Order(i - 1)])

\* What the hosted service counts when a flow ends with errno e: last_error is
\* that of the last flow that failed (service.c).  Above repetitions + 1 the
\* counter makes no difference.
Count(s, e) ==
  IF e = "none" THEN s
  ELSE [failures |-> IF s.failures > repetitions THEN s.failures
                     ELSE s.failures + 1,
        last |-> e]

\* One iperf run through a supervisor is a control and a data flow.  iperf
\* resets the data flow; the control flow closes cleanly unless something is
\* wrong.
Flows(c, control, data) ==
  /\ stats' = [stats EXCEPT ![c] = Count(Count(@, control), data)]
  /\ spoiled' = IF control # "none" \/ data = "other"
                  THEN spoiled \cup {c} ELSE spoiled

\* run_iperf_measurement starts with the packet capture, if there is to be one;
\* a tcpdump that ends within the first moments is an error.
StartCapture ==
  /\ pc = "measure"
  /\ at <= Len(Schedule)
  /\ \/ /\ proc' = [proc EXCEPT !["tcpdump"] = IF trace THEN "run" ELSE "none"]
        /\ pc' = "iperf"
        /\ UNCHANGED at
     \/ trace /\ Raise /\ UNCHANGED proc
  /\ UNCHANGED <<scenario, namespaces, registered, measured, stats, spoiled,
                 gates, stuck, report>>

\* One iperf client, through a supervisor or straight to the native server.  It
\* fails or takes too long if one of them is gone, and may do so anyway.
Measure ==
  /\ pc = "iperf"
  /\ LET c == Schedule[at] IN
       \/ /\ IF c \in Range(TCPCC_CASES)
               THEN /\ proc[c] = "run" /\ proc["backend"] = "run"
                    /\ \E control \in {"none", "other"} :
                         \E data \in {"none", "epipe", "other"} :
                           Flows(c, control, data)
               ELSE proc["native"] = "run" /\ UNCHANGED <<stats, spoiled>>
          /\ pc' = "measured"
       \/ pc' = "aborted" /\ UNCHANGED <<stats, spoiled>>
  /\ UNCHANGED <<scenario, gates, at, namespaces, proc, registered, measured,
                 stuck, report>>

\* parse_iperf_document takes what iperf wrote, or refuses it.
Record ==
  \/ /\ pc = "measured"
     /\ measured' = Append(measured, Schedule[at])
     /\ pc' = "measure"
     /\ at' = at + 1
  \/ Raise /\ UNCHANGED measured

\* stop_packet_capture, in a finally clause of its own.  The status of a tcpdump
\* that SIGINT ended, or that ended by itself, is 0 (or SIGINT) or an error; one
\* that had to be killed is an error, and one that survives that, too.
StopCapture ==
  /\ pc \in {"measured", "aborted"}
  /\ \/ /\ proc' = [proc EXCEPT !["tcpdump"] = "none"]
        /\ Record
        /\ UNCHANGED stuck
     \/ /\ proc["tcpdump"] # "none"
        /\ proc' = [proc EXCEPT !["tcpdump"] = "fail"]
        /\ Raise
        /\ UNCHANGED <<measured, stuck>>
     \/ /\ proc["tcpdump"] = "run"
        /\ stuck' = TRUE
        /\ Raise
        /\ UNCHANGED <<proc, measured>>
  /\ UNCHANGED <<scenario, namespaces, registered, stats, spoiled, gates,
                 report>>

\* SIGTERM to both supervisors.
Terminate ==
  /\ pc = "measure"
  /\ at > Len(Schedule)
  /\ Goto("collect")
  /\ UNCHANGED <<scenario, namespaces, proc, registered, measured, stats,
                 spoiled, gates, stuck, report>>

\* wait(timeout=20) for each; a status other than 0 is an error.
Collect ==
  /\ pc = "collect"
  /\ \/ /\ proc[TCPCC_CASES[at]] = "zero"
        /\ IF at < Len(TCPCC_CASES) THEN at' = at + 1 /\ UNCHANGED pc
           ELSE Goto("qdisc")
     \/ proc[TCPCC_CASES[at]] # "zero" /\ Raise
  /\ UNCHANGED <<scenario, namespaces, proc, registered, measured, stats,
                 spoiled, gates, stuck, report>>

-----------------------------------------------------------------------------
(* Judging *)

\* validate_tcpcc_events on the counters of the service-stats event.
ContractHolds(s) ==
  /\ s.failures <= repetitions
  /\ s.last \in {"none", "epipe", "econnreset"}

\* collect_qdisc_observations: a qdisc that is not the configured one is an
\* error; the losses and drops it has counted are gates of the report.
CollectQdisc ==
  /\ pc = "qdisc"
  /\ \/ /\ gates' \in {PathGates} \cup {PathGates \ {g} : g \in PathGates}
        /\ Goto("validate")
     \/ Raise /\ UNCHANGED gates
  /\ UNCHANGED <<scenario, namespaces, proc, registered, measured, stats,
                 spoiled, stuck, report>>

\* validate_tcpcc_events for the supervisors in turn: whatever else it does not
\* find in the events is an error, too.
Validate ==
  /\ pc = "validate"
  /\ \/ /\ ContractHolds(stats[TCPCC_CASES[at]])
        /\ pc' = "removed"
        /\ UNCHANGED at
     \/ Raise
  /\ UNCHANGED <<scenario, namespaces, proc, registered, measured, stats,
                 spoiled, gates, stuck, report>>

\* assert_tcpcc_resources_removed: its TUN and its table are gone.
CheckRemoved ==
  /\ pc = "removed"
  /\ \/ IF at < Len(TCPCC_CASES) THEN at' = at + 1 /\ pc' = "validate"
        ELSE Goto("judge")
     \/ Raise
  /\ UNCHANGED <<scenario, namespaces, proc, registered, measured, stats,
                 spoiled, gates, stuck, report>>

\* summarize_measurements: the gate on the number of measurements of each case.
RepetitionsMet ==
  \A c \in Range(CASES) :
    Cardinality({i \in DOMAIN measured : measured[i] = c}) = repetitions

\* The gates on the goodput of the cases, met or not.
GoodputMet == BOOLEAN

\* The report is written with the verdict over all gates.
Judge ==
  /\ pc = "judge"
  /\ \E goodput \in GoodputMet :
       report' = IF RepetitionsMet /\ gates = PathGates /\ goodput
                   THEN "passed" ELSE "failed"
  /\ Goto("stop_tcpcc")
  /\ UNCHANGED <<scenario, namespaces, proc, registered, measured, stats,
                 spoiled, gates, stuck>>

-----------------------------------------------------------------------------
(* The finally clause *)

\* stop_process: SIGTERM, then SIGKILL.  A wait that still raises ends the
\* clause.
Stop(p, l) ==
  \/ /\ proc' = [proc EXCEPT ![p] = IF @ = "run" THEN "fail" ELSE @]
     /\ Goto(l)
     /\ UNCHANGED stuck
  \/ /\ proc[p] = "run"
     /\ stuck' = TRUE
     /\ Goto("end")
     /\ UNCHANGED proc

StopTcpcc ==
  /\ pc = "stop_tcpcc"
  /\ IF \E c \in registered : proc[c] = "run"
       THEN LET c == CHOOSE c \in registered : proc[c] = "run"
            IN  Stop(c, "stop_tcpcc")
       ELSE Goto("stop_backend") /\ UNCHANGED <<proc, stuck>>
  /\ UNCHANGED <<scenario, namespaces, registered, measured, stats, spoiled,
                 gates, report>>

StopServer ==
  /\ \/ pc = "stop_backend" /\ Stop("backend", "stop_native")
     \/ pc = "stop_native" /\ Stop("native", "delete")
  /\ UNCHANGED <<scenario, namespaces, registered, measured, stats, spoiled,
                 gates, report>>

\* ip netns delete in reverse order; the exit status is not looked at, but a
\* command that takes 30 seconds raises.
DeleteNamespaces ==
  /\ pc = "delete"
  /\ \/ namespaces' = {} /\ UNCHANGED stuck
     \/ stuck' = TRUE /\ UNCHANGED namespaces
  /\ Goto("end")
  /\ UNCHANGED <<scenario, proc, registered, measured, stats, spoiled, gates,
                 report>>

-----------------------------------------------------------------------------

\* A process ends by itself; a supervisor that was told to may end with 0.
ProcessEnds(p) ==
  /\ pc # "end"
  /\ proc[p] = "run"
  /\ \E status \in {"fail"} \cup
       (IF p \in registered /\ pc = "collect" THEN {"zero"} ELSE {}) :
       proc' = [proc EXCEPT ![p] = status]
  /\ UNCHANGED <<scenario, pc, at, namespaces, registered, measured, stats,
                 spoiled, gates, stuck, report>>

Harness ==
  \/ Prepare \/ LoadScenario
  \/ AddNamespace \/ BuildTopology \/ ShapePath \/ PingPath
  \/ CollectEnvironment \/ StartServer \/ WaitListener
  \/ StartTcpccCase \/ WaitReady \/ CheckOuterCc
  \/ StartCapture \/ Measure \/ StopCapture \/ Terminate \/ Collect
  \/ CollectQdisc \/ Validate \/ CheckRemoved \/ Judge \/ StopTcpcc \/ StopServer
  \/ DeleteNamespaces

Next == Harness \/ \E p \in Processes : ProcessEnds(p)

Spec == Init /\ [][Next]_vars

-----------------------------------------------------------------------------
(* Properties *)

\* Every piece of the harness's state has its shape.
TypeOK ==
  /\ repetitions \in 3..MaxRepetitions
  /\ at \in Nat
  /\ namespaces \subseteq Range(NAMESPACES)
  /\ proc \in [Processes -> {"none", "run", "zero", "fail"}]
  /\ registered \subseteq Range(TCPCC_CASES)
  /\ \A c \in Range(TCPCC_CASES) : stats[c].last \in Errnos
  /\ trace \in BOOLEAN
  /\ gates \subseteq PathGates
  /\ stuck \in BOOLEAN
  /\ report \in {"none", "passed", "failed"}

\* After every complete round of the loops of benchmark each case has been
\* measured once more, and in the first four rounds each case has had each
\* place of the order at most once.
Balanced ==
  LET n == Len(CASES)
      Places(c) == {i \in DOMAIN measured : measured[i] = c} IN
  /\ Len(measured) % n = 0 =>
       \A c \in Range(CASES) : Cardinality(Places(c)) = Len(measured) \div n
  /\ \A c \in Range(CASES) : \A i, j \in Places(c) :
       i # j /\ i <= n * n /\ j <= n * n => i % n # j % n

\* A report says passed only if every case was measured as often as the
\* scenario asks, both supervisors ended with status 0 and their service
\* statistics keep the contract.
ReportEarned ==
  report = "passed" =>
    /\ RepetitionsMet
    /\ gates = PathGates
    /\ \A c \in Range(TCPCC_CASES) :
         proc[c] = "zero" /\ ContractHolds(stats[c])

\* At the end nothing is left behind, unless a cleanup step raised, but for a
\* supervisor whose ready event was never seen: start_tcpcc_case has not
\* returned it, so the finally clause cannot stop it.
NothingLeft ==
  pc = "end" /\ ~stuck =>
    /\ namespaces = {}
    /\ \A p \in Processes : proc[p] = "run" =>
         p \in Range(TCPCC_CASES) \ registered /\ report = "none"

\* The document on the harness says that the control flow must close cleanly
\* and that cancellation or another terminal errno is always a failure.
TerminalErrnoIsFailure == report = "passed" => spoiled = {}
==============================================================================
