# A TLA+ verification of tcpcc

This directory models the concurrent parts of tcpcc, checks them with TLC on
small instances, and proves some of the results for every instance with TLAPS.
`PROJECT.json` is the index: components, runs, the mutants that show each
property can fail, the map from definitions to source lines, hazards, findings
and theorems.

## 1. The system

tcpcc puts a Linux TCP stack, compiled as a userspace program, in front of
backends on the same host.

```
 client ── TUN ── l3net.c ── Linux TCP ── service.c ── bridge.c ── host socket ── backend
            │                                 │
      DNAT rules                          control.c
            │                                 │ stdin / stdout records
            └───────── tcpcc_cli.c, tcpcc_process.c, tcpcc_control.c
```

| Part | Source | Role |
|---|---|---|
| Supervisor | `native/tcpcc_cli.c`, `tcpcc_process.c`, `tcpcc_control.c`, `tcpcc_event.c` | Opens the TUN, installs one DNAT policy per route, starts the hosted kernel as a child, configures it, waits for a signal or the child's death, undoes everything. |
| Control channel | `kernel/control.c` | A thread that executes one request after the other and answers it. |
| Service | `kernel/service.c` | One thread accepts on all listeners, starts a bridge session per connection, reaps finished ones; drained and stopped by the control thread. |
| Bridge | `kernel/bridge.c` | One dispatcher thread forwards bytes of all sessions between the public (hosted) and the host socket. |
| L3 device | `kernel/l3net.c` | One I/O thread moves packets between the TUN and the hosted stack. |
| Events | `kernel/irq.c`, `kernel/host.c` | Edge-triggered epoll, read by the idle loop, delivered as interrupts or runtime events. |
| Memory | `kernel/reclaim.c`, `initmem.c` | Returns free hosted memory to the host. |
| Glue | `kernel/process.c`, `setup.c`, `time.c`, `compat*.c`, `net.c`, ... | Boot, threads, timers, address configuration, self-tests. |
| Configuration | `native/tcpcc_config.c`, `tcpcc_cli.c:198-747` | TOML and command line. |
| Python supervisor | `tools/tcpcc_cli.py`, `tcpcc_control.py`, `tcpcc_host.py` | The earlier supervisor and the library of the test tools: takes a host lease, starts the hosted kernel, polls it for connections over one pair of pipes. |
| Test tools | `scripts/run-tcpcc-capacity-discovery.py`, `run-tcpcc-high-bdp-iperf.py`, `run-tcpcc-tun-test.py` | The capacity driver, the benchmark and the functional test, run by the CI and by hand. |
| Scripts | the rest of `scripts/`, `benchmarks/`, `upstream/`, `patches/` | Other tests, build, packaging. |

(`kernel/` stands for `linux-overlay/arch/tcpcc/kernel/`.)

The hosted kernel runs on one processor without preemption: a thread keeps it
until it sleeps. The models give it up more often than the code does (an
interrupt, a callback or a peer may act between any two steps of a thread that
use different host calls), so that the models have more behaviours than the code
and not fewer. `HostEvents` is the exception, since there the order in which idle
and the threads run is the point.
The host (peers, TUN, epoll) really runs in parallel.

## 2. Modules

| Module | Lines | Models | State and actions |
|---|---|---|---|
| `Bridge` | 697 | data plane of `bridge.c` | `phase`, `status`, `ready`, `buffer_waiters`, `buffer_bytes`, `readable`, `writable`, the flows and the two sockets of each session. `disp` is the place of the dispatcher; one action per place (`TakeReady`, `PumpBegin`, `TakeReadable`, `RecvData`, `Send`, `ShutdownSink`, `Fail`, `PumpEnd`, ...). |
| `BridgeRegistry` | 530 | control plane of `bridge.c` | `slots` with generations, `free_slots`, `active`, `retired`, the event queue, the dispatcher's life, and `caller`, the one holder of the control lock in start, join or cancel. |
| `HostEvents` | 289 | runtime events of `irq.c`, their readers in `bridge.c` and `control.c` | `queue` and its `completion`, the notifier, the idle loop (`IdleWait`), the dispatcher that polls, sleeps, starts and stops, and the backend probe. |
| `Service` | 569 | `service.c` | `state`, `draining`, `stopping`, `ready_list`, `bridges`, counters, the service thread and the control thread, which meet at two locks. |
| `L3Net` | 495 | `l3net.c` | `tx_queue`, `tx_pending`, `pending_events`, `flags`, what an attachment has `acquired`, the I/O thread, epoll's `interest` and `edges`. |
| `Supervisor` | 627 | `tcpcc_cli.c` (main and what it calls), `tcpcc_process.c`, `tcpcc_control.c`, the control thread as peer | `pc` of main, `rules` in the firewall, `tun`, the child and its exit, requests and answers in the pipes, elapsed units of time, and `life`: supervisors that follow each other after a SIGKILL. |
| `Lease` | 62 | what a host lease promises | abstract: an instance is idle, holds its whole ingress path, is done or dead. |
| `HostLease` | 521 | `acquire_host_network` and `HostNetworkLease.close` of `tcpcc_host.py` | per supervisor: place, pid, TUN, firewall objects, ownership journal, what failed. Listing, classification, dry run, TUN with its name retries, nft table or iptables chain, rollback, close, SIGKILL, an operator who cleans up. |
| `HostConfig` | 218 | option checks of `tcpcc_cli.py`, preflight of `tcpcc_host.py` | operators only: which command lines and which hosts are accepted. |
| `ControlPipe` | 57 | `ControlClient.transact` of `tcpcc_control.py` | operators only: a call, its answer, and the answer a timeout leaves behind. |
| `HostedRuntime` | 520 | `run_service` and `HostedRuntime` of `tcpcc_cli.py` | the chosen options, the lease, the child, start-up operations, the active bridges against the hosted kernel's own, late answers, shutdown. |
| `Capacity` | 709 | the capacity driver | arguments, phase, ladder level, client and backend sockets by the service that made them, the hosted service, memory floors, the resources its finally clause gives back one by one, the report. |
| `Benchmark` | 424 | the high-BDP harness | namespaces, processes, the order of measurements, service statistics, the gates, the report. |
| `TunTest` | 704 | the functional TUN test | the script of exercises, each session's client thread, backend thread and bridge, slots with generations, handles, the report. |
| `BridgeProofs`, `L3NetProofs`, `HostEventsProofs`, `SupervisorProofs`, `HostLeaseProofs` | | theorems | see section 5 |
| `MC*` | | instances for TLC | `MCBridgePool` puts `HostEvents` beside `Bridge`, `MCHarness` chooses one of the three test tools. |

How the components meet:

* `HostLease` implements `Lease`: `LeaseImplemented` is `L!Spec` under a
  refinement mapping that takes a transaction for one step at the moment it
  succeeds. `HostedRuntime` uses a lease as the four states `none`, `held`,
  `closed`, `broken`.
* `HostedRuntime` and `Capacity` extend the same `ControlPipe`, and
  `HostedRuntime` extends `HostConfig`, whose checks guard its first steps.
* `Bridge` starts where `BridgeRegistry`'s start ends (running, four flags set,
  queued); `BridgeRegistry` leaves open what a pump does except that it keeps a
  session running or finishes it. `StopFinishes` of `Bridge` is what lets
  `BridgeRegistry` assume that a stopped session is finished.
* `HostEvents` leaves open what a round does, and `Bridge` and `BridgeRegistry`
  take an event as delivered once it was queued; `NoLostWakeup` of `HostEvents`
  is what they rely on. In `bridge_pool` the two are checked in one run, on
  disjoint variables: it is a shared run, not a composition.
* `Service` sees a session start (with delay, or failing), finish, be cancelled
  and be joined once, as `BridgeRegistry` promises (`NoStaleName`,
  `CallsReturn`).
* `Supervisor` sees the hosted kernel through requests and answers;
  `StopReturns` of `Service` is what SERVICE_STOP relies on.

Only the first two are checked by a tool. The others are by reading.

Sockets, epoll, the TUN, the firewall commands, other processes and process
calls are external: they are modelled from the way the code uses them and marked
so in the map. Data is abstracted: bytes are counted (they are in order by
construction of a stream socket), packets are numbered, addresses are classes
that the validators tell apart, payloads are right or wrong.

## 3. Runs

All passing runs are exhaustive on their instance. `CHECK_DEADLOCK FALSE` is
given in every configuration, since each system may come to rest: all sessions
done, all connections served, the supervisor gone, a test ended, or a bound used
up.

| Run | Distinct states | Instance | Shows |
|---|---|---|---|
| `bridge_pool` | 592k | 2 sessions, pool of one buffer, round budget 1; 2 bridges and a probe on a queue of 2, up to 3 events in the sleeps of the dispatcher | `NoLostBufferWakeup`, `NoLostDispatch`, `EventsSound` |
| `bridge_one` | 205k | 1 session, 2 and 1 bytes, pool smaller than two buffers, resets, failed allocations, cancel, reap | `TypeOK`, `PoolExact`, `Delivery`, `NoUseAfterFree`, `Finishes` |
| `registry` | 285k | 2 slots of 2 generations, 3 starts, every failure | `TypeOK`, `RegistrySound`, `CallsEnd` |
| `service` | 243k | 2 listeners, 2 connections, limit 1, every failure and timeout | `TypeOK`, `BooksExact`, `QueueSound`, `ServiceEnds` |
| `l3` | 190k | 6 packets, queue 3, watermark 2, budget 1, every failure but a failing read | `TypeOK`, `QueueControl`, `IoSound`, `TeardownLeavesNothing`, `L3Progress` |
| `supervisor` | 274k | 2 routes, iptables, 2 lives, all faults but the failing pidfd | `TypeOK`, `NothingSurvives`, `PolicySound`, `NoStaleAnswer`, `SignalEnds` |
| `host_lease` | 242k | 2 supervisors, 2 pids, 2 device names, both firewalls, any command failing before or after it took effect | `LeaseSound`, `ScanVerdict`, `LeaseImplemented`, `TransactionsEnd` |
| `hosted_runtime` | 296k | every command line at the limits of its options, 3 connections, limit 2, up to 3 late answers | `TypeOK`, `ChecksExact`, `CleanStop`, `NoStaleAnswer`, `BooksAgree`, `StopsInOrder` |
| `harness` | 712k | session limit 2 in the ladder, one stability round, 3 repetitions, 3 connections in the capacity exercise | `PassedIsEarned`, `DriverSound`, `BenchmarkSound`, `TunTestSound`, `HarnessEnds` |

Each property is stated in words above its definition. Some are conjunctions
that name what belongs together:

| Property | Is |
|---|---|
| `EventsSound` | `EventsTypeOK`, `QueueExact`, `QueueBounded`, `NoLostWakeup`, `EventsKept` |
| `Delivery` | `BytesConserved`, `NoStall`, `CleanFinish` |
| `Finishes` | `StopFinishes`, `AllFinish` |
| `RegistrySound` | `SlotsConsistent`, `NoStaleName`, `NoUseAfterFree` |
| `CallsEnd` | `CallsReturn`, `CancelLeavesNothing` |
| `BooksExact` | `Accounting`, `DrainedIsEmpty` |
| `QueueSound` | `ReadyListSound`, `NoLostWork` |
| `ServiceEnds` | `StopReturns`, `StopLeavesNothing`, `EveryConnectionServed` |
| `IoSound` | `TxInOrder`, `NoLostIo` |
| `L3Progress` | `TxProgress`, `TeardownEnds`, `NoEmptyRound` |
| `NothingSurvives` | `ExitLeavesNothing`, `CleanExitIsClean`, `NoOrphan` |
| `PolicySound` | `ReadyIsWhole`, `TeardownOrder` |
| `LeaseSound` | `TypeOK` of `HostLease`, `NoBlackHole` |
| `StopsInOrder` | `StopEnds`, `HostedEndsFirst` |
| `DriverSound` | `TypeOK`, `WithinDescriptors`, `CleanupComplete` of `Capacity` |
| `BenchmarkSound` | `TypeOK`, `Balanced`, `ReportEarned`, `NothingLeft` of `Benchmark` |
| `TunTestSound` | `TypeOK`, `PassedIsEarned`, `NoFalseAlarm`, `NothingLeft` of `TunTest` |

Each property of a run has a mutant in `PROJECT.json`: a plausible slip in the
code (operators commented `Slip:`) under which TLC finds the property violated.
For a conjunction that is one slip, which breaks one of its conjuncts.

**Bounds.** They are the smallest at which the hard cases happen.

* Bridge: a pool that cannot serve all flows, a write that is only partly taken
  and a round that ends with sessions left, hence one buffer for two sessions,
  two bytes through a socket of two, budgets of one and two.
* Event queue: a queue of 2 with `MaxSlept` 3: it fills while the dispatcher
  sleeps, and the handler panics.
* Registry: a slot that is used again with events and handles of its former
  session about, and generations that wrap: three starts may all use one slot
  of two generations.
* Service: full, with a connection waiting while another listener is ready.
* Device: passes its limit and comes down through its watermark, and a round
  ends on its budget.
* Supervisor: a second route, so that a failure leaves the first installed, and
  a second life, which finds what the first left. A timeout of two units
  separates an answer in time, one at the deadline and one that is late.
* Host lease: two supervisors that may share a pid after a death, two names so
  that one can be taken, two attempts so that they run out.
* Python supervisor: one connection more than the limit, and late answers of
  several requests in the pipe at once.
* Test tools: ladders up to the session limit and arguments one past it; as many
  repetitions as the benchmark asks for at least; three connections in the
  capacity exercise of the TUN test.

`MaxStarts`, `MaxTx`, `MaxRx`, `Conn`, `Supply`, `MaxLives`, `QUEUE_LIMIT` of the
registry, `WORK_LIMIT`, `MaxSlept`, `MaxAccepts`, `MaxLate`, `MaxRounds`, `MaxRss`,
`Drift` and `MaxRepetitions` bound what the code does not; the other constants are the
code's own limits made small.

**Symmetry** is used over the sessions of `bridge_pool`, which no action tells
apart, and in no run with a liveness property.

**What a run leaves out.** `l3` has no failing read: an error other than EAGAIN
ends a round with packets left, which are read when the next one arrives, so
the part of `NoLostIo` about reads is stated without it. `NoStaleName` holds
until the generations of a slot are used up; the code's masks make that 2^n
starts of one slot, and nothing stops an older event or handle from matching
then. `PolicySound` excepts a chain that was left without its marked rule by a
SIGKILL: the next start of the native supervisor does not see it. (The scan of
the Python supervisor does: `ScanVerdict`.) `EventsKept` excepts bridges started
while a probe is under way, see section 6.

## 4. Fairness

* `Bridge!FairSpec`, `BridgeRegistry!FairSpec`, `Service!FairSpec`: weak fairness
  of each kernel thread as one action. A runnable kthread is scheduled, and
  each thread of this kernel sleeps between rounds, so none starves another.
* Weak fairness of `HostEvent`: epoll reports an edge once all threads sleep,
  because idle polls the host.
* `Service!FairSpec` also lets each cancelled session finish, which is
  `StopFinishes` of the bridge. That every session finishes is a condition on
  peers, so it is not in the specification but a hypothesis of
  `EveryConnectionServed`.
* Likewise, peers that read, end their stream and acknowledge are a hypothesis
  of `AllFinish`; `StopFinishes` holds whatever the peers do.
* `L3Net!LiveSpec`: the I/O thread, the interrupt handler, a host that takes
  what was written, and the last step of a teardown.
* `Supervisor!LiveSpec`: the supervisor, a child that executes or dies, and
  time. A hosted operation may still hang for good. What is assumed of the child
  is that after SHUTDOWN was answered it exits: the supervisor waits there
  without a limit (a hazard with a note).
* `HostLease!FairSpec`: each supervisor that is not killed goes on with its
  transaction. A firewall command returns, with success or failure; holding a
  lease may last for ever.
* `HostedRuntime!FairSpec` and `Capacity`: the program goes on, and a deadline it
  waits for passes (`Expire`). The hosted kernel need not do anything. `StopEnds`
  has the hypothesis `SF_vars(AcceptEmpty)`, see section 6.
* `MCHarness!MCSpec`: the program that was chosen goes on; the processes and
  threads it started need not. Nearly all its waits have deadlines, and two have
  none, so nothing is asked of them and `HarnessEnds` names them as the other
  way a tool may stay: the ip commands of `create_tun`
  (`run-tcpcc-capacity-discovery.py:171`), and the read of the stderr of a child
  that did not end after SIGKILL (`run-tcpcc-tun-test.py:2232`). Two assumptions
  remain: a command that `subprocess.run` kills at its timeout ends, since
  CPython then waits for it without a limit, and the write of a control request
  does not block, since no more than a few small records are ever in the pipe.
* `HostEvents` and the other layer of `bridge_pool`: none, they check safety.

## 5. Proofs

TLAPS checks the proofs for every value of the constants. They rest on the named
assumptions of the modules and on nothing else: `ConstantsAssumption` of `Bridge`,
`L3Net` and `Supervisor`, `EventBounds` of `HostEvents` and `LeaseConstants` of
`HostLease` (naturals, positive limits and budgets, a finite set of sessions, a
watermark not above the limit, values that stand for "nothing" outside of the sets
they are added to). Where a theorem needs more, its statement says so.

| Theorem | Module | States |
|---|---|---|
| `TypeCorrect`, `PoolAccounting`, `BufferWakeups` | `BridgeProofs` | `TypeOK`, `PoolExact`, `NoLostBufferWakeup` |
| `TypeCorrect`, `QueueRestarts`, `TeardownIsComplete`, `PacketsAndWrites`, `NothingIsLost` | `L3NetProofs` | `TypeOK`, `QueueControl`, `TeardownLeavesNothing`, three parts of `IoSound`, and `IoSound` given that reads of the TUN do not fail |
| `EventsAreSound` | `HostEventsProofs` | `EventsSound` |
| `TypeCorrect`, `LeavesNothing`, `PolicyIsSound`, `AnswersMatch`, `KillIsSafe` | `SupervisorProofs` | `TypeOK`, `NothingSurvives`, `PolicySound`, `NoStaleAnswer`, and `KillsOnlyItsChild` given that opening the pidfd does not fail |
| `LeaseIsSound`, `ScanDecidesRightly`, `ImplementsLease` | `HostLeaseProofs` | `LeaseSound`, `ScanVerdict`, `LeaseImplemented` |

Each argument is an inductive invariant, with a lemma per action or per conjunct.

**`BridgeProofs`**. The inductive invariant is

    IInv == TypeOK /\ PoolInv /\ DispatcherInv
    PoolInv == PoolExact /\ NoLostBufferWakeup /\ NoRepeat(buffer_waiters)

`PoolExact` alone is not inductive: the dispatcher subtracts a buffer from the
pool after several steps in which it held the flow, so `DispatcherInv` says what
is true at each place (a flow being received into has its buffer, and its
session is not finished). `NoLostBufferWakeup` needs that the waiters are listed
once, since a session is taken off by one deletion. There is one lemma per
action, and arithmetic on `BUFFER_LIMIT * Cardinality(buffer)` is kept apart
from the sets.

**`L3NetProofs`**. `QueueControl` has the invariant

    IInv == TypeOK /\ QueueControl /\ OpenInv /\ StopInv

`OpenInv` (a device that is not open has nothing queued) is needed for the first
packet after an attachment, `StopInv` (a teardown that waits for the thread has
set `shutting_down`) for a completion that must not restart the queue. The rest is

    IoInv == MaskInv /\ ThreadInv /\ NoLostIoWakeup /\ NoStrandedWrite /\ ReadInv
             /\ DoneInv /\ OrderInv

`MaskInv` and `ThreadInv` tie what epoll watches and what the thread holds to the
places of the thread and of the control; `DoneInv` says that a device torn down
stays so. `OrderInv` puts the packets accepted so far in one line, written before
in hand before queued, with the dropped ones aside, all of `1..accepted` once.
`ReadInv` has the hypothesis on failing reads that the run has too.

**`SupervisorProofs`**. `FirewallInv` counts the rules of the present supervisor
at each place of installation, undo and cleanup, up to a removal that failed;
`ChildInv` says in which state the child is at each place, `ResultInv` what an exit
status of 0 means, `ChannelInv` that nothing is on its way between two
transactions of a sequence, `PidInv` that a pid which is kept has not been reaped.
`KillIsSafe` is the counterpart of the finding `supervisor_pidfd`: that error path
is the only way.

**`HostLeaseProofs`**. `LeaseInv` says for each supervisor which journal entries,
device and firewall objects it has at each place, unless a command went wrong.
For `ScanVerdict`, `ResidueAt` says that a leftover seen at the listing still has
no live owner when it is classified. `ImplementsLease` is the refinement, all of
which is safety: every command is a step of `Lease` or a stutter (`InsideStep` for
those in the middle of a transaction).

**`HostEventsProofs`**: `EventsAreSound`, that is `EventsSpec => []EventsSound`,
from `EventBounds` (a queue that holds at least one event, a probe token that is
no token of a bridge). `MaxSlept`, the events read while the dispatcher sleeps
inside its rounds since it last found the queue empty, is any number: nothing in
the code limits it. So the overflow is not excluded; `QueueBounded` says what it
takes, that the dispatcher sleeps at that moment and `slept >= QUEUE_LIMIT`. A
dispatcher that does not sleep leaves at most one event waiting. Invariant

    EventsInv == EventsSound /\ Locks /\ Registered /\ Sleeps

The bound `Len(queue) <= slept + 1` needs that the queue is empty whenever idle
reads an event and the dispatcher is not asleep (`IdleFindsEmpty`). That rests
on the wakeup of a waiting dispatcher (`NoLostWakeup`), on what is registered
when there is no dispatcher (`Registered`), and on the order of lock, notifier
and thread in start and cancel (`Locks`). `Sleeps` carries `NoLostWakeup` over
the part of a round after the queue was found empty.

Out of the prover's reach, and checked by TLC only: liveness and fairness, and
whatever needs induction over data. All properties of `BridgeRegistry`,
`Service`, `HostedRuntime` and the test tools, and those of the other modules not
named above, are model-checked and not proved.

## 6. Findings and observations

Each finding has a run that TLC must find violated; `PROJECT.json` quotes the
lines.

| Run | What |
|---|---|
| `supervisor_grace` | A grace period above 30 s is cut short: the transaction that waits for the drain gives up after `TCPCC_CONTROL_TIMEOUT_MS`. |
| `supervisor_pidfd` | When the pidfd cannot be opened the child is reaped, but `process->pid` stays, and the cleanup signals it. |
| `benchmark_terminal` | The benchmark looks at the errno of the last failed flow only, so a flow that ended with an errno the document calls a failure is hidden by a later one that is allowed. |

Observations that came up while modelling. The models contain these behaviours
unless it says otherwise; where a property excepts one, it is named.

Hosted kernel:

* The queue of 64 runtime events stays short because idle runs only when no
  thread can, not because anything limits its input (`irq.c:118`). While the
  dispatcher sleeps inside a round idle goes on reading, and the 65th event is a
  panic; TLC reaches it, and `QueueBounded` says that nothing else does. How long
  the dispatcher may sleep is up to the allocator and the socket locks of the
  upstream kernel.
* The backend probe tests `tcpcc_bridge_active` and releases the lock
  (`control.c:674`). A service that starts its first bridge after that shares
  the queue with the probe, which may take an edge of the bridge (`EventsKept`
  excepts it). Events of bridges that a cancel leaves queued make a later probe
  fail with -ESTALE (`control.c:519`).
* A client that half-closes and then resets its connection is not noticed while
  the backend is silent, since the direction that would read the public socket
  is done (`bridge.c:538`); no line says how soon it must be.

Native supervisor:

* The first control request is written while the hosted kernel boots
  (`tcpcc_cli.c:1518`), which the comment at `control.c:1232` says cannot be; the
  request waits in the pipe or is executed early, and the properties hold.
* A supervisor killed right after `iptables -N` leaves a chain without a marker,
  which the next start does not see (`PolicySound` excepts it).
* The wait for the child after SHUTDOWN has no limit (`tcpcc_cli.c:1818`).

Python supervisor:

* `_accept_available` returns to the stop flag only when no connection waits, so
  a stop ends only if the listener is empty again and again (hypothesis of
  `StopEnds`).
* A child that exits with 0 between the last poll and `shutdown()` is reported
  as a clean stop without its bridges having been joined (`CleanStop` excepts it).
* A late answer of the same operation cannot be told from the right one.
  `NoStaleAnswer` holds because by then the service is going down with an error.

Test tools:

* Capacity driver: backend connections left from a limited stage may be accepted
  by the next phase, so that a valid limit ends as a failed report: its service
  ended them, and `active_probe` fails on an end of file. A STATS
  timeout taken for a limit leaves its answer in the pipe. The boot log is opened
  before the `try`, so that its failure leaves the TUN descriptor open until exit.
  Each step of the `finally` clause may raise and skip the rest:
  `remove_cpu_cgroup` lets every OSError but FileNotFoundError pass, and then the
  listener, the TUN and the boot log are not closed. A cgroup that
  `place_in_cpu_cgroup` cannot remove again is nobody's. `CleanupComplete` says
  that nothing else is left, and never after a report that says passed.
* Benchmark: a supervisor whose ready event never came is not registered and so
  never stopped (`NothingLeft` excepts it). A cleanup step that raises skips the
  rest.
* TUN test: after SIGKILL it waits two seconds for the child, swallows the
  timeout, and reads the stderr of the child to its end, without a deadline
  (`run-tcpcc-tun-test.py:2208`, `:2232`). Three races make it fail although nothing is wrong (`NoFalseAlarm`
  counts them as causes). The backend's reset arrives before the SO_ERROR check
  of the start (`bridge.c:1148`); the dispatcher's recv consumes the error before
  the ERROR event does; a cancelled backend completes because the reset comes
  after its send and shutdown. An MTU command that fails after it took effect
  leaves the MTU changed.

## 7. Not modelled

* `reclaim.c`: sorting, merging and chunking of page ranges over the allocator
  of the upstream kernel.
* The table of socket handles in `control.c` and the operations on single
  sockets. `TunTest` and `HostedRuntime` see it from outside.
* Boot, context switch, linker map, console, timers and the self-tests of
  `net.c`, `time.c` and `process.c`: architecture glue with no protocol.
* Header validation, statistics, telemetry, byte layouts and output lines.
* Configuration parsing of the native supervisor: pure functions of their input.
* A firewall command in flight when the supervisor is killed: it may complete
  after the death. In `Supervisor` and `HostLease` a command takes effect in one
  step.
* In `HostLease`: loading of the nftables library, ip and ip6 as separate
  rulesets, an unreadable /proc of a live owner, and
  `_rollback_unregistered_resource`, which no failure of the callers reaches.
* The other Python scripts, all of them tests and diagnostics
  (`scripts/test-tcpcc-*.py`, `run-tcpcc-control-test.py`,
  `run-tcpcc-multi-listener-test.py` and the smaller ones). Some are unit tests of
  the modelled tools. The integration tests start processes and threads of their
  own against the parts modelled here; they could be modelled as `TunTest` is, and
  are not.
* The shell scripts for building, packaging and validation: fixed sequences of
  commands.

What would come next: the handle table of `control.c` (a socket has one owner
and is released once); `Service` over `BridgeRegistry` as a checked composition
instead of by reading; proofs of `SlotsConsistent` and `Accounting`.

## 8. Running

    tlc -config MCBridgePool.cfg MCBridgePool     # and likewise for each run
    tlapm BridgeProofs.tla
    tlapm L3NetProofs.tla
    tlapm HostEventsProofs.tla
    tlapm SupervisorProofs.tla
    tlapm HostLeaseProofs.tla

`PROJECT.json` names the module and the configuration of each run. The longest
run takes about three minutes on two cores, the proofs of a module up to fifteen
minutes.
