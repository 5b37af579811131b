------------------------------ MODULE MCHarness ------------------------------
(***************************************************************************)
(* The capacity driver, the high-BDP benchmark and the functional TUN      *)
(* test.  A job of the CI runs one of them: Init chooses which (tool), the *)
(* state of the other two stays initial.                                   *)
(***************************************************************************)
EXTENDS Capacity

CONSTANTS MaxRepetitions, CapacityConnections

VARIABLES tool,
          repetitions, trace, bpc, at, namespaces, proc, registered,
          measured, stats, spoiled, gates, stuck, breport,
          listeners, tphase, step, ses, handles, free_slots, generation,
          open, causes, wrong, treport

B == INSTANCE Benchmark WITH pc <- bpc, report <- breport
T == INSTANCE TunTest WITH phase <- tphase, at <- step, report <- treport

bvars == <<repetitions, trace, bpc, at, namespaces, proc, registered,
           measured, stats, spoiled, gates, stuck, breport>>
tvars == <<listeners, tphase, step, ses, handles, free_slots, generation,
           open, causes, wrong, treport>>

IdleArgs == [levels |-> <<>>, minimum |-> 0, active |-> 0, rounds |-> 0,
             conns |-> 0, skip |-> FALSE]

MCInit ==
  /\ Init /\ B!Init /\ T!Init
  /\ tool \in {"capacity", "benchmark", "tun"}
  /\ tool # "capacity" => args = IdleArgs
  /\ tool # "benchmark" => repetitions = 3 /\ ~trace
  /\ tool # "tun" => ~listeners

Capacity == tool = "capacity" /\ UNCHANGED <<tool, bvars, tvars>>
Benchmark == tool = "benchmark" /\ UNCHANGED <<tool, vars, tvars>>
TunTest == tool = "tun" /\ UNCHANGED <<tool, vars, bvars>>

MCNext ==
  \/ Capacity /\ Next
  \/ Benchmark /\ B!Next
  \/ TunTest /\ T!Next

allvars == <<tool, vars, bvars, tvars>>

\* As in FairSpec of Capacity and of TunTest: steps with a deadline are taken,
\* and nothing is asked of the others.  The harness of Benchmark waits with
\* timeouts only.  A command that subprocess.run kills at its timeout is taken
\* to end: CPython waits for it without limit.  The tool is chosen once, so
\* weak fairness of the three threads of control together is that of the one
\* that runs.
MCSpec ==
  /\ MCInit
  /\ [][MCNext]_allvars
  /\ WF_allvars(\/ Capacity /\ Bounded
                \/ Benchmark /\ B!Harness
                \/ TunTest /\ T!Main)
  /\ WF_allvars(Capacity /\ Expire)

\* discover keeps to its descriptors; what it leaves behind lies behind a step
\* of its finally clause that failed, and then it does not report passed.
DriverSound == TypeOK /\ DriverResources

\* benchmark measures in a balanced order, its report says passed only if the
\* gates are met, and it leaves nothing behind but a supervisor whose readiness
\* was never seen.
BenchmarkSound == B!TypeOK /\ B!Balanced /\ B!ReportEarned /\ B!NothingLeft

\* The TUN test passes only what is right, fails only with a cause outside
\* itself, however its threads interleave, and leaves nothing behind.
TunTestSound ==
  T!TypeOK /\ T!PassedIsEarned /\ T!NoFalseAlarm /\ T!NothingLeft

\* Each of the three ends, whatever the processes it started do, or waits in
\* one of the only two calls without a deadline: an ip command of create_tun
\* that does not end, the read of the stderr of a child that SIGKILL does not
\* end.
HarnessEnds ==
  <>[](CASE tool = "capacity" -> pc \in {"tun", "end"}
         [] tool = "benchmark" -> bpc = "end"
         [] tool = "tun" -> tphase = "end" \/ T!WaitsForKilled)
==============================================================================
