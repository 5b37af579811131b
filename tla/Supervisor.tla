----------------------------- MODULE Supervisor ------------------------------
(***************************************************************************)
(* The native supervisor (tcpcc_cli.c, tcpcc_process.c, tcpcc_control.c):  *)
(* it opens the TUN, installs one DNAT policy per route, starts the hosted *)
(* kernel as a child, configures it by control transactions, and undoes    *)
(* all of it on every way out.  It may be killed at any moment, and is     *)
(* then started again by the operator: a life of the supervisor.           *)
(*                                                                         *)
(* The hosted kernel is met through the control channel: it takes one      *)
(* request after the other and answers each, after some time.  Time is     *)
(* counted in units of which a transaction waits CONTROL_TIMEOUT.          *)
(***************************************************************************)
EXTENDS Integers, Sequences, FiniteSets

CONSTANTS
    Routes,              \* config.route_count
    KIND,                \* config.firewall: "nft" or "iptables"
    CONTROL_TIMEOUT,     \* TCPCC_CONTROL_TIMEOUT_MS
    GRACE,               \* config.grace_ms, as SERVICE_DRAIN gets it
    MaxLives,            \* bound: supervisors started one after the other
    Faults               \* what may go wrong, see FaultKinds

FaultKinds == {"tun", "firewall", "unfirewall", "exec", "sys", "pidfd", "op",
               "hang", "child", "crash"}

ASSUME ConstantsAssumption ==
    /\ Routes \in Nat \ {0} /\ MaxLives \in Nat \ {0}
    /\ CONTROL_TIMEOUT \in Nat \ {0} /\ GRACE \in Nat \ {0}
    /\ KIND \in {"nft", "iptables"}
    /\ Faults \subseteq FaultKinds

VARIABLES
    life,                \* the number of the present supervisor
    pc,                  \* where it is; "dead" after a SIGKILL
    tun,                 \* the lives whose TUN descriptor is open
    route,               \* the route being installed, or closed next
    rules,               \* what the host's firewall holds, of every life
    installed,           \* routes with firewall->installed
    pid,                 \* process.pid: "none", or "child"
    child,               \* the child of each life
    exit,                \* how the child of each life ended
    call,                \* the transaction: which script, which step, its age
    requests, responses, \* the two control pipes
    op, work,            \* what the hosted kernel executes, time it needs
    handle,              \* service_handle is set
    stopped,             \* runtime_stopped
    signal,              \* SIGINT or SIGTERM is pending
    result,              \* the exit status of the supervisor
    residue              \* a command that removes a rule has failed

channelVars == <<requests, responses, op, work>>
firewallVars == <<rules, installed, residue>>
childVars == <<pid, child, exit>>
vars == <<life, pc, tun, route, firewallVars, childVars, call, channelVars, handle,
          stopped, signal, result>>

Life == 1..MaxLives
Route == 1..Routes
\* An iptables policy is a chain, its DNAT rule and the jump to it; an nftables
\* policy is one table.  The chain alone carries no ownership marker.
Parts == IF KIND = "nft" THEN {"table"} ELSE {"chain", "dnat", "jump"}
Rule == Life \X Route \X Parts
Mine == {r \in rules : r[1] = life}

StartOps == <<"HELLO", "L3_ATTACH_IP">>
RouteOps == <<"SOCKET_IP", "SET_CC", "GET_CC", "BIND_IP", "LISTEN", "SERVICE_START">>
StopOps == <<"SERVICE_STATS", "SERVICE_DRAIN", "SERVICE_STOP", "SHUTDOWN">>
Ops == {StartOps[n] : n \in 1..2} \cup {RouteOps[n] : n \in 1..6}
          \cup {StopOps[n] : n \in 1..4}

Steps(script) ==
    CASE script = "start" -> 2 + 6 * Routes
      [] script = "shutdown" -> 4
      [] OTHER -> 1
Op(c) ==
    CASE c.script = "start" /\ c.step =< 2 -> StartOps[c.step]
      [] c.script = "start" /\ c.step > 2 -> RouteOps[((c.step - 3) % 6) + 1]
      [] c.script = "shutdown" -> StopOps[c.step]
      [] OTHER -> "SERVICE_STOP"

Call(script, step) == [script |-> script, step |-> step, age |-> 0]
Idle == [name |-> "none", status |-> "ok"]
NoChild == {"none", "zombie", "reaped"}
Alive(l) == child[l] \notin NoChild

Init ==
    /\ life = 1 /\ pc = "inspect"
    /\ tun = {} /\ route = 1
    /\ rules = {} /\ installed = {} /\ residue = FALSE
    /\ pid = "none" /\ child = [l \in Life |-> "none"] /\ exit = [l \in Life |-> "none"]
    /\ call = Call("start", 1)
    /\ requests = <<>> /\ responses = <<>> /\ op = Idle /\ work = 0
    /\ handle = FALSE /\ stopped = FALSE /\ signal = FALSE /\ result = 1

-----------------------------------------------------------------------------
\* The host network: ownership, TUN, firewall.

\* Slip: only the jump of an iptables policy, or a table, is looked at.
StaleJumpOnly == \E r \in rules : r[1] # life /\ r[3] \in {"jump", "table"}

\* tcpcc_check_ownership_text: a marker of a process that is gone blocks.
Stale == \E r \in rules : r[1] # life /\ r[3] # "chain"

\* The preflight of main, and the TUN.
Inspect ==
    /\ pc = "inspect"
    /\ \/ ~Stale /\ pc' = "tun"
       \/ (Stale \/ "sys" \in Faults) /\ pc' = "exited"
    /\ UNCHANGED <<life, tun, route, firewallVars, childVars, call, channelVars, handle,
                   stopped, signal, result>>

TunOpen ==
    /\ pc = "tun"
    /\ \/ tun' = tun \cup {life} /\ pc' = "install"
       \/ "tun" \in Faults /\ pc' = "cleanup" /\ UNCHANGED tun
    /\ UNCHANGED <<life, route, firewallVars, childVars, call, channelVars, handle,
                   stopped, signal, result>>

\* tcpcc_firewall_install for one route after the other; an nftables batch is
\* applied as a whole, an iptables policy in three commands.
Installed ==
    /\ installed' = installed \cup {route}
    /\ IF route < Routes THEN route' = route + 1 /\ pc' = "install"
                         ELSE pc' = "spawn" /\ UNCHANGED route

InstallFirst ==
    /\ pc = "install"
    /\ LET part == IF KIND = "nft" THEN "table" ELSE "chain"
       IN  \/ /\ ~Stale
              /\ rules' = rules \cup {<<life, route, part>>}
              /\ IF KIND = "nft" THEN Installed
                 ELSE pc' = "install_dnat" /\ UNCHANGED <<installed, route>>
           \/ /\ Stale \/ "firewall" \in Faults
              /\ pc' = "cleanup" /\ UNCHANGED <<rules, installed, route>>
    /\ UNCHANGED <<life, tun, residue, childVars, call, channelVars, handle, stopped,
                   signal, result>>

InstallDnat ==
    /\ pc = "install_dnat"
    /\ \/ rules' = rules \cup {<<life, route, "dnat">>} /\ pc' = "install_jump"
       \/ "firewall" \in Faults /\ pc' = "undo_flush" /\ UNCHANGED rules
    /\ UNCHANGED <<life, tun, route, installed, residue, childVars, call, channelVars,
                   handle, stopped, signal, result>>

\* Slip: a jump that fails does not undo the chain.
InstallJumpNoUndo ==
    /\ pc = "install_jump"
    /\ \/ rules' = rules \cup {<<life, route, "jump">>} /\ Installed
       \/ "firewall" \in Faults /\ pc' = "cleanup" /\ UNCHANGED <<rules, installed, route>>
    /\ UNCHANGED <<life, tun, residue, childVars, call, channelVars, handle, stopped,
                   signal, result>>

InstallJump ==
    /\ pc = "install_jump"
    /\ \/ rules' = rules \cup {<<life, route, "jump">>} /\ Installed
       \/ "firewall" \in Faults /\ pc' = "undo_flush" /\ UNCHANGED <<rules, installed, route>>
    /\ UNCHANGED <<life, tun, residue, childVars, call, channelVars, handle, stopped,
                   signal, result>>

\* One command that removes a part of a policy and may fail.  iptables -X fails
\* on a chain that has a rule or is jumped to.
Removable(part) ==
    part = "chain" => \A p \in {"dnat", "jump"} : <<life, route, p>> \notin rules
Remove(part) ==
    \/ Removable(part) /\ rules' = rules \ {<<life, route, part>>} /\ UNCHANGED residue
    \/ /\ ~Removable(part) \/ "unfirewall" \in Faults
       /\ residue' = TRUE /\ UNCHANGED rules

\* A failed iptables installation flushes and removes its chain.
UndoFlush ==
    /\ pc = "undo_flush" /\ pc' = "undo_chain"
    /\ Remove("dnat")
    /\ UNCHANGED <<life, tun, route, installed, childVars, call, channelVars, handle,
                   stopped, signal, result>>

UndoChain ==
    /\ pc = "undo_chain" /\ pc' = "cleanup"
    /\ Remove("chain")
    /\ UNCHANGED <<life, tun, route, installed, childVars, call, channelVars, handle,
                   stopped, signal, result>>

\* Slip: the loop runs while index >= 0.
CloseNextTooFar ==
    /\ pc = "close" /\ route >= 0
    /\ IF route \in installed
       THEN /\ pc' = IF KIND = "nft" THEN "close_last" ELSE "close_jump"
            /\ UNCHANGED route
       ELSE route' = route - 1 /\ UNCHANGED pc
    /\ UNCHANGED <<life, tun, firewallVars, childVars, call, channelVars, handle, stopped,
                   signal, result>>

\* tcpcc_firewall_close of every route, in reverse, whatever fails.
CloseNext ==
    /\ pc = "close" /\ route > 0
    /\ IF route \in installed
       THEN /\ pc' = IF KIND = "nft" THEN "close_last" ELSE "close_jump"
            /\ UNCHANGED route
       ELSE route' = route - 1 /\ UNCHANGED pc
    /\ UNCHANGED <<life, tun, firewallVars, childVars, call, channelVars, handle, stopped,
                   signal, result>>

CloseStep(from, part, to) ==
    /\ pc = from /\ pc' = to
    /\ Remove(part)
    /\ result' = IF rules' = rules /\ <<life, route, part>> \in rules THEN 1 ELSE result
    /\ UNCHANGED <<life, tun, route, installed, childVars, call, channelVars, handle,
                   stopped, signal>>

CloseJump == CloseStep("close_jump", "jump", "close_flush")
CloseFlush == CloseStep("close_flush", "dnat", "close_last")

CloseLast ==
    /\ pc = "close_last" /\ pc' = "close"
    /\ LET part == IF KIND = "nft" THEN "table" ELSE "chain"
       IN  /\ Remove(part)
           /\ result' = IF <<life, route, part>> \in rules' THEN 1 ELSE result
    /\ installed' = installed \ {route}
    /\ route' = route - 1
    /\ UNCHANGED <<life, tun, childVars, call, channelVars, handle, stopped, signal>>

\* The TUN goes last.
CloseTun ==
    /\ pc = "close" /\ route = 0
    /\ tun' = tun \ {life} /\ pc' = "exited"
    /\ UNCHANGED <<life, route, firewallVars, childVars, call, channelVars, handle,
                   stopped, signal, result>>
-----------------------------------------------------------------------------
\* The hosted process: tcpcc_hosted_process_start, and the child it forks.

SupervisorAlive(l) == l = life /\ pc \notin {"dead", "exited"}

Fork ==
    /\ pc = "spawn"
    /\ \/ pc' = "exec_status" /\ child' = [child EXCEPT ![life] = "forked"]
       \/ "sys" \in Faults /\ pc' = "cleanup" /\ UNCHANGED child
    /\ UNCHANGED <<life, tun, route, firewallVars, pid, exit, call, channelVars, handle,
                   stopped, signal, result>>

\* prctl(PR_SET_PDEATHSIG, SIGKILL): a parent that is gone already sends nothing.
ChildArm(l) ==
    /\ child[l] = "forked"
    /\ child' = [child EXCEPT ![l] = "armed"]
    /\ UNCHANGED <<life, pc, tun, route, firewallVars, pid, exit, call, channelVars, handle,
                   stopped, signal, result>>

\* Slip: the parent is not looked at again after prctl.
ChildExecUnchecked(l) ==
    /\ child[l] = "armed"
    /\ \/ child' = [child EXCEPT ![l] = "booting"]
       \/ "exec" \in Faults /\ child' = [child EXCEPT ![l] = "failed"]
    /\ UNCHANGED <<life, pc, tun, route, firewallVars, pid, exit, call, channelVars, handle,
                   stopped, signal, result>>

\* getppid() != expected_parent, then execv.  "failed" is an error reported on
\* the status pipe before _exit.
ChildExec(l) ==
    /\ child[l] = "armed"
    /\ \/ SupervisorAlive(l) /\ child' = [child EXCEPT ![l] = "booting"]
       \/ SupervisorAlive(l) /\ "exec" \in Faults /\ child' = [child EXCEPT ![l] = "failed"]
       \/ ~SupervisorAlive(l) /\ child' = [child EXCEPT ![l] = "none"]
    /\ UNCHANGED <<life, pc, tun, route, firewallVars, pid, exit, call, channelVars, handle,
                   stopped, signal, result>>

\* tcpcc_read_exec_status waits for the status pipe: data is an error, its end
\* is taken for a started child, one that has died included.
ExecStatus ==
    /\ pc = "exec_status"
    /\ \/ child[life] = "failed" /\ child' = [child EXCEPT ![life] = "reaped"] /\ pc' = "cleanup"
       \/ child[life] \notin {"forked", "armed", "failed"} /\ pc' = "pidfd" /\ UNCHANGED child
    /\ UNCHANGED <<life, tun, route, firewallVars, pid, exit, call, channelVars, handle,
                   stopped, signal, result>>

\* Both failures kill and reap the child; the second leaves process->pid set.
OpenPidfd ==
    /\ pc = "pidfd"
    /\ \/ pid' = "child" /\ pc' = "call" /\ UNCHANGED child
       \/ /\ "sys" \in Faults
          /\ child' = [child EXCEPT ![life] = "reaped"] /\ pc' = "cleanup" /\ UNCHANGED pid
       \/ /\ "pidfd" \in Faults
          /\ child' = [child EXCEPT ![life] = "reaped"] /\ pc' = "cleanup" /\ pid' = "child"
    /\ UNCHANGED <<life, tun, route, firewallVars, exit, call, channelVars, handle,
                   stopped, signal, result>>

\* The hosted kernel dies on its own: a panic, a signal, the OOM killer.
ChildDies ==
    /\ "child" \in Faults
    /\ SupervisorAlive(life) /\ Alive(life) /\ child[life] # "failed"
    /\ child' = [child EXCEPT ![life] = "zombie"]
    /\ exit' = [exit EXCEPT ![life] = "bad"]
    /\ UNCHANGED <<life, pc, tun, route, firewallVars, pid, call, channelVars, handle,
                   stopped, signal, result>>

-----------------------------------------------------------------------------
\* The control channel: tcpcc_control_transact against the control thread.

\* Where a failed transaction goes: the STOP of the cleanup ignores it.
Failed(c) == IF c.script = "cleanup" THEN "kill" ELSE "cleanup"

\* A write to a dead child fails with EPIPE.
Send ==
    /\ pc = "call"
    /\ IF Alive(life)
       THEN requests' = Append(requests, Op(call)) /\ pc' = "answer"
       ELSE pc' = Failed(call) /\ UNCHANGED requests
    /\ UNCHANGED <<life, tun, route, firewallVars, childVars, call, responses, op, work,
                   handle, stopped, signal, result>>

\* A SERVICE_DRAIN that the hosted kernel ended with -ETIMEDOUT is reported and
\* passed over; every other status but 0 ends the sequence.
Accepted(c, r) ==
    /\ r.name = Op(c)
    /\ r.status = "ok" \/ (r.name = "SERVICE_DRAIN" /\ r.status = "timeout")

\* tcpcc_runtime_start keeps the handle of the first route; after SHUTDOWN
\* tcpcc_shutdown_runtime closes the channels and main waits for the child.
Receive ==
    /\ pc = "answer" /\ responses # <<>>
    /\ LET good == Accepted(call, Head(responses))
           last == call.step = Steps(call.script)
       IN  /\ call' = IF good /\ ~last THEN Call(call.script, call.step + 1) ELSE call
           /\ pc' = CASE ~good \/ call.script = "cleanup" -> Failed(call)
                      [] good /\ call.script # "cleanup" /\ ~last -> "call"
                      [] good /\ call.script = "start" /\ last -> "ready"
                      [] good /\ call.script = "shutdown" /\ last -> "wait"
           /\ handle' = (handle \/ (good /\ Op(call) = "SERVICE_START"))
           /\ stopped' = (good /\ Op(call) = "SHUTDOWN")
    /\ responses' = Tail(responses)
    /\ UNCHANGED <<life, tun, route, firewallVars, childVars, requests, op, work, signal,
                   result>>

\* Slip: a transaction that timed out is passed over like -ETIMEDOUT.
GiveUpGoesOn ==
    /\ pc = "answer"
    /\ call.age = CONTROL_TIMEOUT \/ (responses = <<>> /\ ~Alive(life))
    /\ IF Op(call) = "SERVICE_DRAIN" /\ Alive(life)
       THEN pc' = "call" /\ call' = Call(call.script, call.step + 1)
       ELSE pc' = Failed(call) /\ UNCHANGED call
    /\ UNCHANGED <<life, tun, route, firewallVars, childVars, channelVars, handle,
                   stopped, signal, result>>

\* Slip: no deadline, only the end of the pipe.
GiveUpOnHangup ==
    /\ pc = "answer" /\ responses = <<>> /\ ~Alive(life)
    /\ pc' = Failed(call)
    /\ UNCHANGED <<life, tun, route, firewallVars, childVars, call, channelVars, handle,
                   stopped, signal, result>>

\* The deadline of the transaction, which comes before a look at the pipe, or
\* the end of the response pipe.
GiveUp ==
    /\ pc = "answer"
    /\ call.age = CONTROL_TIMEOUT \/ (responses = <<>> /\ ~Alive(life))
    /\ pc' = Failed(call)
    /\ UNCHANGED <<life, tun, route, firewallVars, childVars, call, channelVars, handle,
                   stopped, signal, result>>

\* SERVICE_DRAIN and SERVICE_STOP wait in the hosted kernel, up to the limit
\* the request carries; the others answer at once.
Limit(name) ==
    CASE name = "SERVICE_DRAIN" -> GRACE
      [] name = "SERVICE_STOP" -> CONTROL_TIMEOUT
      [] OTHER -> 0

ChildBoot ==
    /\ child[life] = "booting"
    /\ child' = [child EXCEPT ![life] = "hosted"]
    /\ UNCHANGED <<life, pc, tun, route, firewallVars, pid, exit, call, channelVars, handle,
                   stopped, signal, result>>

\* tcpcc_control_thread_fn reads one request.
ChildTake ==
    /\ child[life] = "hosted" /\ op = Idle /\ requests # <<>>
    /\ \E d \in 0..Limit(Head(requests)) :
          /\ work' = d
          /\ \E status \in {"ok"} \cup (IF "op" \in Faults THEN {"error"} ELSE {})
                             \cup (IF d > 0 /\ d = Limit(Head(requests)) THEN {"timeout"} ELSE {}) :
                op' = [name |-> Head(requests), status |-> status]
    /\ requests' = Tail(requests)
    /\ UNCHANGED <<life, pc, tun, route, firewallVars, childVars, call, responses, handle,
                   stopped, signal, result>>

\* It answers; after a successful SHUTDOWN it leaves.
ChildAnswer ==
    /\ child[life] = "hosted" /\ op # Idle /\ work = 0
    /\ responses' = Append(responses, op)
    /\ child' = [child EXCEPT ![life] =
                    IF op.name = "SHUTDOWN" /\ op.status = "ok" THEN "leaving" ELSE @]
    /\ op' = Idle
    /\ UNCHANGED <<life, pc, tun, route, firewallVars, pid, exit, call, requests, work,
                   handle, stopped, signal, result>>

\* arch_post_kernel_init after the control thread: host_exit(0).
ChildLeaves ==
    /\ child[life] = "leaving"
    /\ child' = [child EXCEPT ![life] = "zombie"]
    /\ exit' = [exit EXCEPT ![life] = "clean"]
    /\ UNCHANGED <<life, pc, tun, route, firewallVars, pid, call, channelVars, handle,
                   stopped, signal, result>>

\* An operation that never ends.
ChildHangs ==
    /\ "hang" \in Faults
    /\ child[life] = "booting" \/ (child[life] = "hosted" /\ op # Idle)
    /\ child' = [child EXCEPT ![life] = "hung"]
    /\ UNCHANGED <<life, pc, tun, route, firewallVars, pid, exit, call, channelVars, handle,
                   stopped, signal, result>>

\* Time passes for a transaction that waits, unless an answer can be had now.
Tick ==
    /\ pc = "answer" /\ responses = <<>> /\ call.age < CONTROL_TIMEOUT
    /\ child[life] = "hosted" => op # Idle /\ work > 0
    /\ call' = [call EXCEPT !.age = @ + 1]
    /\ work' = IF work > 0 THEN work - 1 ELSE 0
    /\ UNCHANGED <<life, pc, tun, route, firewallVars, childVars, requests, responses, op,
                   handle, stopped, signal, result>>

-----------------------------------------------------------------------------
\* The main line of main, its cleanup, and the operator.

Signal ==
    /\ pc \notin {"inspect", "dead", "exited"} /\ ~signal
    /\ signal' = TRUE
    /\ UNCHANGED <<life, pc, tun, route, firewallVars, childVars, call, channelVars, handle,
                   stopped, result>>

\* tcpcc_wait_signal_or_child.
WaitSignalOrChild ==
    /\ pc = "ready"
    /\ \/ signal /\ signal' = FALSE /\ pc' = "call" /\ call' = Call("shutdown", 1)
       \/ /\ ~Alive(life) \/ "sys" \in Faults
          /\ pc' = "cleanup" /\ UNCHANGED <<signal, call>>
    /\ UNCHANGED <<life, tun, route, firewallVars, childVars, channelVars, handle, stopped,
                   result>>

\* Slip: the exit status of the child is not looked at.
WaitChildAnyStatus ==
    /\ pc = "wait" /\ child[life] = "zombie"
    /\ child' = [child EXCEPT ![life] = "reaped"] /\ pid' = "none"
    /\ result' = 0 /\ pc' = "cleanup"
    /\ UNCHANGED <<life, tun, route, firewallVars, exit, call, channelVars, handle, stopped,
                   signal>>

\* tcpcc_hosted_process_wait on the main line, without a limit of time.
WaitChild ==
    /\ pc = "wait" /\ child[life] = "zombie"
    /\ child' = [child EXCEPT ![life] = "reaped"] /\ pid' = "none"
    /\ result' = IF exit[life] = "clean" THEN 0 ELSE result
    /\ pc' = "cleanup"
    /\ UNCHANGED <<life, tun, route, firewallVars, exit, call, channelVars, handle, stopped,
                   signal>>

\* Slip: without a service the child is left alone.
CleanupServiceOnly ==
    /\ pc = "cleanup"
    /\ IF pid = "child" /\ ~stopped /\ handle
       THEN pc' = "call" /\ call' = Call("cleanup", 1) /\ UNCHANGED route
       ELSE pc' = "close" /\ route' = Routes /\ UNCHANGED call
    /\ UNCHANGED <<life, tun, firewallVars, childVars, channelVars, handle, stopped, signal,
                   result>>

Cleanup ==
    /\ pc = "cleanup"
    /\ IF pid = "child" /\ ~stopped
       THEN /\ pc' = IF handle THEN "call" ELSE "kill"
            /\ call' = Call("cleanup", 1) /\ UNCHANGED route
       ELSE pc' = "close" /\ route' = Routes /\ UNCHANGED call
    /\ UNCHANGED <<life, tun, firewallVars, childVars, channelVars, handle, stopped, signal,
                   result>>

\* SIGKILL to process.pid, and the channels are closed.
Kill ==
    /\ pc = "kill" /\ pc' = "reap"
    /\ IF Alive(life)
       THEN /\ child' = [child EXCEPT ![life] = "zombie"]
            /\ exit' = [exit EXCEPT ![life] = "bad"]
       ELSE UNCHANGED <<child, exit>>
    /\ UNCHANGED <<life, tun, route, firewallVars, pid, call, channelVars, handle, stopped,
                   signal, result>>

\* tcpcc_hosted_process_wait in the cleanup; a child that was reaped is ECHILD.
Reap ==
    /\ pc = "reap" /\ pc' = "close" /\ route' = Routes
    /\ IF child[life] = "zombie"
       THEN child' = [child EXCEPT ![life] = "reaped"] /\ pid' = "none"
       ELSE UNCHANGED <<child, pid>>
    /\ UNCHANGED <<life, tun, firewallVars, exit, call, channelVars, handle, stopped, signal,
                   result>>

\* SIGKILL of the supervisor: its descriptors close, an armed child is killed,
\* init reaps what it leaves; the firewall stays.
Crash ==
    /\ "crash" \in Faults
    /\ pc \notin {"dead", "exited"} /\ pc' = "dead"
    /\ tun' = tun \ {life}
    /\ child' = [child EXCEPT ![life] = IF @ = "forked" THEN @ ELSE "none"]
    /\ UNCHANGED <<life, route, firewallVars, pid, exit, call, channelVars, handle, stopped,
                   signal, result>>

\* The operator starts the next one.  How the last one's child ended is
\* forgotten.
Restart ==
    /\ pc \in {"dead", "exited"} /\ life < MaxLives
    /\ life' = life + 1 /\ pc' = "inspect"
    /\ route' = 1 /\ installed' = {} /\ residue' = FALSE
    /\ pid' = "none" /\ call' = Call("start", 1)
    /\ requests' = <<>> /\ responses' = <<>> /\ op' = Idle /\ work' = 0
    /\ handle' = FALSE /\ stopped' = FALSE /\ signal' = FALSE /\ result' = 1
    /\ exit' = [exit EXCEPT ![life] = "none"]
    /\ child' = [child EXCEPT ![life] = IF @ = "reaped" THEN "none" ELSE @]
    /\ UNCHANGED <<tun, rules>>

SupervisorStep ==
    \/ Inspect \/ TunOpen \/ InstallFirst \/ InstallDnat \/ InstallJump
    \/ UndoFlush \/ UndoChain
    \/ Fork \/ ExecStatus \/ OpenPidfd \/ Send \/ Receive \/ GiveUp
    \/ WaitSignalOrChild \/ WaitChild \/ Cleanup \/ Kill \/ Reap
    \/ CloseNext \/ CloseJump \/ CloseFlush \/ CloseLast \/ CloseTun

ChildStep ==
    \/ \E l \in Life : ChildArm(l) \/ ChildExec(l)
    \/ ChildBoot \/ ChildTake \/ ChildAnswer \/ ChildLeaves

Next ==
    \/ SupervisorStep \/ ChildStep \/ Tick
    \/ ChildDies \/ ChildHangs \/ Signal \/ Crash \/ Restart

Spec == Init /\ [][Next]_vars

\* The supervisor and the hosted kernel are scheduled, and time passes.
LiveSpec ==
    Spec /\ WF_vars(SupervisorStep) /\ WF_vars(ChildStep) /\ WF_vars(Tick)

-----------------------------------------------------------------------------
Pcs == {"inspect", "tun", "install", "install_dnat", "install_jump", "undo_flush",
        "undo_chain", "spawn", "exec_status", "pidfd", "call", "answer", "ready", "wait",
        "cleanup", "kill", "reap", "close", "close_jump", "close_flush", "close_last",
        "exited", "dead"}
Running == {"booting", "hosted", "hung", "leaving"}
Closing == {"close", "close_jump", "close_flush", "close_last"}

Scripts == {"start", "shutdown", "cleanup"}
Answers == [name : Ops, status : {"ok", "error", "timeout"}]

\* Types of the state of the supervisor, the host and the hosted child.
TypeOK ==
    /\ life \in Life /\ pc \in Pcs /\ tun \subseteq {life} /\ route \in 0..Routes
    /\ rules \subseteq Rule /\ installed \subseteq Route
    /\ residue \in BOOLEAN /\ handle \in BOOLEAN
    /\ stopped \in BOOLEAN /\ signal \in BOOLEAN
    /\ pid \in {"none", "child"}
    /\ child \in [Life -> NoChild \cup Running \cup {"forked", "armed", "failed"}]
    /\ exit \in [Life -> {"none", "clean", "bad"}]
    /\ call \in [script : Scripts, step : Nat, age : 0..CONTROL_TIMEOUT]
    /\ call.step \in 1..Steps(call.script)
    /\ requests \in Seq(Ops) /\ responses \in Seq(Answers)
    /\ op \in Answers \cup {Idle}
    /\ work \in 0..(IF GRACE > CONTROL_TIMEOUT THEN GRACE ELSE CONTROL_TIMEOUT)
    /\ result \in {0, 1}

\* Whatever way main leaves, the TUN is closed, no child is left, running or
\* unreaped, and the firewall holds nothing of this supervisor unless a command
\* that removes it failed (the cleanup label of main, tcpcc_firewall_close).
ExitLeavesNothing ==
    pc = "exited" =>
        /\ tun = {}
        /\ child[life] \in {"none", "reaped"}
        /\ Mine = {} \/ residue

\* Exit status 0, with its "stopped" event, is only given when the hosted kernel
\* ended cleanly on SHUTDOWN and every rule is gone (result in main).
CleanExitIsClean ==
    pc = "exited" /\ result = 0 => exit[life] = "clean" /\ Mine = {}

\* Rules are removed after the hosted kernel is gone, and never point to a TUN
\* that is closed: the TUN is opened before the first and closed after the last.
TeardownOrder ==
    /\ pc \in Closing => child[life] \in {"none", "reaped"}
    /\ Mine # {} /\ ~residue /\ pc # "dead" => life \in tun

\* A supervisor that is ready has the whole policy of every route in place, its
\* TUN, and shares the firewall with no marked rule of a supervisor that is gone
\* (tcpcc_check_ownership_text at start and before each installation).
ReadyIsWhole ==
    pc = "ready" =>
        /\ {life} \X Route \X Parts \subseteq rules
        /\ life \in tun /\ handle
        /\ \A r \in rules \ Mine : r[3] = "chain"

\* No hosted kernel runs without its supervisor, wherever the supervisor is
\* killed: PR_SET_PDEATHSIG covers a later death, getppid() an earlier one
\* (tcpcc_child_exec).
NoOrphan ==
    \A l \in Life : child[l] \in Running => SupervisorAlive(l)

\* Outside the cleanup a transaction waits with no other request unanswered, so
\* the answer it reads is the answer to its own request: a transaction that
\* failed is the last of its sequence (tcpcc_control_transact, which matches
\* answers by operation only).
NoStaleAnswer ==
    pc = "answer" /\ call.script # "cleanup" =>
        Len(requests) + Len(responses) + (IF op = Idle THEN 0 ELSE 1) =< 1

\* SIGKILL is sent to the child only while it is not reaped; a pid that was
\* reaped may be another process's (cleanup of main, tcpcc_hosted_process_signal).
KillsOnlyItsChild ==
    pc = "kill" => child[life] # "reaped"

\* A drain is not abandoned before the grace period while the hosted kernel is
\* there to finish it (tcpcc_shutdown_runtime's SERVICE_DRAIN).
GraceHonoured ==
    [][/\ pc = "answer" /\ call.script = "shutdown" /\ Op(call) = "SERVICE_DRAIN"
       /\ responses = <<>> /\ child[life] = "hosted" /\ pc' = "cleanup"
       => call.age >= GRACE]_vars

\* A signal ends the supervisor, whatever the hosted kernel does with the
\* requests, once the hosted kernel that answered SHUTDOWN does exit.
SignalEnds == signal ~> pc \in {"exited", "dead"}

\* A supervisor that is gone leaves nothing behind, be it by an exit (status 0
\* only when all went well) or killed: no hosted kernel runs on without it.
NothingSurvives == ExitLeavesNothing /\ CleanExitIsClean /\ NoOrphan

\* The policy of a route is whole when the supervisor is ready, and never points
\* to a TUN or a hosted kernel that is gone.
PolicySound == ReadyIsWhole /\ TeardownOrder

=============================================================================
