-------------------------- MODULE SupervisorProofs ---------------------------
(***************************************************************************)
(* Proofs about the native supervisor, for every number of routes and      *)
(* lives, both firewalls, every timeout and every set of faults.           *)
(***************************************************************************)
EXTENDS Supervisor, SequenceTheorems, TLAPS

\* A leaf that names no prover has thirty seconds of SMT, then Zenon.
USE SMTT(30), Zenon

Installing == {"install", "install_dnat", "install_jump", "undo_flush", "undo_chain"}

\* The supervisor has installed every policy and has not begun to clean up.
Serving ==
    \/ pc \in {"spawn", "exec_status", "pidfd", "ready", "wait"}
    \/ pc \in {"call", "answer"} /\ call.script # "cleanup"

Gone == {"exited", "dead"}

\* Where a rule of this supervisor can come from at each point: from a route that
\* is installed, or from the one being installed or undone.
Accounted(r) ==
    \/ /\ r[2] \in installed
       /\ pc \in {"close_flush", "close_last"} /\ r[2] = route => r[3] # "jump"
       /\ pc = "close_last" /\ r[2] = route => r[3] # "dnat"
    \/ r[2] = route /\ pc \in {"install_dnat", "undo_chain"} /\ r[3] = "chain"
    \/ r[2] = route /\ pc \in {"install_jump", "undo_flush"} /\ r[3] \in {"chain", "dnat"}

\* Nothing of it is left over unless a removal failed, and the exit status tells.
RulesAccounted ==
    pc # "dead" /\ (~residue \/ result = 0) =>
        \A r \in rules : r[1] = life => Accounted(r)

\* What is installed is whole, and which routes are.
InstalledWhole ==
    pc \in {"install", "install_dnat", "install_jump"} \/ Serving =>
        \A k \in installed, x \in Parts : <<life, k, x>> \in rules

Progress ==
    /\ pc \in {"inspect", "tun"} => installed = {} /\ route = 1
    /\ pc \in Installing => installed = 1..(route - 1) /\ route > 0
    /\ pc \in {"install_dnat", "install_jump"} => <<life, route, "chain">> \in rules
    /\ pc = "install_jump" => <<life, route, "dnat">> \in rules
    /\ Serving => installed = Route
    /\ pc \in Closing => \A k \in installed : k =< route
    /\ pc \in {"close_jump", "close_flush", "close_last"} => route > 0
    /\ pc = "exited" => installed = {}
    /\ pc \in {"install_dnat", "install_jump", "undo_flush", "undo_chain", "close_jump",
               "close_flush"} => KIND = "iptables"

\* The TUN is there from before the first rule until after the last.
TunHeld ==
    /\ pc \in {"inspect", "tun"} \cup Gone => tun = {}
    /\ pc \in Installing \/ Serving => life \in tun
    /\ pc \notin Gone => life \in tun \/ (installed = {} /\ \A r \in rules : r[1] # life)

\* No rule is of a supervisor to come, and no marked one is of a past one.
OwnRules ==
    /\ \A r \in rules : r[1] =< life
    /\ pc \notin {"inspect"} \cup Gone => ~Stale

\* A removal fails only in the undo and in the cleanup.
ResidueLate ==
    pc \in {"inspect", "tun", "install", "install_dnat", "install_jump", "undo_flush"}
        \/ Serving => ~residue

FirewallInv ==
    /\ RulesAccounted /\ InstalledWhole /\ Progress /\ TunHeld /\ OwnRules
    /\ ResidueLate

\* The child of this supervisor at each point, and those of earlier ones.
ChildInv ==
    /\ \A l \in Life : l > life => child[l] = "none"
    /\ \A l \in Life : l < life => child[l] \in {"none", "forked", "armed"}
    /\ pc \in {"inspect", "tun", "spawn"} \cup Installing => child[life] = "none"
    /\ pc \in {"inspect", "tun", "spawn", "exec_status", "pidfd"} \cup Installing
          => pid = "none"
    /\ pc \in {"call", "answer", "ready", "wait", "kill", "reap"} => pid = "child"
    /\ pc = "cleanup" /\ (pid = "none" \/ stopped) => child[life] \in {"none", "reaped"}
    /\ pc \in {"exec_status", "pidfd"} => child[life] # "reaped"
    /\ pc = "reap" => child[life] \in NoChild
    /\ pc \in Closing \cup {"exited"} => child[life] \in {"none", "reaped"}
    /\ pc = "dead" => child[life] \in {"none", "forked", "armed"}
    /\ stopped => pc \in {"wait", "cleanup"} \cup Closing \cup Gone
    /\ pc = "ready" => handle

\* Status 0 is given after the child was reaped with a clean exit.
ResultInv ==
    result = 0 =>
        /\ pc \in {"cleanup"} \cup Closing \cup Gone
        /\ exit[life] = "clean" /\ child[life] \in {"none", "reaped"} /\ pid = "none"

Quiet == requests = <<>> /\ responses = <<>> /\ op = Idle

\* Between two transactions of a sequence nothing is on its way.
ChannelInv ==
    /\ pc \in {"inspect", "tun", "spawn", "exec_status", "pidfd", "ready"} \cup Installing
          => Quiet
    /\ pc \in {"inspect", "tun", "spawn", "exec_status", "pidfd"} \cup Installing
          => call = Call("start", 1)
    /\ pc = "call" /\ call.script # "cleanup" => Quiet
    /\ NoStaleAnswer

\* The child is not reaped while the supervisor keeps its pid.
PidInv == "pidfd" \notin Faults => (pid = "child" => child[life] # "reaped")

IInv == TypeOK /\ FirewallInv /\ ChildInv /\ ResultInv /\ ChannelInv /\ PidInv

-----------------------------------------------------------------------------
(* The firewall *)

Middle == {"spawn", "exec_status", "pidfd", "call", "answer", "ready", "wait", "cleanup",
           "kill", "reap"}

\* Steps that neither touch the host network nor move the supervisor.
LEMMA FirewallElsewhere ==
    ASSUME FirewallInv, UNCHANGED <<life, pc, tun, route, rules, installed, residue, result>>,
           call'.script = call.script
    PROVE  FirewallInv'
BY DEF FirewallInv, RulesAccounted, Accounted, InstalledWhole, Progress, TunHeld, OwnRules,
       ResidueLate, Serving, Stale

\* Steps between the last installation and the first removal.
LEMMA FirewallMiddle ==
    ASSUME TypeOK, FirewallInv, UNCHANGED <<life, tun, route, rules, installed, residue>>,
           pc \in Middle, pc' \in Middle, Serving' => Serving,
           result' = 0 => result = 0 \/ Serving
    PROVE  FirewallInv'
<1>1. pc \notin Installing \cup Closing \cup Gone \cup {"inspect", "tun"}
      /\ pc' \notin Installing \cup Closing \cup Gone \cup {"inspect", "tun"}
  BY DEF Middle, Installing, Closing, Gone
<1>2. RulesAccounted'
  <2>1. ASSUME ~residue' \/ result' = 0, NEW r \in rules, r[1] = life
        PROVE  r[2] \in installed
    BY <1>1, <2>1 DEF FirewallInv, RulesAccounted, Accounted, ResidueLate, Installing, Gone
  <2> QED BY <1>1, <2>1 DEF RulesAccounted, Accounted, Closing
<1>3. InstalledWhole'
  BY <1>1 DEF FirewallInv, InstalledWhole, Installing
<1>4. Progress'
  BY <1>1 DEF FirewallInv, Progress, Installing, Closing, Gone
<1>5. TunHeld'
  BY <1>1 DEF FirewallInv, TunHeld, Gone
<1>6. OwnRules'
  BY <1>1 DEF FirewallInv, OwnRules, Stale, Gone
<1>7. ResidueLate'
  BY <1>1 DEF FirewallInv, ResidueLate, Installing
<1> QED BY <1>2, <1>3, <1>4, <1>5, <1>6, <1>7 DEF FirewallInv

\* The parts of a policy.
LEMMA PartsOfKind ==
    /\ KIND = "nft" => Parts = {"table"}
    /\ KIND # "nft" => KIND = "iptables" /\ Parts = {"chain", "dnat", "jump"}
BY ConstantsAssumption DEF Parts

\* A rule is its life, its route and its part.
LEMMA RuleFields ==
    ASSUME TypeOK, NEW r \in rules
    PROVE  r = <<r[1], r[2], r[3]>> /\ r[1] \in Life /\ r[2] \in Route /\ r[3] \in Parts
BY DEF TypeOK, Rule

\* One more route.
LEMMA OneMore == ASSUME NEW n \in Nat \ {0} PROVE (1..(n - 1)) \cup {n} = 1..n
OBVIOUS

\* The preflight of a new supervisor, which has nothing on the host yet.
LEMMA FirewallInspect ==
    ASSUME TypeOK, FirewallInv, ResultInv, Inspect
    PROVE  FirewallInv'
<1>1. /\ installed = {} /\ route = 1 /\ tun = {} /\ ~residue
      /\ \A r \in rules : r[1] =< life /\ r[1] # life
  BY DEF TypeOK, FirewallInv, RulesAccounted, Accounted, Progress, TunHeld,
         OwnRules, ResidueLate, Inspect
<1>2. /\ UNCHANGED <<life, tun, route, rules, installed, residue>> /\ ~Serving'
      /\ (pc' = "tun" /\ ~Stale) \/ pc' = "exited"
  BY <1>1 DEF Serving, firewallVars, Inspect
<1>3. RulesAccounted'
  BY <1>1, <1>2 DEF RulesAccounted, Accounted
<1>4. InstalledWhole'
  BY <1>1, <1>2 DEF InstalledWhole
<1>5. Progress'
  BY <1>1, <1>2 DEF Progress, Installing, Closing
<1>6. TunHeld'
  BY <1>1, <1>2 DEF TunHeld, Installing, Gone
<1>7. OwnRules'
  BY <1>1, <1>2 DEF OwnRules, Stale, Gone
<1>8. ResidueLate'
  BY <1>1, <1>2 DEF ResidueLate
<1> QED BY <1>3, <1>4, <1>5, <1>6, <1>7, <1>8 DEF FirewallInv

\* The TUN, before the first rule.
LEMMA FirewallTunOpen ==
    ASSUME TypeOK, FirewallInv, ResultInv, TunOpen
    PROVE  FirewallInv'
<1>1. /\ installed = {} /\ route = 1 /\ tun = {} /\ ~residue /\ ~Stale /\ life \in Nat
      /\ \A r \in rules : r[1] =< life /\ r[1] # life
  BY DEF TypeOK, FirewallInv, RulesAccounted, Accounted, Progress, TunHeld,
         OwnRules, ResidueLate, Life, Gone, TunOpen
<1>2. /\ UNCHANGED <<life, route, rules, installed, residue>> /\ ~Serving'
      /\ \/ pc' = "install" /\ tun' = tun \cup {life}
         \/ pc' = "cleanup" /\ tun' = tun
  BY <1>1 DEF Serving, firewallVars, TunOpen
<1>3. RulesAccounted'
  BY <1>1, <1>2 DEF RulesAccounted, Accounted
<1>4. InstalledWhole'
  BY <1>1, <1>2 DEF InstalledWhole
<1>5. Progress'
  BY <1>1, <1>2 DEF Progress, Installing, Closing
<1>6. TunHeld'
  BY <1>1, <1>2 DEF TunHeld, Installing, Gone
<1>7. OwnRules'
  BY <1>1, <1>2 DEF OwnRules, Stale, Gone
<1>8. ResidueLate'
  BY <1>1, <1>2 DEF ResidueLate
<1> QED BY <1>3, <1>4, <1>5, <1>6, <1>7, <1>8 DEF FirewallInv

\* The first command of a policy: all of it with nftables, the chain with
\* iptables.
LEMMA FirewallInstallFirst ==
    ASSUME TypeOK, FirewallInv, ResultInv, InstallFirst
    PROVE  FirewallInv'
<1>1. /\ installed = 1..(route - 1) /\ route \in 1..Routes /\ Routes \in Nat /\ ~residue
      /\ ~Stale /\ life \in tun /\ life \in Nat
      /\ \A r \in rules : r[1] =< life /\ (r[1] = life => r[2] \in installed)
      /\ \A k \in installed, x \in Parts : <<life, k, x>> \in rules
  BY ConstantsAssumption DEF TypeOK, FirewallInv, RulesAccounted, Accounted, InstalledWhole, Progress,
         TunHeld, OwnRules, ResidueLate, Installing, Gone, Life, Route, InstallFirst
<1>2. /\ UNCHANGED <<life, tun, residue>>
      /\ \/ /\ KIND = "nft" /\ rules' = rules \cup {<<life, route, "table">>}
            /\ installed' = installed \cup {route}
            /\ \/ route < Routes /\ route' = route + 1 /\ pc' = "install" /\ ~Serving'
               \/ route = Routes /\ route' = route /\ pc' = "spawn"
         \/ /\ KIND = "iptables" /\ rules' = rules \cup {<<life, route, "chain">>}
            /\ pc' = "install_dnat" /\ UNCHANGED <<installed, route>> /\ ~Serving'
         \/ pc' = "cleanup" /\ UNCHANGED <<rules, installed, route>> /\ ~Serving'
  BY ConstantsAssumption, <1>1 DEF Serving, firewallVars, InstallFirst, Installed
<1>3. RulesAccounted'
  BY <1>1, <1>2 DEF RulesAccounted, Accounted
<1>4. InstalledWhole'
  BY <1>1, <1>2, PartsOfKind DEF InstalledWhole
<1>5. Progress'
  <2>1. installed \cup {route} = 1..route
    BY <1>1, OneMore
  <2>2. CASE installed' = installed \cup {route} /\ route < Routes
    BY <1>1, <1>2, <2>1, <2>2 DEF Progress, Installing, Closing
  <2>3. CASE installed' = installed \cup {route} /\ route = Routes
    BY <1>1, <1>2, <2>1, <2>3 DEF Progress, Installing, Closing, Route
  <2>4. CASE UNCHANGED <<installed, route>>
    BY <1>1, <1>2, <2>4 DEF Progress, Installing, Closing
  <2> QED BY <1>2, <2>2, <2>3, <2>4
<1>6. TunHeld'
  BY <1>1, <1>2 DEF TunHeld, Installing, Gone
<1>7. OwnRules'
  BY <1>1, <1>2 DEF OwnRules, Stale, Gone
<1>8. ResidueLate'
  BY <1>1, <1>2 DEF ResidueLate
<1> QED BY <1>3, <1>4, <1>5, <1>6, <1>7, <1>8 DEF FirewallInv

\* The rule of an iptables policy.
LEMMA FirewallInstallDnat ==
    ASSUME TypeOK, FirewallInv, ResultInv, InstallDnat
    PROVE  FirewallInv'
<1>1. /\ installed = 1..(route - 1) /\ route \in 1..Routes /\ ~residue
      /\ ~Stale /\ life \in tun /\ life \in Nat /\ KIND = "iptables"
      /\ \A r \in rules :
            /\ r[1] =< life
            /\ r[1] = life => r[2] \in installed \/ (r[2] = route /\ r[3] = "chain")
      /\ \A k \in installed, x \in Parts : <<life, k, x>> \in rules
      /\ <<life, route, "chain">> \in rules
  BY ConstantsAssumption DEF TypeOK, FirewallInv, RulesAccounted, Accounted, InstalledWhole, Progress,
         TunHeld, OwnRules, ResidueLate, Installing, Gone, Life, Route, InstallDnat
<1>2. /\ UNCHANGED <<life, tun, residue, installed, route>> /\ ~Serving'
      /\ \/ rules' = rules \cup {<<life, route, "dnat">>} /\ pc' = "install_jump"
         \/ rules' = rules /\ pc' = "undo_flush"
  BY <1>1 DEF Serving, firewallVars, InstallDnat
<1>3. RulesAccounted'
  BY <1>1, <1>2 DEF RulesAccounted, Accounted
<1>4. InstalledWhole'
  BY <1>1, <1>2 DEF InstalledWhole
<1>5. Progress'
  BY <1>1, <1>2 DEF Progress, Installing, Closing
<1>6. TunHeld'
  BY <1>1, <1>2 DEF TunHeld, Installing, Gone
<1>7. OwnRules'
  BY <1>1, <1>2 DEF OwnRules, Stale, Gone
<1>8. ResidueLate'
  BY <1>1, <1>2 DEF ResidueLate
<1> QED BY <1>3, <1>4, <1>5, <1>6, <1>7, <1>8 DEF FirewallInv

\* The jump of an iptables policy.
LEMMA FirewallInstallJump ==
    ASSUME TypeOK, FirewallInv, ResultInv, InstallJump
    PROVE  FirewallInv'
<1>1. /\ installed = 1..(route - 1) /\ route \in 1..Routes /\ Routes \in Nat /\ ~residue
      /\ ~Stale /\ life \in tun /\ life \in Nat /\ KIND = "iptables"
      /\ \A r \in rules :
            /\ r[1] =< life
            /\ r[1] = life =>
                  r[2] \in installed \/ (r[2] = route /\ r[3] \in {"chain", "dnat"})
      /\ \A k \in installed, x \in Parts : <<life, k, x>> \in rules
      /\ <<life, route, "chain">> \in rules /\ <<life, route, "dnat">> \in rules
  BY ConstantsAssumption DEF TypeOK, FirewallInv, RulesAccounted, Accounted, InstalledWhole, Progress,
         TunHeld, OwnRules, ResidueLate, Installing, Gone, Life, Route, InstallJump
<1>2. /\ UNCHANGED <<life, tun, residue>>
      /\ \/ /\ rules' = rules \cup {<<life, route, "jump">>}
            /\ installed' = installed \cup {route}
            /\ \/ route < Routes /\ route' = route + 1 /\ pc' = "install" /\ ~Serving'
               \/ route = Routes /\ route' = route /\ pc' = "spawn"
         \/ pc' = "undo_flush" /\ UNCHANGED <<rules, installed, route>> /\ ~Serving'
  BY <1>1 DEF Serving, firewallVars, InstallJump, Installed
<1>3. RulesAccounted'
  BY <1>1, <1>2 DEF RulesAccounted, Accounted
<1>4. InstalledWhole'
  BY <1>1, <1>2, PartsOfKind DEF InstalledWhole
<1>5. Progress'
  <2>1. installed \cup {route} = 1..route
    BY <1>1, OneMore
  <2>2. CASE installed' = installed \cup {route} /\ route < Routes
    BY <1>1, <1>2, <2>1, <2>2 DEF Progress, Installing, Closing
  <2>3. CASE installed' = installed \cup {route} /\ route = Routes
    BY <1>1, <1>2, <2>1, <2>3 DEF Progress, Installing, Closing, Route
  <2>4. CASE pc' = "undo_flush" /\ UNCHANGED <<rules, installed, route>> /\ ~Serving'
    BY <1>1, <2>4 DEF Progress, Installing, Closing
  <2> QED BY <1>2, <2>2, <2>3, <2>4
<1>6. TunHeld'
  BY <1>1, <1>2 DEF TunHeld, Installing, Gone
<1>7. OwnRules'
  BY <1>1, <1>2 DEF OwnRules, Stale, Gone
<1>8. ResidueLate'
  BY <1>1, <1>2 DEF ResidueLate
<1> QED BY <1>3, <1>4, <1>5, <1>6, <1>7, <1>8 DEF FirewallInv

\* iptables -F of a policy that could not be completed.
LEMMA FirewallUndoFlush ==
    ASSUME TypeOK, FirewallInv, ResultInv, UndoFlush
    PROVE  FirewallInv'
<1>1. /\ installed = 1..(route - 1) /\ route \in 1..Routes /\ ~residue /\ result # 0
      /\ ~Stale /\ life \in tun /\ KIND = "iptables"
      /\ \A r \in rules :
            /\ r[1] =< life
            /\ r[1] = life =>
                  r[2] \in installed \/ (r[2] = route /\ r[3] \in {"chain", "dnat"})
  BY ConstantsAssumption DEF TypeOK, FirewallInv, RulesAccounted, Accounted, Progress, TunHeld,
         OwnRules, ResidueLate, Installing, Closing, Gone, Life, Route, ResultInv, UndoFlush
<1>2. /\ UNCHANGED <<life, tun, route, installed, result>> /\ pc' = "undo_chain" /\ ~Serving'
      /\ \/ rules' = rules \ {<<life, route, "dnat">>} /\ ~residue'
         \/ rules' = rules /\ residue'
  BY <1>1 DEF Serving, firewallVars, UndoFlush, Remove
<1>3. RulesAccounted'
  BY <1>1, <1>2, RuleFields DEF RulesAccounted, Accounted
<1>4. InstalledWhole'
  BY <1>1, <1>2 DEF InstalledWhole
<1>5. Progress'
  BY <1>1, <1>2 DEF Progress, Installing, Closing
<1>6. TunHeld'
  BY <1>1, <1>2 DEF TunHeld, Installing, Gone
<1>7. OwnRules'
  BY <1>1, <1>2 DEF OwnRules, Stale, Gone
<1>8. ResidueLate'
  BY <1>1, <1>2 DEF ResidueLate
<1> QED BY <1>3, <1>4, <1>5, <1>6, <1>7, <1>8 DEF FirewallInv

\* iptables -X of a policy that could not be completed.
LEMMA FirewallUndoChain ==
    ASSUME TypeOK, FirewallInv, ResultInv, UndoChain
    PROVE  FirewallInv'
<1>1. /\ installed = 1..(route - 1) /\ route \in 1..Routes /\ result # 0 /\ residue \in BOOLEAN
      /\ ~Stale /\ life \in tun /\ KIND = "iptables"
      /\ \A r \in rules :
            /\ r[1] =< life
            /\ ~residue /\ r[1] = life =>
                  r[2] \in installed \/ (r[2] = route /\ r[3] = "chain")
  BY ConstantsAssumption DEF TypeOK, FirewallInv, RulesAccounted, Accounted, Progress, TunHeld,
         OwnRules, ResidueLate, Installing, Closing, Gone, Life, Route, ResultInv, UndoChain
<1>2. /\ UNCHANGED <<life, tun, route, installed, result>> /\ pc' = "cleanup" /\ ~Serving'
      /\ \/ rules' = rules \ {<<life, route, "chain">>} /\ residue' = residue
         \/ rules' = rules /\ residue'
  BY <1>1 DEF Serving, firewallVars, UndoChain, Remove
<1>3. RulesAccounted'
  BY <1>1, <1>2, RuleFields DEF RulesAccounted, Accounted
<1>4. InstalledWhole'
  BY <1>1, <1>2 DEF InstalledWhole
<1>5. Progress'
  BY <1>1, <1>2 DEF Progress, Installing, Closing
<1>6. TunHeld'
  BY <1>1, <1>2 DEF TunHeld, Installing, Gone
<1>7. OwnRules'
  BY <1>1, <1>2 DEF OwnRules, Stale, Gone
<1>8. ResidueLate'
  BY <1>1, <1>2 DEF ResidueLate
<1> QED BY <1>3, <1>4, <1>5, <1>6, <1>7, <1>8 DEF FirewallInv

\* The start of the cleanup.
LEMMA FirewallCleanup ==
    ASSUME TypeOK, FirewallInv, ResultInv, Cleanup
    PROVE  FirewallInv'
<1>1. /\ ~Stale
      /\ life \in tun \/ (installed = {} /\ \A r \in rules : r[1] # life)
      /\ installed \subseteq 1..Routes /\ Routes \in Nat /\ residue \in BOOLEAN
      /\ \A r \in rules :
            /\ r[1] =< life
            /\ (~residue \/ result = 0) /\ r[1] = life => r[2] \in installed
  BY ConstantsAssumption DEF TypeOK, FirewallInv, RulesAccounted, Accounted, Progress, TunHeld,
         OwnRules, ResidueLate, Installing, Closing, Gone, Life, Route, ResultInv, Cleanup
<1>2. /\ UNCHANGED <<life, tun, installed, rules, residue, result>> /\ ~Serving'
      /\ pc' \in {"call", "kill"} \/ (pc' = "close" /\ route' = Routes)
  BY <1>1 DEF Serving, firewallVars, Cleanup, Call
<1>3. RulesAccounted'
  BY <1>1, <1>2 DEF RulesAccounted, Accounted
<1>4. InstalledWhole'
  BY <1>1, <1>2 DEF InstalledWhole
<1>5. Progress'
  BY <1>1, <1>2 DEF Progress, Installing, Closing
<1>6. TunHeld'
  BY <1>1, <1>2 DEF TunHeld, Installing, Gone
<1>7. OwnRules'
  BY <1>1, <1>2 DEF OwnRules, Stale, Gone
<1>8. ResidueLate'
  BY <1>1, <1>2 DEF ResidueLate
<1> QED BY <1>3, <1>4, <1>5, <1>6, <1>7, <1>8 DEF FirewallInv

\* The end of the child, before the rules go.
LEMMA FirewallReap ==
    ASSUME TypeOK, FirewallInv, ResultInv, Reap
    PROVE  FirewallInv'
<1>1. /\ ~Stale
      /\ life \in tun \/ (installed = {} /\ \A r \in rules : r[1] # life)
      /\ installed \subseteq 1..Routes /\ Routes \in Nat /\ residue \in BOOLEAN
      /\ \A r \in rules :
            /\ r[1] =< life
            /\ (~residue \/ result = 0) /\ r[1] = life => r[2] \in installed
  BY ConstantsAssumption DEF TypeOK, FirewallInv, RulesAccounted, Accounted, Progress, TunHeld,
         OwnRules, ResidueLate, Installing, Closing, Gone, Life, Route, ResultInv, Reap
<1>2. /\ UNCHANGED <<life, tun, installed, rules, residue, result>> /\ ~Serving'
      /\ pc' = "close" /\ route' = Routes
  BY <1>1 DEF Serving, firewallVars, Reap
<1>3. RulesAccounted'
  BY <1>1, <1>2 DEF RulesAccounted, Accounted
<1>4. InstalledWhole'
  BY <1>1, <1>2 DEF InstalledWhole
<1>5. Progress'
  BY <1>1, <1>2 DEF Progress, Installing, Closing
<1>6. TunHeld'
  BY <1>1, <1>2 DEF TunHeld, Installing, Gone
<1>7. OwnRules'
  BY <1>1, <1>2 DEF OwnRules, Stale, Gone
<1>8. ResidueLate'
  BY <1>1, <1>2 DEF ResidueLate
<1> QED BY <1>3, <1>4, <1>5, <1>6, <1>7, <1>8 DEF FirewallInv

\* The next route in reverse order.
LEMMA FirewallCloseNext ==
    ASSUME TypeOK, FirewallInv, ResultInv, CloseNext
    PROVE  FirewallInv'
<1>1. /\ ~Stale
      /\ life \in tun \/ (installed = {} /\ \A r \in rules : r[1] # life)
      /\ installed \subseteq 1..route /\ route \in 0..Routes /\ residue \in BOOLEAN
      /\ \A r \in rules :
            /\ r[1] =< life
            /\ (~residue \/ result = 0) /\ r[1] = life => r[2] \in installed
  BY ConstantsAssumption DEF TypeOK, FirewallInv, RulesAccounted, Accounted, Progress, TunHeld,
         OwnRules, ResidueLate, Installing, Closing, Gone, Life, Route, ResultInv, CloseNext
<1>2. /\ UNCHANGED <<life, tun, installed, rules, residue, result>> /\ ~Serving' /\ route > 0
      /\ \/ pc' = "close_last" /\ KIND = "nft" /\ route' = route
         \/ pc' = "close_jump" /\ KIND = "iptables" /\ route' = route
         \/ pc' = "close" /\ route' = route - 1 /\ route \notin installed
  BY ConstantsAssumption, <1>1 DEF Serving, firewallVars, CloseNext
<1>3. RulesAccounted'
  BY <1>1, <1>2, RuleFields, PartsOfKind DEF RulesAccounted, Accounted
<1>4. InstalledWhole'
  BY <1>1, <1>2 DEF InstalledWhole
<1>5. Progress'
  BY <1>1, <1>2 DEF Progress, Installing, Closing
<1>6. TunHeld'
  BY <1>1, <1>2 DEF TunHeld, Installing, Gone
<1>7. OwnRules'
  BY <1>1, <1>2 DEF OwnRules, Stale, Gone
<1>8. ResidueLate'
  BY <1>1, <1>2 DEF ResidueLate
<1> QED BY <1>3, <1>4, <1>5, <1>6, <1>7, <1>8 DEF FirewallInv

\* iptables -D of the jump.
LEMMA FirewallCloseJump ==
    ASSUME TypeOK, FirewallInv, ResultInv, CloseJump
    PROVE  FirewallInv'
<1>1. /\ ~Stale
      /\ life \in tun \/ (installed = {} /\ \A r \in rules : r[1] # life)
      /\ installed \subseteq 1..route /\ route \in 0..Routes /\ residue \in BOOLEAN
      /\ \A r \in rules :
            /\ r[1] =< life
            /\ (~residue \/ result = 0) /\ r[1] = life => r[2] \in installed
            /\ (~residue \/ result = 0) /\ r[1] = life /\ r[2] = route => r[3] \notin {}
      /\ route > 0 /\ KIND = "iptables" /\ result \in {0, 1}
  BY ConstantsAssumption DEF TypeOK, FirewallInv, RulesAccounted, Accounted, Progress, TunHeld,
         OwnRules, ResidueLate, Installing, Closing, Gone, Life, Route, ResultInv, CloseJump, CloseStep
<1>2. /\ UNCHANGED <<life, tun, route, installed>> /\ ~Serving' /\ pc' = "close_flush"
      /\ \/ rules' = rules \ {<<life, route, "jump">>} /\ residue' = residue
         \/ rules' = rules /\ residue'
      /\ result' = 0 => result = 0 /\ <<life, route, "jump">> \notin rules'
  BY <1>1 DEF Serving, firewallVars, CloseJump, CloseStep, Remove
<1>3. RulesAccounted'
  BY <1>1, <1>2, RuleFields DEF RulesAccounted, Accounted
<1>4. InstalledWhole'
  BY <1>1, <1>2 DEF InstalledWhole
<1>5. Progress'
  BY <1>1, <1>2 DEF Progress, Installing, Closing
<1>6. TunHeld'
  BY <1>1, <1>2 DEF TunHeld, Installing, Gone
<1>7. OwnRules'
  BY <1>1, <1>2 DEF OwnRules, Stale, Gone
<1>8. ResidueLate'
  BY <1>1, <1>2 DEF ResidueLate
<1> QED BY <1>3, <1>4, <1>5, <1>6, <1>7, <1>8 DEF FirewallInv

\* iptables -F of the chain.
LEMMA FirewallCloseFlush ==
    ASSUME TypeOK, FirewallInv, ResultInv, CloseFlush
    PROVE  FirewallInv'
<1>1. /\ ~Stale
      /\ life \in tun \/ (installed = {} /\ \A r \in rules : r[1] # life)
      /\ installed \subseteq 1..route /\ route \in 0..Routes /\ residue \in BOOLEAN
      /\ \A r \in rules :
            /\ r[1] =< life
            /\ (~residue \/ result = 0) /\ r[1] = life => r[2] \in installed
            /\ (~residue \/ result = 0) /\ r[1] = life /\ r[2] = route => r[3] \notin {"jump"}
      /\ route > 0 /\ KIND = "iptables" /\ result \in {0, 1}
  BY ConstantsAssumption DEF TypeOK, FirewallInv, RulesAccounted, Accounted, Progress, TunHeld,
         OwnRules, ResidueLate, Installing, Closing, Gone, Life, Route, ResultInv, CloseFlush, CloseStep
<1>2. /\ UNCHANGED <<life, tun, route, installed>> /\ ~Serving' /\ pc' = "close_last"
      /\ \/ rules' = rules \ {<<life, route, "dnat">>} /\ residue' = residue
         \/ rules' = rules /\ residue'
      /\ result' = 0 => result = 0 /\ <<life, route, "dnat">> \notin rules'
  BY <1>1 DEF Serving, firewallVars, CloseFlush, CloseStep, Remove
<1>3. RulesAccounted'
  BY <1>1, <1>2, RuleFields DEF RulesAccounted, Accounted
<1>4. InstalledWhole'
  BY <1>1, <1>2 DEF InstalledWhole
<1>5. Progress'
  BY <1>1, <1>2 DEF Progress, Installing, Closing
<1>6. TunHeld'
  BY <1>1, <1>2 DEF TunHeld, Installing, Gone
<1>7. OwnRules'
  BY <1>1, <1>2 DEF OwnRules, Stale, Gone
<1>8. ResidueLate'
  BY <1>1, <1>2 DEF ResidueLate
<1> QED BY <1>3, <1>4, <1>5, <1>6, <1>7, <1>8 DEF FirewallInv

\* The last command for a route: the table, or the chain.
LEMMA FirewallCloseLast ==
    ASSUME TypeOK, FirewallInv, ResultInv, CloseLast
    PROVE  FirewallInv'
<1>1. /\ ~Stale
      /\ life \in tun \/ (installed = {} /\ \A r \in rules : r[1] # life)
      /\ installed \subseteq 1..route /\ route \in 0..Routes /\ residue \in BOOLEAN
      /\ \A r \in rules :
            /\ r[1] =< life
            /\ (~residue \/ result = 0) /\ r[1] = life => r[2] \in installed
            /\ (~residue \/ result = 0) /\ r[1] = life /\ r[2] = route =>
                  r[3] \notin {"jump", "dnat"}
      /\ route > 0 /\ result \in {0, 1}
  BY ConstantsAssumption DEF TypeOK, FirewallInv, RulesAccounted, Accounted, Progress, TunHeld,
         OwnRules, ResidueLate, Installing, Closing, Gone, Life, Route, ResultInv, CloseLast
<1>2. /\ UNCHANGED <<life, tun>> /\ ~Serving' /\ pc' = "close"
      /\ installed' = installed \ {route} /\ route' = route - 1
      /\ \E part \in Parts :
            /\ part \in {"table", "chain"}
            /\ \/ rules' = rules \ {<<life, route, part>>} /\ residue' = residue
               \/ rules' = rules /\ residue'
            /\ result' = 0 => result = 0 /\ <<life, route, part>> \notin rules'
  <2>1. CASE KIND = "nft"
    BY <2>1, <1>1, PartsOfKind DEF Serving, CloseLast, Remove
  <2>2. CASE KIND = "iptables"
    BY <2>2, <1>1, PartsOfKind DEF Serving, CloseLast, Remove
  <2> QED BY <2>1, <2>2, ConstantsAssumption, Zenon
<1>3. RulesAccounted'
  <2>1. PICK part \in Parts :
            /\ part \in {"table", "chain"}
            /\ \/ rules' = rules \ {<<life, route, part>>} /\ residue' = residue
               \/ rules' = rules /\ residue'
            /\ result' = 0 => result = 0 /\ <<life, route, part>> \notin rules'
    BY <1>2
  <2>2. ASSUME NEW r \in rules', r[1] = life, ~residue' \/ result' = 0
        PROVE  r[2] \in installed'
    <3>1. r \in rules /\ r = <<r[1], r[2], r[3]>> /\ r[3] \in Parts /\ r # <<life, route, part>>
      BY <2>1, <2>2, RuleFields
    <3>2. r[2] \in installed /\ (r[2] = route => r[3] \notin {"jump", "dnat"})
      BY <1>1, <2>1, <2>2, <3>1
    <3>3. r[2] # route
      BY <2>1, <2>2, <3>1, <3>2, PartsOfKind
    <3> QED BY <1>2, <3>2, <3>3
  <2> QED BY <1>2, <2>2 DEF RulesAccounted, Accounted
<1>4. InstalledWhole'
  BY <1>1, <1>2 DEF InstalledWhole
<1>5. Progress'
  BY <1>1, <1>2 DEF Progress, Installing, Closing
<1>6. TunHeld'
  BY <1>1, <1>2, Zenon DEF TunHeld, Installing, Gone
<1>7. OwnRules'
  BY <1>1, <1>2 DEF OwnRules, Stale, Gone
<1>8. ResidueLate'
  BY <1>1, <1>2 DEF ResidueLate
<1> QED BY <1>3, <1>4, <1>5, <1>6, <1>7, <1>8 DEF FirewallInv

\* The end of main: the TUN goes last.
LEMMA FirewallCloseTun ==
    ASSUME TypeOK, FirewallInv, ResultInv, CloseTun
    PROVE  FirewallInv'
<1>1. /\ ~Stale
      /\ life \in tun \/ (installed = {} /\ \A r \in rules : r[1] # life)
      /\ installed \subseteq 1..route /\ route \in 0..Routes /\ residue \in BOOLEAN
      /\ \A r \in rules :
            /\ r[1] =< life
            /\ (~residue \/ result = 0) /\ r[1] = life => r[2] \in installed
      /\ route = 0 /\ tun \subseteq {life}
  BY DEF TypeOK, FirewallInv, RulesAccounted, Accounted, Progress, TunHeld,
         OwnRules, ResidueLate, Installing, Closing, Gone, Life, Route, ResultInv, CloseTun
<1>2. /\ UNCHANGED <<life, installed, rules, residue, result, route>> /\ ~Serving'
      /\ pc' = "exited" /\ tun' = {}
  BY <1>1 DEF Serving, firewallVars, CloseTun
<1>3. RulesAccounted'
  BY <1>1, <1>2 DEF RulesAccounted, Accounted
<1>4. InstalledWhole'
  BY <1>1, <1>2 DEF InstalledWhole
<1>5. Progress'
  BY <1>1, <1>2 DEF Progress, Installing, Closing
<1>6. TunHeld'
  BY <1>1, <1>2 DEF TunHeld, Installing, Gone
<1>7. OwnRules'
  BY <1>1, <1>2 DEF OwnRules, Stale, Gone
<1>8. ResidueLate'
  BY <1>1, <1>2 DEF ResidueLate
<1> QED BY <1>3, <1>4, <1>5, <1>6, <1>7, <1>8 DEF FirewallInv

\* SIGKILL of the supervisor.
LEMMA FirewallCrash ==
    ASSUME TypeOK, FirewallInv, ResultInv, Crash
    PROVE  FirewallInv'
<1>1. /\ \A r \in rules : r[1] =< life
      /\ tun \subseteq {life}
  BY DEF TypeOK, FirewallInv, OwnRules, Crash
<1>2. /\ UNCHANGED <<life, rules>> /\ ~Serving' /\ pc' = "dead" /\ tun' = {}
  BY <1>1 DEF Serving, firewallVars, Crash
<1>3. RulesAccounted'
  BY <1>1, <1>2 DEF RulesAccounted, Accounted
<1>4. InstalledWhole'
  BY <1>1, <1>2 DEF InstalledWhole
<1>5. Progress'
  BY <1>1, <1>2 DEF Progress, Installing, Closing
<1>6. TunHeld'
  BY <1>1, <1>2 DEF TunHeld, Installing, Gone
<1>7. OwnRules'
  BY <1>1, <1>2 DEF OwnRules, Stale, Gone
<1>8. ResidueLate'
  BY <1>1, <1>2 DEF ResidueLate
<1> QED BY <1>3, <1>4, <1>5, <1>6, <1>7, <1>8 DEF FirewallInv

\* The next supervisor, which owns nothing yet.
LEMMA FirewallRestart ==
    ASSUME TypeOK, FirewallInv, ResultInv, Restart
    PROVE  FirewallInv'
<1>1. /\ \A r \in rules : r[1] =< life /\ r[1] \in Nat
      /\ tun = {} /\ life \in Nat
  BY DEF TypeOK, FirewallInv, OwnRules, TunHeld, Gone, Life, Rule, Restart
<1>2. /\ life' = life + 1 /\ UNCHANGED <<rules, tun>> /\ ~Serving' /\ pc' = "inspect"
      /\ installed' = {} /\ route' = 1 /\ ~residue'
  BY <1>1 DEF Serving, firewallVars, Restart
<1>3. RulesAccounted'
  BY <1>1, <1>2 DEF RulesAccounted, Accounted
<1>4. InstalledWhole'
  BY <1>1, <1>2 DEF InstalledWhole
<1>5. Progress'
  BY <1>1, <1>2 DEF Progress, Installing, Closing
<1>6. TunHeld'
  BY <1>1, <1>2 DEF TunHeld, Installing, Gone
<1>7. OwnRules'
  BY <1>1, <1>2 DEF OwnRules, Stale, Gone
<1>8. ResidueLate'
  BY <1>1, <1>2 DEF ResidueLate
<1> QED BY <1>3, <1>4, <1>5, <1>6, <1>7, <1>8 DEF FirewallInv

-----------------------------------------------------------------------------
(* The child *)

\* Steps that neither touch a child nor move the supervisor.
LEMMA ChildElsewhere ==
    ASSUME ChildInv, UNCHANGED <<life, pc, pid, child, stopped, handle>>
    PROVE  ChildInv'
BY DEF ChildInv

\* A step of a child that is there: one whose supervisor is gone may arm itself,
\* and then ends before it executes the hosted kernel.
LEMMA ChildMoves ==
    ASSUME TypeOK, ChildInv, UNCHANGED <<life, pc, pid, stopped, handle>>,
           NEW l \in Life, NEW v, child' = [child EXCEPT ![l] = v],
           child[l] \notin NoChild, v # "reaped",
           ~SupervisorAlive(l) => v \in {"none", "armed"}
    PROVE  ChildInv'
<1>1. life \in Life /\ life \in Nat /\ l \in Nat
  BY DEF TypeOK, Life
<1>2. l =< life
  BY <1>1 DEF ChildInv, NoChild
<1>3. CASE l = life
  BY <1>1, <1>3 DEF ChildInv, TypeOK, NoChild, SupervisorAlive, Life, Closing
<1>4. CASE l < life
  BY <1>1, <1>4 DEF ChildInv, TypeOK, SupervisorAlive, Life
<1> QED BY <1>1, <1>2, <1>3, <1>4

\* The steps of the supervisor.
LEMMA ChildSupervisor ==
    ASSUME TypeOK, ChildInv, SupervisorStep \/ Crash \/ Restart, ~Receive
    PROVE  ChildInv'
<1> USE DEF ChildInv, TypeOK, Life, Closing, Gone, Installing, childVars
<1>1. CASE Inspect
  BY <1>1 DEF Inspect
<1>2. CASE TunOpen
  BY <1>2 DEF TunOpen
<1>3. CASE InstallFirst
  BY <1>3 DEF InstallFirst, Installed
<1>4. CASE InstallDnat
  BY <1>4 DEF InstallDnat
<1>5. CASE InstallJump
  BY <1>5 DEF InstallJump, Installed
<1>6. CASE UndoFlush
  BY <1>6 DEF UndoFlush
<1>7. CASE UndoChain
  BY <1>7 DEF UndoChain
<1>8. CASE Fork
  <2>1. CASE pc' = "exec_status" /\ child' = [child EXCEPT ![life] = "forked"]
    BY <1>8, <2>1 DEF Fork
  <2>2. CASE pc' = "cleanup" /\ UNCHANGED child
    BY <1>8, <2>2 DEF Fork
  <2> QED BY <1>8, <2>1, <2>2 DEF Fork
<1>9. CASE ExecStatus
  BY <1>9, Zenon DEF ExecStatus
<1>10. CASE OpenPidfd
  <2>1. CASE pid' = "child" /\ pc' = "call" /\ UNCHANGED child
    BY <1>10, <2>1 DEF OpenPidfd
  <2>2. CASE pc' = "cleanup" /\ child' = [child EXCEPT ![life] = "reaped"]
    <3>1. child'[life] = "reaped"
      BY <2>2
    <3>2. \A l \in Life : l # life => child'[l] = child[l]
      BY <2>2
    <3>3. life' = life /\ stopped' = stopped /\ ~stopped
      BY <1>10 DEF OpenPidfd
    <3>4. /\ \A l \in Life : l > life => child'[l] = "none"
          /\ \A l \in Life : l < life => child'[l] \in {"none", "forked", "armed"}
      BY <3>2
    <3> HIDE DEF TypeOK, Life
    <3> QED BY <2>2, <3>1, <3>3, <3>4
  <2> QED BY <1>10, <2>1, <2>2 DEF OpenPidfd
<1>11. CASE Send
  BY <1>11 DEF Send, Failed
<1>12. CASE GiveUp
  BY <1>12 DEF GiveUp, Failed
<1>13. CASE WaitSignalOrChild
  BY <1>13 DEF WaitSignalOrChild
<1>14. CASE WaitChild
  BY <1>14 DEF WaitChild
<1>15. CASE Cleanup
  BY <1>15 DEF Cleanup
<1>16. CASE Kill
  <2>1. pc = "kill" /\ pc' = "reap" /\ UNCHANGED <<life, pid, handle, stopped>>
    BY <1>16 DEF Kill
  <2>2. child'[life] \in NoChild /\ \A l \in Life : l # life => child'[l] = child[l]
    BY <1>16, Zenon DEF Kill, NoChild, Alive
  <2> QED BY <2>1, <2>2
<1>17. CASE Reap
  BY <1>17, Zenon DEF Reap, NoChild
<1>18. CASE CloseNext
  BY <1>18 DEF CloseNext
<1>19. CASE CloseJump
  BY <1>19 DEF CloseJump, CloseStep
<1>20. CASE CloseFlush
  BY <1>20 DEF CloseFlush, CloseStep
<1>21. CASE CloseLast
  BY <1>21 DEF CloseLast
<1>22. CASE CloseTun
  BY <1>22 DEF CloseTun
<1>23. CASE Crash
  BY <1>23 DEF Crash
<1>24. CASE Restart
  <2>1. child[life] \in {"none", "reaped", "forked", "armed"}
    BY <1>24 DEF Restart
  <2>2. child'[life] \in {"none", "forked", "armed"}
    BY <1>24, <2>1 DEF Restart
  <2>3. \A l \in Life : l # life => child'[l] = child[l]
    BY <1>24 DEF Restart
  <2>4. life \in Nat /\ life' = life + 1 /\ life' \in Life
    <3>1. life \in 1..MaxLives /\ MaxLives \in Nat
      BY ConstantsAssumption
    <3>2. life < MaxLives /\ life' = life + 1
      BY <1>24 DEF Restart
    <3> QED BY <3>1, <3>2
  <2>5. pc' = "inspect" /\ pid' = "none" /\ ~stopped'
    BY <1>24 DEF Restart
  <2> HIDE DEF TypeOK
  <2>6. child'[life'] = "none"
    BY <2>3, <2>4
  <2> QED BY <2>2, <2>3, <2>4, <2>5, <2>6
<1> QED BY <1>1, <1>2, <1>3, <1>4, <1>5, <1>6, <1>7, <1>8, <1>9, <1>10, <1>11, <1>12, <1>13, <1>14, <1>15, <1>16, <1>17, <1>18, <1>19, <1>20, <1>21, <1>22, <1>23, <1>24, Zenon DEF SupervisorStep

\* The operations of the sequences: SHUTDOWN is the last one of its own, and the
\* start ends with the SERVICE_START of the last route.
LEMMA OpFacts ==
    ASSUME TypeOK
    PROVE  /\ Op(call) \in Ops
           /\ Op(call) = "SHUTDOWN" =>
                  call.script = "shutdown" /\ call.step = Steps(call.script)
           /\ call.script = "start" /\ call.step = Steps(call.script) =>
                  Op(call) = "SERVICE_START"
<1>0. call.script \in Scripts /\ call.step \in Nat /\ call.step \in 1..Steps(call.script)
  BY DEF TypeOK
<1>r. Routes \in Nat /\ Routes > 0
  BY ConstantsAssumption
<1>1. CASE call.script = "start" /\ call.step =< 2
  <2>1. call.step \in {1, 2} /\ Op(call) = StartOps[call.step] /\ call.step # 2 + 6 * Routes
    BY <1>0, <1>1, <1>r DEF Op
  <2>2. Op(call) \in {"HELLO", "L3_ATTACH_IP"}
    BY <2>1 DEF StartOps
  <2>3. Op(call) \in Ops
    BY <2>1 DEF Ops
  <2> QED BY <1>1, <2>1, <2>2, <2>3 DEF Steps
<1>2. CASE call.script = "start" /\ call.step > 2
  <2> DEFINE k == ((call.step - 3) % 6) + 1
  <2>1. k \in 1..6 /\ Op(call) = RouteOps[k]
    BY <1>0, <1>2 DEF Op
  <2>2. call.step = Steps(call.script) => k = 6
    BY <1>0, <1>2, <1>r DEF Steps
  <2> HIDE DEF k
  <2>3. RouteOps[k] # "SHUTDOWN" /\ (k = 6 => RouteOps[k] = "SERVICE_START")
    BY <2>1 DEF RouteOps
  <2>4. RouteOps[k] \in Ops
    BY <2>1 DEF Ops
  <2> QED BY <1>2, <2>1, <2>2, <2>3, <2>4
<1>3. CASE call.script = "shutdown"
  <2>1. call.step \in 1..4 /\ Op(call) = StopOps[call.step] /\ Steps(call.script) = 4
    BY <1>0, <1>3 DEF Op, Steps
  <2>2. StopOps[call.step] = "SHUTDOWN" => call.step = 4
    BY <2>1 DEF StopOps
  <2>3. StopOps[call.step] \in Ops
    BY <2>1 DEF Ops
  <2> QED BY <1>3, <2>1, <2>2, <2>3
<1>4. CASE call.script = "cleanup"
  <2>1. Op(call) = "SERVICE_STOP"
    BY <1>4 DEF Op
  <2>2. "SERVICE_STOP" = StopOps[3]
    BY DEF StopOps
  <2>3. StopOps[3] \in Ops
    BY DEF Ops
  <2> QED BY <1>4, <2>1, <2>2, <2>3
<1> QED BY <1>0, <1>1, <1>2, <1>3, <1>4 DEF Scripts

\* What an answer leads to: the sequence goes on, ends or fails, SHUTDOWN is
\* known to be answered only when it has ended, and ready has a handle.
LEMMA ReceiveFacts ==
    ASSUME TypeOK, Receive
    PROVE  /\ pc' \in {"call", "ready", "wait", "cleanup", "kill"}
           /\ pc' # "wait" => ~stopped'
           /\ pc' = "ready" => handle'
           /\ pc' \in {"call", "ready", "wait"} => call.script # "cleanup"
           /\ pc' = "call" => call.step # Steps(call.script)
                              /\ call' = Call(call.script, call.step + 1)
           /\ pc' # "call" => call' = call
           /\ handle' \in BOOLEAN /\ stopped' \in BOOLEAN
<1> DEFINE good == Accepted(call, Head(responses))
           last == call.step = Steps(call.script)
<1>1. /\ call' = IF good /\ ~last THEN Call(call.script, call.step + 1) ELSE call
      /\ pc' = CASE ~good \/ call.script = "cleanup" -> Failed(call)
                 [] good /\ call.script # "cleanup" /\ ~last -> "call"
                 [] good /\ call.script = "start" /\ last -> "ready"
                 [] good /\ call.script = "shutdown" /\ last -> "wait"
      /\ handle' = (handle \/ (good /\ Op(call) = "SERVICE_START"))
      /\ stopped' = (good /\ Op(call) = "SHUTDOWN")
  BY DEF Receive
<1>2. good \in BOOLEAN /\ last \in BOOLEAN /\ call.script \in Scripts
  BY DEF TypeOK, Accepted
<1>3. call.script = "cleanup" => last
  BY DEF TypeOK, Steps
<1> HIDE DEF good, last
<1>4. Failed(call) \in {"kill", "cleanup"}
  BY DEF Failed
<1>5. /\ Op(call) = "SHUTDOWN" => call.script = "shutdown" /\ last
      /\ call.script = "start" /\ last => Op(call) = "SERVICE_START"
  BY OpFacts DEF last
<1>6. handle' \in BOOLEAN /\ stopped' \in BOOLEAN
  BY <1>1, Zenon
<1>7. CASE ~good
  BY <1>1, <1>4, <1>6, <1>7, Zenon
<1>8. CASE call.script = "cleanup"
  BY <1>1, <1>3, <1>4, <1>5, <1>6, <1>8, Zenon
<1>9. CASE good /\ call.script # "cleanup" /\ ~last
  BY <1>1, <1>5, <1>6, <1>9, Zenon DEF last
<1>10. CASE good /\ call.script = "start" /\ last
  BY <1>1, <1>5, <1>6, <1>10, Zenon
<1>11. CASE good /\ call.script = "shutdown" /\ last
  BY <1>1, <1>6, <1>11
<1> QED BY <1>2, <1>7, <1>8, <1>9, <1>10, <1>11 DEF Scripts

\* The answer of the hosted kernel.
LEMMA ChildReceive ==
    ASSUME TypeOK, ChildInv, Receive
    PROVE  ChildInv'
<1>1. pc = "answer" /\ UNCHANGED <<life, child, pid>>
  BY DEF Receive, childVars
<1>2. pid = "child"
  BY <1>1 DEF ChildInv
<1>3. /\ pc' \in {"call", "ready", "wait", "cleanup", "kill"}
      /\ pc' # "wait" => ~stopped'
      /\ pc' = "ready" => handle'
  BY ReceiveFacts
<1> QED BY <1>1, <1>2, <1>3 DEF ChildInv, Installing, Closing, Gone

\* Every step.
LEMMA ChildNext ==
    ASSUME TypeOK, ChildInv, Next
    PROVE  ChildInv'
<1>0. life \in Life
  BY DEF TypeOK
<1>1. ASSUME NEW l \in Life, ChildArm(l)
      PROVE  ChildInv'
  <2>1. UNCHANGED <<life, pc, pid, stopped, handle>> /\ child[l] \notin NoChild
    BY <1>1 DEF ChildArm, NoChild
  <2>2. child' = [child EXCEPT ![l] = "armed"]
    BY <1>1 DEF ChildArm
  <2> QED BY <2>1, <2>2, ChildMoves, Zenon
<1>2. ASSUME NEW l \in Life, ChildExec(l)
      PROVE  ChildInv'
  <2>1. UNCHANGED <<life, pc, pid, stopped, handle>> /\ child[l] \notin NoChild
    BY <1>2 DEF ChildExec, NoChild
  <2>2. PICK v : /\ child' = [child EXCEPT ![l] = v] /\ v # "reaped"
                 /\ ~SupervisorAlive(l) => v = "none"
    BY <1>2 DEF ChildExec
  <2> QED BY <2>1, <2>2, ChildMoves, Zenon
<1>3. CASE ChildBoot \/ ChildLeaves \/ ChildHangs \/ ChildDies
  <2>1. UNCHANGED <<life, pc, pid, stopped, handle>>
    BY <1>3 DEF ChildBoot, ChildLeaves, ChildHangs, ChildDies
  <2>2. child[life] \notin NoChild
        /\ (SupervisorAlive(life) \/ child[life] \in {"booting", "hosted", "leaving"})
    BY <1>3 DEF ChildBoot, ChildLeaves, ChildHangs, ChildDies, NoChild, Alive
  <2>3. PICK v : child' = [child EXCEPT ![life] = v] /\ v # "reaped"
    BY <1>3 DEF ChildBoot, ChildLeaves, ChildHangs, ChildDies
  <2>4. SupervisorAlive(life)
    BY <2>2 DEF ChildInv, SupervisorAlive, NoChild
  <2> QED BY <1>0, <2>1, <2>2, <2>3, <2>4, ChildMoves, Zenon
<1>4. CASE ChildAnswer
  <2>1. UNCHANGED <<life, pc, pid, stopped, handle>> /\ child[life] = "hosted"
    BY <1>4 DEF ChildAnswer
  <2>2. PICK v : child' = [child EXCEPT ![life] = v] /\ v # "reaped"
    <3>1. child' = [child EXCEPT ![life] = "leaving"] \/ child' = [child EXCEPT ![life] = @]
      BY <1>4, Zenon DEF ChildAnswer
    <3> QED BY <2>1, <3>1
  <2>3. SupervisorAlive(life) /\ child[life] \notin NoChild
    BY <2>1 DEF ChildInv, SupervisorAlive, NoChild
  <2> QED BY <1>0, <2>1, <2>2, <2>3, ChildMoves, Zenon
<1>5. CASE ChildTake \/ Tick \/ Signal
  <2>1. UNCHANGED <<life, pc, pid, child, stopped, handle>>
    BY <1>5 DEF ChildTake, Tick, Signal, childVars
  <2> QED BY <2>1, ChildElsewhere
<1>6. CASE SupervisorStep \/ Crash \/ Restart
  BY <1>6, ChildSupervisor, ChildReceive
<1> QED BY <1>1, <1>2, <1>3, <1>4, <1>5, <1>6 DEF Next, ChildStep

-----------------------------------------------------------------------------
(* The exit status, and the pid the supervisor keeps *)

\* A step that leaves the status alone keeps what it says when the child and the
\* place in main do.
LEMMA ResultElsewhere ==
    ASSUME ResultInv, UNCHANGED result,
           result = 0 => /\ pc' \in {"cleanup"} \cup Closing \cup Gone
                         /\ exit'[life'] = exit[life] /\ child'[life'] \in {"none", "reaped"}
                         /\ pid' = "none"
    PROVE  ResultInv'
BY DEF ResultInv

\* Every step: WaitChild alone gives status 0.
LEMMA ResultNext ==
    ASSUME TypeOK, ChildInv, ResultInv, Next
    PROVE  ResultInv'
<1> USE DEF Closing, Gone
<1>0. life \in Life /\ result \in {0, 1}
      /\ DOMAIN child = Life /\ DOMAIN exit = Life
  BY DEF TypeOK
<1>1. CASE \E l \in Life : ChildArm(l) \/ ChildExec(l)
  <2>1. PICK l \in Life : ChildArm(l) \/ ChildExec(l)
    BY <1>1
  <2>2. UNCHANGED <<life, pc, pid, exit, result>> /\ child[l] \in {"forked", "armed"}
    BY <2>1 DEF ChildArm, ChildExec
  <2>3. PICK v : child' = [child EXCEPT ![l] = v]
    BY <2>1 DEF ChildArm, ChildExec
  <2>4. result = 0 => child'[life] = child[life]
    BY <2>2, <2>3, <1>0 DEF ResultInv
  <2> QED BY <2>2, <2>4, ResultElsewhere DEF ResultInv
<1>2. CASE ChildBoot \/ ChildLeaves \/ ChildHangs \/ ChildDies \/ ChildAnswer
  <2>1. child[life] \notin {"none", "reaped"} /\ UNCHANGED result
    BY <1>2 DEF ChildBoot, ChildLeaves, ChildHangs, ChildDies, ChildAnswer, Alive, NoChild
  <2> QED BY <2>1, ResultElsewhere DEF ResultInv
<1>3. CASE ChildTake \/ Tick \/ Signal
  <2>1. UNCHANGED <<life, pc, pid, exit, child, result>>
    BY <1>3 DEF ChildTake, Tick, Signal, childVars
  <2> QED BY <2>1, ResultElsewhere DEF ResultInv
<1>4. CASE \/ Inspect \/ TunOpen \/ InstallFirst \/ InstallDnat \/ InstallJump
           \/ UndoFlush \/ UndoChain \/ Fork \/ ExecStatus \/ OpenPidfd \/ Send
           \/ Receive \/ GiveUp \/ WaitSignalOrChild \/ Kill \/ Reap
  <2>1. UNCHANGED result /\ pc \notin {"cleanup"} \cup Closing \cup Gone
    BY <1>4 DEF Inspect, TunOpen, InstallFirst, InstallDnat, InstallJump, UndoFlush, UndoChain,
                Fork, ExecStatus, OpenPidfd, Send, Receive, GiveUp, WaitSignalOrChild, Kill,
                Reap
  <2> QED BY <2>1, ResultElsewhere DEF ResultInv
<1>5. CASE WaitChild
  <2>1. pc' = "cleanup" /\ child'[life] = "reaped" /\ pid' = "none"
        /\ UNCHANGED <<life, exit>> /\ result' = IF exit[life] = "clean" THEN 0 ELSE result
    BY <1>0, <1>5 DEF WaitChild
  <2>2. result # 0
    BY <1>5 DEF WaitChild, ResultInv
  <2> QED BY <2>1, <2>2 DEF ResultInv
<1>6. CASE Cleanup
  <2>1. UNCHANGED <<life, pid, exit, child, result>> /\ (pid = "none" => pc' = "close")
    BY <1>6 DEF Cleanup, childVars
  <2> QED BY <2>1, ResultElsewhere DEF ResultInv
<1>7. CASE CloseNext \/ CloseJump \/ CloseFlush \/ CloseLast \/ CloseTun
  <2>1. UNCHANGED <<life, pid, exit, child>> /\ pc' \in Closing \cup Gone
        /\ result' \in {1, result}
    BY <1>7 DEF CloseNext, CloseJump, CloseFlush, CloseLast, CloseTun, CloseStep, childVars
  <2> QED BY <2>1 DEF ResultInv
<1>8. CASE Crash
  <2>1. UNCHANGED <<life, pid, exit, result>> /\ pc' = "dead"
        /\ (child[life] # "forked" => child'[life] = "none")
    BY <1>0, <1>8 DEF Crash
  <2> QED BY <2>1, ResultElsewhere DEF ResultInv
<1>9. CASE Restart
  BY <1>9 DEF Restart, ResultInv
<1> QED BY <1>1, <1>2, <1>3, <1>4, <1>5, <1>6, <1>7, <1>8, <1>9
        DEF Next, ChildStep, SupervisorStep

\* Every step: but for a failed pidfd_open, whoever reaps the child forgets its pid.
LEMMA PidNext ==
    ASSUME TypeOK, ChildInv, PidInv, Next
    PROVE  PidInv'
<1>0. life \in Life /\ DOMAIN child = Life
  BY DEF TypeOK
<1>1. CASE \E l \in Life : ChildArm(l) \/ ChildExec(l)
  <2>1. PICK l \in Life : ChildArm(l) \/ ChildExec(l)
    BY <1>1
  <2>2. UNCHANGED <<life, pid>>
    BY <2>1 DEF ChildArm, ChildExec
  <2>3. PICK v : child' = [child EXCEPT ![l] = v] /\ v # "reaped"
    BY <2>1 DEF ChildArm, ChildExec
  <2> QED BY <1>0, <2>2, <2>3 DEF PidInv
<1>2. CASE ChildBoot \/ ChildLeaves \/ ChildHangs \/ ChildDies \/ ChildAnswer
  <2>1. UNCHANGED <<life, pid>> /\ child'[life] # "reaped"
    BY <1>0, <1>2 DEF ChildBoot, ChildLeaves, ChildHangs, ChildDies, ChildAnswer
  <2> QED BY <2>1 DEF PidInv
<1>3. CASE \/ ChildTake \/ Tick \/ Signal
           \/ Inspect \/ TunOpen \/ InstallFirst \/ InstallDnat \/ InstallJump
           \/ UndoFlush \/ UndoChain \/ Send \/ Receive \/ GiveUp \/ WaitSignalOrChild
           \/ Cleanup \/ CloseNext \/ CloseJump \/ CloseFlush \/ CloseLast \/ CloseTun
  <2>1. UNCHANGED <<life, pid, child>>
    BY <1>3, Zenon DEF ChildTake, Tick, Signal, Inspect, TunOpen, InstallFirst, InstallDnat,
                InstallJump, UndoFlush, UndoChain, Send, Receive, GiveUp, WaitSignalOrChild,
                Cleanup, CloseNext, CloseJump, CloseFlush, CloseLast, CloseTun, CloseStep,
                childVars
  <2> QED BY <2>1 DEF PidInv
<1>4. CASE Fork \/ ExecStatus
  <2>1. UNCHANGED pid /\ pid = "none"
    BY <1>4 DEF Fork, ExecStatus, ChildInv
  <2> QED BY <2>1 DEF PidInv
<1>5. CASE OpenPidfd
  <2>1. pid = "none" /\ UNCHANGED life
    BY <1>5 DEF OpenPidfd, ChildInv
  <2>2. CASE UNCHANGED pid \/ "pidfd" \in Faults
    BY <2>1, <2>2 DEF PidInv
  <2>3. CASE UNCHANGED child
    <3>1. child[life] # "reaped"
      BY <1>5 DEF OpenPidfd, ChildInv
    <3> QED BY <2>1, <2>3, <3>1 DEF PidInv
  <2>4. UNCHANGED pid \/ "pidfd" \in Faults \/ UNCHANGED child
    BY <1>5 DEF OpenPidfd
  <2> QED BY <2>2, <2>3, <2>4
<1>6. CASE WaitChild \/ Restart
  BY <1>6 DEF WaitChild, Restart, PidInv
<1>7. CASE Kill
  BY <1>0, <1>7 DEF Kill, PidInv
<1>8. CASE Reap
  BY <1>8 DEF Reap, PidInv
<1>9. CASE Crash
  BY <1>0, <1>9 DEF Crash, PidInv
<1> QED BY <1>1, <1>2, <1>3, <1>4, <1>5, <1>6, <1>7, <1>8, <1>9
        DEF Next, ChildStep, SupervisorStep

-----------------------------------------------------------------------------
(* The control channel *)

\* The requests that are not answered, and the answers not read.
Pending == Len(requests) + Len(responses) + (IF op = Idle THEN 0 ELSE 1)

\* Steps that touch neither the channel nor the call and stay where they are, or
\* go to a place that expects nothing of the channel.
LEMMA ChannelElsewhere ==
    ASSUME ChannelInv, UNCHANGED channelVars,
           \/ UNCHANGED <<pc, call>>
           \/ pc' \in {"wait", "cleanup", "kill", "reap"} \cup Closing \cup Gone
           \/ pc' \in {"call", "answer"} /\ call'.script = "cleanup"
    PROVE  ChannelInv'
<1>1. UNCHANGED <<requests, responses, op>>
  BY DEF channelVars
<1>2. (Quiet' <=> Quiet)
  BY <1>1 DEF Quiet
<1> QED BY <1>1, <1>2 DEF ChannelInv, NoStaleAnswer, Installing, Closing, Gone

\* Steps of the start before its first transaction.
LEMMA ChannelStart ==
    ASSUME ChannelInv, UNCHANGED <<channelVars, call>>,
           pc \in {"inspect", "tun", "spawn", "exec_status", "pidfd"} \cup Installing,
           pc' # "answer"
    PROVE  ChannelInv'
<1>1. UNCHANGED <<requests, responses, op>> /\ Quiet /\ call = Call("start", 1)
  BY DEF channelVars, ChannelInv
<1>2. Quiet'
  BY <1>1 DEF Quiet
<1> QED BY <1>1, <1>2 DEF ChannelInv, NoStaleAnswer

\* A step of the hosted kernel on the channel, or of time, that leaves no more
\* pending than it found, and finds something.
LEMMA ChannelHosted ==
    ASSUME ChannelInv, UNCHANGED pc, call'.script = call.script, ~Quiet,
           Pending \in Int, Pending' \in Int, Pending' =< Pending
    PROVE  ChannelInv'
BY DEF ChannelInv, NoStaleAnswer, Pending

\* A pending request or answer is one too many for an empty channel.
LEMMA PendingQuiet ==
    ASSUME TypeOK
    PROVE  /\ Pending \in Nat
           /\ Quiet <=> Pending = 0
<1>1. Len(requests) \in Nat /\ Len(responses) \in Nat
      /\ (Len(requests) = 0 <=> requests = <<>>) /\ (Len(responses) = 0 <=> responses = <<>>)
  BY EmptySeq, LenProperties DEF TypeOK
<1> QED BY <1>1 DEF Pending, Quiet

\* Every step: a request is sent into an empty channel, but for the cleanup.
LEMMA ChannelNext ==
    ASSUME TypeOK, ChildInv, ChannelInv, Next
    PROVE  ChannelInv'
<1> USE DEF Closing, Gone
<1>0. requests \in Seq(Ops) /\ responses \in Seq(Answers) /\ op \in Answers \cup {Idle}
  BY DEF TypeOK
<1>1. CASE \E l \in Life : ChildArm(l) \/ ChildExec(l)
  BY <1>1, ChannelElsewhere DEF ChildArm, ChildExec
<1>2. CASE ChildBoot \/ ChildLeaves \/ ChildHangs \/ ChildDies \/ Signal
  BY <1>2, ChannelElsewhere DEF ChildBoot, ChildLeaves, ChildHangs, ChildDies, Signal
<1>3. CASE Inspect \/ TunOpen \/ InstallFirst \/ InstallDnat \/ InstallJump \/ UndoFlush
           \/ UndoChain \/ Fork \/ ExecStatus \/ OpenPidfd
  <2>1. UNCHANGED <<channelVars, call>> /\ pc' # "answer"
        /\ pc \in {"inspect", "tun", "spawn", "exec_status", "pidfd"} \cup Installing
    BY <1>3, Zenon DEF Inspect, TunOpen, InstallFirst, InstallDnat, InstallJump, UndoFlush,
                UndoChain, Fork, ExecStatus, OpenPidfd, Installed, Installing
  <2> QED BY <2>1, ChannelStart
<1>4. CASE CloseNext \/ CloseJump \/ CloseFlush \/ CloseLast \/ CloseTun \/ Crash
           \/ GiveUp \/ WaitChild \/ Kill \/ Reap
  <2>1. UNCHANGED channelVars
        /\ pc' \in {"wait", "cleanup", "kill", "reap"} \cup Closing \cup Gone
    BY <1>4 DEF CloseNext, CloseJump, CloseFlush, CloseLast, CloseTun, CloseStep, Crash,
                GiveUp, Failed, WaitChild, Kill, Reap
  <2> QED BY <2>1, ChannelElsewhere
<1>5. CASE Cleanup
  <2>1. UNCHANGED channelVars
        /\ (pc' \in {"close", "kill"} \/ (pc' = "call" /\ call' = Call("cleanup", 1)))
    BY <1>5 DEF Cleanup
  <2>2. Call("cleanup", 1).script = "cleanup"
    BY DEF Call
  <2> QED BY <2>1, <2>2, ChannelElsewhere
<1>6. CASE Send
  <2>1. CASE ~Alive(life)
    <3>1. UNCHANGED channelVars /\ pc' \in {"kill", "cleanup"}
      BY <1>6, <2>1 DEF Send, Failed, channelVars
    <3> QED BY <3>1, ChannelElsewhere
  <2>2. CASE Alive(life)
    <3>1. pc = "call" /\ pc' = "answer" /\ requests' = Append(requests, Op(call))
          /\ UNCHANGED <<responses, op, call>>
      BY <1>6, <2>2 DEF Send
    <3>2. Len(requests') = Len(requests) + 1
      <4>1. Op(call) \in Ops
        BY OpFacts
      <4> QED BY <1>0, <3>1, <4>1, AppendProperties
    <3>3. call.script # "cleanup" => Pending = 0
      BY <3>1, PendingQuiet DEF ChannelInv
    <3>4. Len(requests) \in Nat /\ Len(responses) \in Nat
      BY <1>0, LenProperties
    <3>5. call.script # "cleanup" => Pending' = 1
      BY <3>1, <3>2, <3>3, <3>4 DEF Pending
    <3> QED BY <3>1, <3>5 DEF ChannelInv, NoStaleAnswer, Pending, Installing
  <2> QED BY <2>1, <2>2
<1>7. CASE Receive
  <2>1. pc = "answer" /\ responses # <<>> /\ responses' = Tail(responses)
        /\ UNCHANGED <<requests, op>>
    BY <1>7 DEF Receive
  <2>2. pc' \in {"call", "ready", "wait", "cleanup", "kill"}
        /\ (pc' \in {"call", "ready", "wait"} => call.script # "cleanup")
    BY <1>7, ReceiveFacts
  <2>3. /\ Len(requests) \in Nat /\ Len(responses) \in Nat /\ Len(responses) > 0
        /\ Tail(responses) \in Seq(Answers) /\ Len(Tail(responses)) = Len(responses) - 1
    BY <1>0, <2>1, EmptySeq, LenProperties, HeadTailProperties
  <2>4. CASE call.script # "cleanup"
    <3>1. Pending =< 1
      BY <2>1, <2>4 DEF ChannelInv, NoStaleAnswer, Pending
    <3>2. Len(requests) = 0 /\ Len(responses) = 1 /\ op = Idle
      BY <2>3, <3>1 DEF Pending
    <3>3. requests = <<>>
      BY <1>0, <3>2, EmptySeq
    <3>4. \A s \in Seq(Answers) : Len(s) = 0 => s = <<>>
      BY EmptySeq
    <3>5. Tail(responses) \in Seq(Answers) /\ Len(Tail(responses)) = 0
      BY <2>3, <3>2
    <3>6. Tail(responses) = <<>>
      BY <3>4, <3>5, Zenon
    <3>7. Quiet'
      BY <2>1, <3>2, <3>3, <3>6 DEF Quiet
    <3> QED BY <2>2, <3>7 DEF ChannelInv, NoStaleAnswer, Installing
  <2>5. CASE call.script = "cleanup"
    BY <2>2, <2>5 DEF ChannelInv, NoStaleAnswer, Installing
  <2> QED BY <2>4, <2>5
<1>8. CASE WaitSignalOrChild
  <2>1. pc = "ready" /\ UNCHANGED channelVars /\ pc' \in {"call", "cleanup"}
    BY <1>8 DEF WaitSignalOrChild
  <2>2. Quiet /\ UNCHANGED <<requests, responses, op>>
    BY <2>1 DEF ChannelInv, channelVars
  <2>3. Quiet'
    BY <2>2 DEF Quiet
  <2> QED BY <2>1, <2>3 DEF ChannelInv, NoStaleAnswer, Installing
<1>9. CASE Restart
  <2>1. pc' = "inspect" /\ Quiet' /\ call' = Call("start", 1)
    BY <1>9 DEF Restart, Quiet
  <2> QED BY <2>1 DEF ChannelInv, NoStaleAnswer
<1>10. CASE ChildTake
  <2>1. requests # <<>> /\ requests' = Tail(requests) /\ op = Idle
        /\ UNCHANGED <<pc, call, responses>>
    BY <1>10 DEF ChildTake
  <2>2. Len(requests) \in Nat /\ Len(responses) \in Nat
        /\ Len(Tail(requests)) = Len(requests) - 1
    BY <1>0, <2>1, EmptySeq, LenProperties, HeadTailProperties
  <2>3. Pending \in Int /\ Pending' \in Int /\ Pending' =< Pending
    BY <2>1, <2>2 DEF Pending
  <2> QED BY <2>1, <2>3, ChannelHosted DEF Quiet
<1>11. CASE ChildAnswer
  <2>1. op # Idle /\ op' = Idle /\ responses' = Append(responses, op)
        /\ UNCHANGED <<pc, call, requests>>
    BY <1>11 DEF ChildAnswer
  <2>2. Len(requests) \in Nat /\ Len(responses) \in Nat
        /\ Len(Append(responses, op)) = Len(responses) + 1
    BY <1>0, <2>1, LenProperties, AppendProperties
  <2>3. Pending \in Int /\ Pending' \in Int /\ Pending' =< Pending
    BY <2>1, <2>2 DEF Pending
  <2> QED BY <2>1, <2>3, ChannelHosted DEF Quiet
<1>12. CASE Tick
  <2>1. pc = "answer" /\ UNCHANGED <<pc, requests, responses, op>>
    BY <1>12 DEF Tick
  <2>2. call'.script = call.script
    BY <1>12 DEF Tick, TypeOK
  <2> QED BY <2>1, <2>2 DEF ChannelInv, NoStaleAnswer, Installing
<1> QED BY <1>1, <1>2, <1>3, <1>4, <1>5, <1>6, <1>7, <1>8, <1>9, <1>10, <1>11, <1>12
        DEF Next, ChildStep, SupervisorStep

-----------------------------------------------------------------------------
(* Types *)

HostTypes ==
    /\ life \in Life /\ pc \in Pcs /\ tun \subseteq {life} /\ route \in 0..Routes
    /\ rules \subseteq Rule /\ installed \subseteq Route /\ residue \in BOOLEAN
    /\ result \in {0, 1}
ChildTypes ==
    /\ pid \in {"none", "child"}
    /\ child \in [Life -> NoChild \cup Running \cup {"forked", "armed", "failed"}]
    /\ exit \in [Life -> {"none", "clean", "bad"}]
    /\ handle \in BOOLEAN /\ stopped \in BOOLEAN /\ signal \in BOOLEAN
CallTypes ==
    /\ call \in [script : Scripts, step : Nat, age : 0..CONTROL_TIMEOUT]
    /\ call.step \in 1..Steps(call.script)
ChannelTypes ==
    /\ requests \in Seq(Ops) /\ responses \in Seq(Answers)
    /\ op \in Answers \cup {Idle}
    /\ work \in 0..(IF GRACE > CONTROL_TIMEOUT THEN GRACE ELSE CONTROL_TIMEOUT)

\* The type invariant, part by part.
LEMMA TypeParts == TypeOK <=> HostTypes /\ ChildTypes /\ CallTypes /\ ChannelTypes
BY DEF TypeOK, HostTypes, ChildTypes, CallTypes, ChannelTypes

\* The type of the host network is kept: a rule is installed for this life and
\* this route, and the routes are counted from 1 up and from Routes down.
LEMMA HostTypesNext ==
    ASSUME TypeOK, FirewallInv, Next
    PROVE  HostTypes'
<1>0. /\ life \in Life /\ pc \in Pcs /\ tun \subseteq {life} /\ route \in 0..Routes
      /\ rules \subseteq Rule /\ installed \subseteq Route /\ residue \in BOOLEAN
      /\ result \in {0, 1}
  BY DEF TypeOK
<1>r. Routes \in Nat /\ Routes > 0 /\ MaxLives \in Nat
  BY ConstantsAssumption
<1>m. ASSUME NEW k \in Route, NEW x \in Parts
      PROVE  <<life, k, x>> \in Rule
  BY <1>0 DEF Rule
<1>1. CASE \/ (\E l \in Life : ChildArm(l) \/ ChildExec(l))
           \/ ChildBoot \/ ChildTake \/ ChildAnswer \/ ChildLeaves \/ Tick \/ ChildDies
           \/ ChildHangs \/ Signal
  <2>1. UNCHANGED <<life, pc, tun, route, rules, installed, residue, result>>
    BY <1>1 DEF ChildArm, ChildExec, ChildBoot, ChildTake, ChildAnswer, ChildLeaves, Tick,
                ChildDies, ChildHangs, Signal, firewallVars
  <2> QED BY <1>0, <2>1 DEF HostTypes
<1>2. CASE \/ Fork \/ ExecStatus \/ OpenPidfd \/ Send \/ GiveUp
           \/ WaitSignalOrChild \/ WaitChild \/ Kill
  <2>1. UNCHANGED <<life, tun, route, rules, installed, residue>> /\ result' \in {0, result}
    BY <1>2, Zenon DEF Fork, ExecStatus, OpenPidfd, Send, GiveUp, WaitSignalOrChild,
                WaitChild, Kill, firewallVars
  <2>2. pc' \in Pcs
    BY <1>2, Zenon DEF Fork, ExecStatus, OpenPidfd, Send, GiveUp, WaitSignalOrChild,
                WaitChild, Kill, Failed, Pcs
  <2> QED BY <1>0, <2>1, <2>2 DEF HostTypes
<1>3. CASE Receive
  <2>1. UNCHANGED <<life, tun, route, rules, installed, residue, result>>
    BY <1>3 DEF Receive, firewallVars
  <2>2. pc' \in Pcs
    BY <1>3, ReceiveFacts DEF Pcs
  <2> QED BY <1>0, <2>1, <2>2 DEF HostTypes
<1>4. CASE Inspect \/ TunOpen \/ CloseTun \/ Cleanup \/ Reap \/ Crash
  <2>1. UNCHANGED <<life, rules, installed, residue, result>>
    BY <1>4 DEF Inspect, TunOpen, CloseTun, Cleanup, Reap, Crash, firewallVars
  <2>2. pc' \in Pcs
    BY <1>4 DEF Inspect, TunOpen, CloseTun, Cleanup, Reap, Crash, Pcs
  <2>3. tun' \in {tun, tun \cup {life}, tun \ {life}} /\ route' \in {route, Routes}
    BY <1>4 DEF Inspect, TunOpen, CloseTun, Cleanup, Reap, Crash
  <2>4. tun' \subseteq {life'} /\ route' \in 0..Routes
    BY <1>0, <1>r, <2>1, <2>3
  <2> QED BY <1>0, <2>1, <2>2, <2>4 DEF HostTypes
<1>5. CASE InstallFirst \/ InstallDnat \/ InstallJump
  <2>1. route \in Route
    <3>1. CASE InstallFirst
      BY <1>0, <3>1, <1>r DEF InstallFirst, FirewallInv, Progress, Installing, Route
    <3>2. CASE InstallDnat
      BY <1>0, <3>2, <1>r DEF InstallDnat, FirewallInv, Progress, Installing, Route
    <3>3. CASE InstallJump
      BY <1>0, <3>3, <1>r DEF InstallJump, FirewallInv, Progress, Installing, Route
    <3> QED BY <1>5, <3>1, <3>2, <3>3
  <2>2. UNCHANGED <<life, tun, residue, result>>
    BY <1>5 DEF InstallFirst, InstallDnat, InstallJump
  <2>3. /\ pc' \in Pcs
        /\ installed' \in {installed, installed \cup {route}}
        /\ route' = route \/ (route < Routes /\ route' = route + 1)
    BY <1>5 DEF InstallFirst, InstallDnat, InstallJump, Installed, Pcs
  <2>4. \E x \in Parts : rules' \in {rules, rules \cup {<<life, route, x>>}}
    <3>1. CASE InstallFirst
      BY <3>1, PartsOfKind DEF InstallFirst
    <3>2. CASE InstallDnat \/ InstallJump
      <4>1. KIND = "iptables"
        BY <3>2 DEF InstallDnat, InstallJump, FirewallInv, Progress
      <4> QED BY <3>2, <4>1, PartsOfKind DEF InstallDnat, InstallJump
    <3> QED BY <1>5, <3>1, <3>2
  <2>5. rules' \subseteq Rule
    BY <1>0, <1>m, <2>1, <2>4
  <2>6. route' \in 0..Routes
    BY <1>0, <1>r, <2>3
  <2> QED BY <1>0, <2>1, <2>2, <2>3, <2>5, <2>6 DEF HostTypes
<1>6. CASE UndoFlush \/ UndoChain \/ CloseJump \/ CloseFlush \/ CloseLast
  <2>1. UNCHANGED <<life, tun>> /\ pc' \in Pcs
    BY <1>6 DEF UndoFlush, UndoChain, CloseJump, CloseFlush, CloseLast, CloseStep, Pcs
  <2>2. rules' \subseteq rules /\ residue' \in {TRUE, residue}
    BY <1>6, Zenon DEF UndoFlush, UndoChain, CloseJump, CloseFlush, CloseLast, CloseStep, Remove
  <2>3. installed' \subseteq installed /\ result' \in {1, result}
    BY <1>6, Zenon DEF UndoFlush, UndoChain, CloseJump, CloseFlush, CloseLast, CloseStep
  <2>4. route' = route \/ (route > 0 /\ route' = route - 1)
    BY <1>6 DEF UndoFlush, UndoChain, CloseJump, CloseFlush, CloseLast, CloseStep,
                FirewallInv, Progress
  <2>5. route' \in 0..Routes
    BY <1>0, <1>r, <2>4
  <2> QED BY <1>0, <2>1, <2>2, <2>3, <2>5, Zenon DEF HostTypes
<1>7. CASE CloseNext
  <2>1. UNCHANGED <<life, tun, rules, installed, residue, result>> /\ pc' \in Pcs
        /\ (route' = route \/ (route > 0 /\ route' = route - 1))
    BY <1>7 DEF CloseNext, firewallVars, Pcs
  <2>2. route' \in 0..Routes
    BY <1>0, <1>r, <2>1
  <2> QED BY <1>0, <2>1, <2>2 DEF HostTypes
<1>8. CASE Restart
  <2>1. pc' = "inspect" /\ life' \in Life /\ route' = 1 /\ installed' = {}
        /\ residue' = FALSE /\ result' = 1 /\ UNCHANGED <<tun, rules>>
    BY <1>0, <1>r, <1>8 DEF Restart, Life
  <2>2. tun = {}
    BY <1>8 DEF Restart, FirewallInv, TunHeld, Gone
  <2>3. pc' \in Pcs /\ tun' \subseteq {life'} /\ route' \in 0..Routes
        /\ installed' \subseteq Route
    BY <1>r, <2>1, <2>2 DEF Pcs
  <2> QED BY <1>0, <2>1, <2>3, Zenon DEF HostTypes
<1> QED BY <1>1, <1>2, <1>3, <1>4, <1>5, <1>6, <1>7, <1>8
        DEF Next, ChildStep, SupervisorStep

\* The type of the child is kept, and of what the supervisor knows of it.
LEMMA ChildTypesNext ==
    ASSUME TypeOK, Next
    PROVE  ChildTypes'
<1> DEFINE States == NoChild \cup Running \cup {"forked", "armed", "failed"}
<1>0. /\ pid \in {"none", "child"} /\ child \in [Life -> States]
      /\ exit \in [Life -> {"none", "clean", "bad"}]
      /\ handle \in BOOLEAN /\ stopped \in BOOLEAN /\ signal \in BOOLEAN
      /\ life \in Life
  BY DEF TypeOK
<1>s. {"none", "zombie", "reaped", "booting", "hosted", "hung", "leaving", "forked", "armed",
       "failed"} \subseteq States
  BY DEF NoChild, Running
<1>p. ChildTypes' <=> /\ pid' \in {"none", "child"} /\ child' \in [Life -> States]
                      /\ exit' \in [Life -> {"none", "clean", "bad"}]
                      /\ handle' \in BOOLEAN /\ stopped' \in BOOLEAN /\ signal' \in BOOLEAN
  BY DEF ChildTypes
<1> HIDE DEF States
<1>1. CASE \E l \in Life : ChildArm(l) \/ ChildExec(l)
  <2>1. PICK l \in Life : ChildArm(l) \/ ChildExec(l)
    BY <1>1
  <2>2. UNCHANGED <<pid, exit, handle, stopped, signal>>
    BY <2>1 DEF ChildArm, ChildExec
  <2>3. \E v \in States : child' = [child EXCEPT ![l] = v]
    BY <1>s, <2>1 DEF ChildArm, ChildExec
  <2>4. child' \in [Life -> States]
    BY <1>0, <2>3
  <2> QED BY <1>0, <1>p, <2>2, <2>4
<1>2. CASE ChildBoot \/ ChildAnswer \/ ChildHangs \/ Fork \/ ExecStatus
  <2>1. UNCHANGED <<pid, exit, handle, stopped, signal>>
    BY <1>2 DEF ChildBoot, ChildAnswer, ChildHangs, Fork, ExecStatus
  <2>2. child[life] \in States
    BY <1>0
  <2>3. UNCHANGED child \/ \E v \in States : child' = [child EXCEPT ![life] = v]
    BY <1>s, <1>2, <2>2 DEF ChildBoot, ChildAnswer, ChildHangs, Fork, ExecStatus
  <2>4. child' \in [Life -> States]
    BY <1>0, <2>3
  <2> QED BY <1>0, <1>p, <2>1, <2>4
<1>3. CASE ChildLeaves \/ ChildDies \/ Kill
  <2>1. UNCHANGED <<pid, handle, stopped, signal>>
    BY <1>3 DEF ChildLeaves, ChildDies, Kill
  <2>2. UNCHANGED child \/ child' = [child EXCEPT ![life] = "zombie"]
    BY <1>3 DEF ChildLeaves, ChildDies, Kill
  <2>3. UNCHANGED exit \/ \E v \in {"clean", "bad"} : exit' = [exit EXCEPT ![life] = v]
    BY <1>3 DEF ChildLeaves, ChildDies, Kill
  <2>4. child' \in [Life -> States]
    BY <1>0, <1>s, <2>2
  <2>5. exit' \in [Life -> {"none", "clean", "bad"}]
    BY <1>0, <2>3
  <2> QED BY <1>0, <1>p, <2>1, <2>4, <2>5
<1>4. CASE OpenPidfd \/ WaitChild \/ Reap
  <2>1. UNCHANGED <<exit, handle, stopped, signal>> /\ pid' \in {"none", "child"}
    BY <1>0, <1>4 DEF OpenPidfd, WaitChild, Reap
  <2>2. UNCHANGED child \/ child' = [child EXCEPT ![life] = "reaped"]
    BY <1>4, Zenon DEF OpenPidfd, WaitChild, Reap
  <2>3. child' \in [Life -> States]
    BY <1>0, <1>s, <2>2
  <2> QED BY <1>0, <1>p, <2>1, <2>3
<1>5. CASE \/ ChildTake \/ Tick
           \/ Inspect \/ TunOpen \/ InstallFirst \/ InstallDnat \/ InstallJump
           \/ UndoFlush \/ UndoChain \/ Send \/ GiveUp
           \/ Cleanup \/ CloseNext \/ CloseJump \/ CloseFlush \/ CloseLast \/ CloseTun
  <2>1. UNCHANGED <<pid, child, exit, handle, stopped, signal>>
    BY <1>5 DEF ChildTake, Tick, Inspect, TunOpen, InstallFirst, InstallDnat,
                InstallJump, UndoFlush, UndoChain, Send, GiveUp,
                Cleanup, CloseNext, CloseJump, CloseFlush, CloseLast, CloseTun, CloseStep,
                childVars
  <2> QED BY <1>0, <1>p, <2>1
<1>6. CASE Signal \/ WaitSignalOrChild
  <2>1. UNCHANGED <<pid, child, exit, handle, stopped>>
        /\ (signal' = TRUE \/ signal' = FALSE \/ UNCHANGED signal)
    BY <1>6 DEF Signal, WaitSignalOrChild, childVars
  <2> QED BY <1>0, <1>p, <2>1, Zenon
<1>7. CASE Receive
  <2>1. UNCHANGED <<pid, child, exit, signal>>
    BY <1>7 DEF Receive, childVars
  <2>2. handle' \in BOOLEAN /\ stopped' \in BOOLEAN
    BY <1>7, ReceiveFacts
  <2> QED BY <1>0, <1>p, <2>1, <2>2
<1>8. CASE Crash
  <2>1. UNCHANGED <<pid, exit, handle, stopped, signal>>
        /\ \E v \in States : child' = [child EXCEPT ![life] = v]
    BY <1>s, <1>8, Zenon DEF Crash
  <2>2. child' \in [Life -> States]
    BY <1>0, <2>1
  <2> QED BY <1>0, <1>p, <2>1, <2>2
<1>9. CASE Restart
  <2>1. child[life] \in States
    BY <1>0
  <2>2. /\ pid' = "none" /\ handle' = FALSE /\ stopped' = FALSE /\ signal' = FALSE
        /\ exit' = [exit EXCEPT ![life] = "none"]
        /\ \E v \in States : child' = [child EXCEPT ![life] = v]
    BY <1>s, <1>9, <2>1, Zenon DEF Restart
  <2>3. child' \in [Life -> States]
    BY <1>0, <2>2
  <2>4. exit' \in [Life -> {"none", "clean", "bad"}]
    BY <1>0, <2>2
  <2> QED BY <1>p, <2>2, <2>3, <2>4, Zenon
<1> QED BY <1>1, <1>2, <1>3, <1>4, <1>5, <1>6, <1>7, <1>8, <1>9
        DEF Next, ChildStep, SupervisorStep

\* A sequence begins with its first operation.
LEMMA CallType ==
    ASSUME NEW c \in Scripts, NEW n \in 1..Steps(c)
    PROVE  /\ Call(c, n) \in [script : Scripts, step : Nat, age : 0..CONTROL_TIMEOUT]
           /\ Call(c, n).step \in 1..Steps(Call(c, n).script)
<1>1. Steps(c) \in Nat /\ Steps(c) > 0 /\ 0 \in 0..CONTROL_TIMEOUT
  BY ConstantsAssumption DEF Steps, Scripts
<1>2. n \in Nat
  BY <1>1
<1> QED BY <1>1, <1>2 DEF Call

\* The type of the call is kept: a sequence does not run over its end.
LEMMA CallTypesNext ==
    ASSUME TypeOK, Next
    PROVE  CallTypes'
<1>0. CallTypes
  BY TypeParts
<1>1. CASE UNCHANGED call
  BY <1>0, <1>1 DEF CallTypes
<1>2. CASE \E c \in Scripts : call' = Call(c, 1)
  <2>1. \A c \in Scripts : 1 \in 1..Steps(c)
    BY ConstantsAssumption DEF Steps, Scripts
  <2> QED BY <1>2, <2>1, CallType DEF CallTypes
<1>3. CASE Receive
  <2>1. CASE pc' = "call"
    <3>1. call' = Call(call.script, call.step + 1) /\ call.step # Steps(call.script)
      BY <1>3, <2>1, ReceiveFacts
    <3>2. call.script \in Scripts /\ call.step \in 1..Steps(call.script)
      BY <1>0 DEF CallTypes
    <3>3. Steps(call.script) \in Nat
      BY <3>2, ConstantsAssumption DEF Steps, Scripts
    <3>4. call.step + 1 \in 1..Steps(call.script)
      BY <3>1, <3>2, <3>3
    <3> QED BY <3>1, <3>2, <3>4, CallType DEF CallTypes
  <2>2. CASE pc' # "call"
    BY <1>1, <1>3, <2>2, ReceiveFacts
  <2> QED BY <2>1, <2>2
<1>4. CASE Tick
  <2>1. call' = [call EXCEPT !.age = @ + 1] /\ call.age < CONTROL_TIMEOUT
    BY <1>4 DEF Tick
  <2>2. call.age + 1 \in 0..CONTROL_TIMEOUT
    BY <1>0, <2>1, ConstantsAssumption DEF CallTypes
  <2> QED BY <1>0, <2>1, <2>2 DEF CallTypes
<1>5. CASE WaitSignalOrChild \/ Cleanup \/ Restart
  <2>1. UNCHANGED call \/ \E c \in Scripts : call' = Call(c, 1)
    BY <1>5 DEF WaitSignalOrChild, Cleanup, Restart, Scripts
  <2> QED BY <1>1, <1>2, <2>1
<1>6. CASE \/ (\E l \in Life : ChildArm(l) \/ ChildExec(l))
           \/ ChildBoot \/ ChildTake \/ ChildAnswer \/ ChildLeaves \/ ChildDies
           \/ ChildHangs \/ Signal
  BY <1>1, <1>6, Zenon DEF ChildArm, ChildExec, ChildBoot, ChildTake, ChildAnswer, ChildLeaves,
                    ChildDies, ChildHangs, Signal
<1>7. CASE Inspect \/ TunOpen \/ InstallFirst \/ InstallDnat \/ InstallJump
           \/ UndoFlush \/ UndoChain \/ Fork \/ ExecStatus \/ OpenPidfd \/ Send \/ GiveUp
  BY <1>1, <1>7, Zenon DEF Inspect, TunOpen, InstallFirst, InstallDnat, InstallJump, UndoFlush,
                    UndoChain, Fork, ExecStatus, OpenPidfd, Send, GiveUp
<1>8. CASE WaitChild \/ Kill \/ Reap \/ CloseNext \/ CloseJump \/ CloseFlush \/ CloseLast
           \/ CloseTun \/ Crash
  BY <1>1, <1>8, Zenon DEF WaitChild, Kill, Reap, CloseNext, CloseJump, CloseFlush, CloseLast,
                    CloseTun, CloseStep, Crash
<1> QED BY <1>3, <1>4, <1>5, <1>6, <1>7, <1>8 DEF Next, ChildStep, SupervisorStep

\* The type of the channel is kept: requests are operations, and every answer
\* carries the operation of a request.
LEMMA ChannelTypesNext ==
    ASSUME TypeOK, Next
    PROVE  ChannelTypes'
<1> DEFINE Longest == IF GRACE > CONTROL_TIMEOUT THEN GRACE ELSE CONTROL_TIMEOUT
<1>0. /\ requests \in Seq(Ops) /\ responses \in Seq(Answers)
      /\ op \in Answers \cup {Idle} /\ work \in 0..Longest
  BY DEF TypeOK
<1>p. /\ requests' \in Seq(Ops) /\ responses' \in Seq(Answers)
      /\ op' \in Answers \cup {Idle} /\ work' \in 0..Longest
      => ChannelTypes'
  BY DEF ChannelTypes
<1>l. Longest \in Nat /\ GRACE \in 0..Longest /\ CONTROL_TIMEOUT \in 0..Longest
      /\ 0 \in 0..Longest
  BY ConstantsAssumption
<1> HIDE DEF Longest
<1>1. CASE UNCHANGED <<requests, responses, op, work>>
  BY <1>0, <1>1, <1>p
<1>2. CASE Send
  <2>1. UNCHANGED <<responses, op, work>>
        /\ (requests' = Append(requests, Op(call)) \/ UNCHANGED requests)
    BY <1>2 DEF Send
  <2>2. Append(requests, Op(call)) \in Seq(Ops)
    BY <1>0, OpFacts, AppendProperties
  <2> QED BY <1>0, <1>p, <2>1, <2>2
<1>3. CASE Receive
  <2>1. UNCHANGED <<requests, op, work>> /\ responses # <<>> /\ responses' = Tail(responses)
    BY <1>3 DEF Receive
  <2>2. Tail(responses) \in Seq(Answers)
    BY <1>0, <2>1, HeadTailProperties
  <2> QED BY <1>0, <1>p, <2>1, <2>2
<1>4. CASE ChildTake
  <2>1. UNCHANGED responses /\ requests # <<>> /\ requests' = Tail(requests)
    BY <1>4 DEF ChildTake
  <2>2. Head(requests) \in Ops /\ Tail(requests) \in Seq(Ops)
    BY <1>0, <2>1, HeadTailProperties
  <2>3. PICK d \in 0..Limit(Head(requests)), status \in {"ok", "error", "timeout"} :
           work' = d /\ op' = [name |-> Head(requests), status |-> status]
    BY <1>4 DEF ChildTake
  <2>4. Limit(Head(requests)) \in 0..Longest
    BY <1>l DEF Limit
  <2>5. work' \in 0..Longest
    BY <1>l, <2>3, <2>4
  <2>6. op' \in Answers
    BY <2>2, <2>3 DEF Answers
  <2> QED BY <1>0, <1>p, <2>1, <2>2, <2>5, <2>6
<1>5. CASE ChildAnswer
  <2>1. UNCHANGED <<requests, work>> /\ op # Idle /\ op' = Idle
        /\ responses' = Append(responses, op)
    BY <1>5 DEF ChildAnswer
  <2>2. Append(responses, op) \in Seq(Answers)
    BY <1>0, <2>1, AppendProperties
  <2> QED BY <1>0, <1>p, <2>1, <2>2
<1>6. CASE Tick
  <2>1. UNCHANGED <<requests, responses, op>>
        /\ work' = IF work > 0 THEN work - 1 ELSE 0
    BY <1>6 DEF Tick
  <2>2. work' \in 0..Longest
    BY <1>0, <1>l, <2>1
  <2> QED BY <1>0, <1>p, <2>1, <2>2
<1>7. CASE Restart
  <2>1. requests' = <<>> /\ responses' = <<>> /\ op' = Idle /\ work' = 0
    BY <1>7 DEF Restart
  <2> QED BY <1>l, <1>p, <2>1
<1>8. CASE \/ (\E l \in Life : ChildArm(l) \/ ChildExec(l))
           \/ ChildBoot \/ ChildLeaves \/ ChildDies \/ ChildHangs \/ Signal
  BY <1>1, <1>8, Zenon DEF ChildArm, ChildExec, ChildBoot, ChildLeaves, ChildDies, ChildHangs,
                    Signal, channelVars
<1>9. CASE Inspect \/ TunOpen \/ InstallFirst \/ InstallDnat \/ InstallJump
           \/ UndoFlush \/ UndoChain \/ Fork \/ ExecStatus \/ OpenPidfd \/ GiveUp
  BY <1>1, <1>9, Zenon DEF Inspect, TunOpen, InstallFirst, InstallDnat, InstallJump, UndoFlush,
                    UndoChain, Fork, ExecStatus, OpenPidfd, GiveUp, channelVars
<1>10. CASE WaitSignalOrChild \/ WaitChild \/ Cleanup \/ Kill \/ Reap \/ CloseNext
            \/ CloseJump \/ CloseFlush \/ CloseLast \/ CloseTun \/ Crash
  BY <1>1, <1>10, Zenon DEF WaitSignalOrChild, WaitChild, Cleanup, Kill, Reap, CloseNext, CloseJump,
                     CloseFlush, CloseLast, CloseTun, CloseStep, Crash, channelVars
<1> QED BY <1>2, <1>3, <1>4, <1>5, <1>6, <1>7, <1>8, <1>9, <1>10
        DEF Next, ChildStep, SupervisorStep

-----------------------------------------------------------------------------
(* The theorems *)

\* Every step keeps the firewall part.
LEMMA FirewallNext ==
    ASSUME TypeOK, FirewallInv, ResultInv, ChannelInv, Next
    PROVE  FirewallInv'
<1>1. CASE \/ (\E l \in Life : ChildArm(l) \/ ChildExec(l))
           \/ ChildBoot \/ ChildTake \/ ChildAnswer \/ ChildLeaves \/ Tick \/ ChildDies
           \/ ChildHangs \/ Signal
  <2>1. UNCHANGED <<life, pc, tun, route, rules, installed, residue, result>>
    BY <1>1 DEF ChildArm, ChildExec, ChildBoot, ChildTake, ChildAnswer, ChildLeaves, Tick,
                ChildDies, ChildHangs, Signal, firewallVars
  <2>2. call'.script = call.script
    BY <1>1 DEF ChildArm, ChildExec, ChildBoot, ChildTake, ChildAnswer, ChildLeaves, Tick,
                ChildDies, ChildHangs, Signal, TypeOK
  <2> QED BY <2>1, <2>2, FirewallElsewhere
<1>2. CASE Fork \/ ExecStatus \/ OpenPidfd
  <2>1. /\ UNCHANGED <<life, tun, route, rules, installed, residue, result>>
        /\ pc \in {"spawn", "exec_status", "pidfd"} /\ pc' \in Middle
    BY <1>2 DEF Fork, ExecStatus, OpenPidfd, firewallVars, Middle
  <2>2. Serving /\ pc \in Middle
    BY <2>1 DEF Serving, Middle
  <2> QED BY <2>1, <2>2, FirewallMiddle
<1>3. CASE Send \/ GiveUp
  <2>1. /\ UNCHANGED <<life, tun, route, rules, installed, residue, result, call>>
        /\ pc \in {"call", "answer"} /\ pc' \in {"answer", "kill", "cleanup"}
    BY <1>3 DEF Send, GiveUp, firewallVars, Failed
  <2>2. (Serving' => Serving) /\ pc \in Middle /\ pc' \in Middle
    BY <2>1 DEF Serving, Middle
  <2> QED BY <2>1, <2>2, FirewallMiddle
<1>4. CASE Receive
  <2>1. /\ UNCHANGED <<life, tun, route, rules, installed, residue, result>> /\ pc = "answer"
    BY <1>4 DEF Receive, firewallVars
  <2>2. /\ pc' \in {"call", "ready", "wait", "cleanup", "kill"}
        /\ pc' \in {"call", "ready", "wait"} => call.script # "cleanup"
    BY <1>4, ReceiveFacts
  <2>3. (Serving' => Serving) /\ pc \in Middle /\ pc' \in Middle
    BY <2>1, <2>2 DEF Serving, Middle
  <2> QED BY <2>1, <2>3, FirewallMiddle
<1>5. CASE WaitSignalOrChild \/ WaitChild
  <2>1. /\ UNCHANGED <<life, tun, route, rules, installed, residue>>
        /\ pc \in {"ready", "wait"} /\ pc' \in {"call", "cleanup"}
    BY <1>5 DEF WaitSignalOrChild, WaitChild, firewallVars
  <2>2. Serving /\ pc \in Middle /\ pc' \in Middle
    BY <2>1 DEF Serving, Middle
  <2> QED BY <2>1, <2>2, FirewallMiddle
<1>6. CASE Kill
  <2>1. /\ UNCHANGED <<life, tun, route, rules, installed, residue, result>>
        /\ pc = "kill" /\ pc' = "reap"
    BY <1>6 DEF Kill, firewallVars
  <2>2. ~Serving' /\ pc \in Middle /\ pc' \in Middle
    BY <2>1 DEF Serving, Middle
  <2> QED BY <2>1, <2>2, FirewallMiddle
<1>7. CASE Inspect \/ TunOpen \/ InstallFirst \/ InstallDnat \/ InstallJump
           \/ UndoFlush \/ UndoChain
  BY <1>7, FirewallInspect, FirewallTunOpen, FirewallInstallFirst, FirewallInstallDnat,
     FirewallInstallJump, FirewallUndoFlush, FirewallUndoChain
<1>8. CASE Cleanup \/ Reap \/ CloseNext \/ CloseJump \/ CloseFlush \/ CloseLast \/ CloseTun
  BY <1>8, FirewallCleanup, FirewallReap, FirewallCloseNext, FirewallCloseJump,
     FirewallCloseFlush, FirewallCloseLast, FirewallCloseTun
<1>9. CASE Crash \/ Restart
  BY <1>9, FirewallCrash, FirewallRestart
<1> QED BY <1>1, <1>2, <1>3, <1>4, <1>5, <1>6, <1>7, <1>8, <1>9
        DEF Next, ChildStep, SupervisorStep

\* The first supervisor finds a host without any of its rules.
LEMMA InitInv == Init => IInv
<1> SUFFICES ASSUME Init PROVE IInv
  OBVIOUS
<1>c. Routes \in Nat /\ Routes > 0 /\ MaxLives \in Nat /\ MaxLives > 0
      /\ CONTROL_TIMEOUT \in Nat /\ GRACE \in Nat
  BY ConstantsAssumption
<1>0. life = 1 /\ life \in Life /\ pc = "inspect" /\ ~Serving
  BY <1>c DEF Init, Life, Serving
<1>1. HostTypes
  <2>1. pc \in Pcs /\ route \in 0..Routes
    BY <1>c, <1>0 DEF Init, Pcs
  <2> QED BY <1>0, <2>1, Zenon DEF Init, HostTypes
<1>2. ChildTypes
  BY Zenon DEF Init, ChildTypes, NoChild
<1>3. CallTypes
  <2>1. 1 \in 1..Steps("start")
    BY <1>c DEF Steps
  <2> QED BY <2>1, CallType DEF Init, CallTypes, Scripts
<1>4. ChannelTypes
  BY <1>c DEF Init, ChannelTypes
<1>5. FirewallInv
  BY <1>0 DEF Init, FirewallInv, RulesAccounted, InstalledWhole, Progress, TunHeld, OwnRules,
              ResidueLate, Installing, Closing, Gone, Route
<1>6. ChildInv
  BY <1>0 DEF Init, ChildInv, Installing, Closing, Gone
<1>7. ResultInv /\ PidInv
  BY DEF Init, ResultInv, PidInv
<1>8. ChannelInv
  BY DEF Init, ChannelInv, Quiet, NoStaleAnswer
<1> QED BY <1>1, <1>2, <1>3, <1>4, <1>5, <1>6, <1>7, <1>8, TypeParts DEF IInv

\* IInv is inductive.
LEMMA NextInv == IInv /\ [Next]_vars => IInv'
<1> SUFFICES ASSUME IInv, [Next]_vars PROVE IInv'
  OBVIOUS
<1>0. TypeOK /\ FirewallInv /\ ChildInv /\ ResultInv /\ ChannelInv /\ PidInv
  BY DEF IInv
<1>1. CASE Next
  <2>1. FirewallInv' /\ ChildInv' /\ ResultInv' /\ ChannelInv' /\ PidInv'
    BY <1>0, <1>1, FirewallNext, ChildNext, ResultNext, ChannelNext, PidNext
  <2>2. HostTypes' /\ ChildTypes' /\ CallTypes' /\ ChannelTypes'
    BY <1>0, <1>1, HostTypesNext, ChildTypesNext, CallTypesNext, ChannelTypesNext
  <2>3. TypeOK'
    BY <2>2 DEF TypeOK, HostTypes, ChildTypes, CallTypes, ChannelTypes
  <2> QED BY <2>1, <2>3 DEF IInv
<1>2. CASE UNCHANGED vars
  <2> USE <1>2 DEF vars, firewallVars, childVars, channelVars
  <2>1. TypeOK'
    BY <1>0 DEF TypeOK
  <2>2. FirewallInv'
    BY <1>0, FirewallElsewhere
  <2>3. ChildInv'
    BY <1>0, ChildElsewhere
  <2>4. ChannelInv'
    BY <1>0, ChannelElsewhere
  <2>5. ResultInv' /\ PidInv'
    BY <1>0 DEF ResultInv, PidInv
  <2> QED BY <2>1, <2>2, <2>3, <2>4, <2>5 DEF IInv
<1> QED BY <1>1, <1>2

\* IInv holds in every behaviour of the supervisor.
LEMMA Invariance == Spec => []IInv
BY InitInv, NextInv, PTL DEF Spec

\* Types: the state of main, of the host and of the channel is always well formed,
\* and no sequence of operations runs over its end (tcpcc_runtime_start,
\* tcpcc_shutdown_runtime).
THEOREM TypeCorrect == Spec => []TypeOK
<1>1. IInv => TypeOK
  BY DEF IInv
<1> QED BY <1>1, Invariance, PTL

\* A supervisor that is gone leaves nothing behind: the cleanup label of main
\* closes the TUN, reaps the child and removes every rule unless a removal failed;
\* status 0 says that all went well; a killed supervisor leaves no hosted kernel.
THEOREM LeavesNothing == Spec => []NothingSurvives
<1>1. ASSUME IInv PROVE NothingSurvives
  <2>0. TypeOK /\ FirewallInv /\ ChildInv /\ ResultInv
    BY <1>1 DEF IInv
  <2>1. ASSUME pc = "exited", ~residue \/ result = 0 PROVE Mine = {}
    <3>1. ASSUME NEW r \in rules, r[1] = life PROVE FALSE
      <4>1. Accounted(r)
        BY <2>0, <2>1, <3>1 DEF FirewallInv, RulesAccounted
      <4>2. r[2] \in installed
        BY <2>1, <4>1 DEF Accounted
      <4> QED BY <2>0, <2>1, <4>2 DEF FirewallInv, Progress
    <3> QED BY <3>1 DEF Mine
  <2>2. ExitLeavesNothing
    BY <2>0, <2>1 DEF ExitLeavesNothing, FirewallInv, TunHeld, Gone, ChildInv
  <2>3. CleanExitIsClean
    BY <2>0, <2>1 DEF CleanExitIsClean, ResultInv
  <2>4. NoOrphan
    <3>1. ASSUME NEW l \in Life, child[l] \in Running PROVE SupervisorAlive(l)
      <4>1. life \in Nat /\ l \in Nat
        BY <2>0 DEF TypeOK, Life
      <4>2. l = life
        BY <2>0, <3>1, <4>1 DEF ChildInv, Running
      <4> QED BY <2>0, <3>1, <4>2 DEF ChildInv, Running, SupervisorAlive
    <3> QED BY <3>1 DEF NoOrphan
  <2> QED BY <2>2, <2>3, <2>4 DEF NothingSurvives
<1> QED BY <1>1, Invariance, PTL

\* The policy of every route is whole when the supervisor reports ready, shares the
\* firewall with no marked rule of another one, and is removed after the hosted
\* kernel is gone and before the TUN is.
THEOREM PolicyIsSound == Spec => []PolicySound
<1>1. ASSUME IInv PROVE PolicySound
  <2>0. TypeOK /\ FirewallInv /\ ChildInv
    BY <1>1 DEF IInv
  <2>1. ReadyIsWhole
    <3>1. ASSUME pc = "ready"
          PROVE  Serving /\ installed = Route /\ life \in tun /\ handle /\ ~Stale
      BY <2>0, <3>1 DEF Serving, FirewallInv, Progress, TunHeld, ChildInv, OwnRules, Gone
    <3>2. ASSUME pc = "ready" PROVE {life} \X Route \X Parts \subseteq rules
      <4>1. \A k \in Route, x \in Parts : <<life, k, x>> \in rules
        BY <2>0, <3>1, <3>2 DEF FirewallInv, InstalledWhole
      <4> QED BY <4>1
    <3>3. ASSUME pc = "ready" PROVE \A r \in rules \ Mine : r[3] = "chain"
      BY <3>1, <3>3 DEF Mine, Stale
    <3> QED BY <3>1, <3>2, <3>3 DEF ReadyIsWhole
  <2>2. TeardownOrder
    <3>1. pc \in Closing => child[life] \in {"none", "reaped"}
      BY <2>0 DEF ChildInv
    <3>2. ASSUME Mine # {}, ~residue, pc # "dead" PROVE life \in tun
      <4>1. PICK r \in rules : r[1] = life
        BY <3>2 DEF Mine
      <4>2. Accounted(r)
        BY <2>0, <3>2, <4>1 DEF FirewallInv, RulesAccounted
      <4>3. pc # "exited"
        BY <2>0, <4>2 DEF Accounted, FirewallInv, Progress
      <4> QED BY <2>0, <3>2, <4>1, <4>3 DEF FirewallInv, TunHeld, Gone
    <3> QED BY <3>1, <3>2 DEF TeardownOrder
  <2> QED BY <2>1, <2>2 DEF PolicySound
<1> QED BY <1>1, Invariance, PTL

\* Outside the cleanup the answer a transaction reads is the answer to its own
\* request, though tcpcc_control_transact matches by operation only.
THEOREM AnswersMatch == Spec => []NoStaleAnswer
<1>1. IInv => NoStaleAnswer
  BY DEF IInv, ChannelInv
<1> QED BY <1>1, Invariance, PTL

\* Where opening the pidfd does not fail, SIGKILL goes to a child that is not
\* reaped (tcpcc_hosted_process_signal): the one other way is the error path of
\* tcpcc_hosted_process_start that keeps process->pid.
THEOREM KillIsSafe ==
    ASSUME "pidfd" \notin Faults
    PROVE  Spec => []KillsOnlyItsChild
<1>1. ASSUME IInv PROVE KillsOnlyItsChild
  BY <1>1 DEF IInv, PidInv, ChildInv, KillsOnlyItsChild
<1> QED BY <1>1, Invariance, PTL

=============================================================================
