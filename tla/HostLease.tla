------------------------------ MODULE HostLease ------------------------------
(***************************************************************************)
(* The host-network transaction of the Python supervisor                   *)
(* (tools/tcpcc_host.py): acquire_host_network takes a TUN device and one  *)
(* firewall policy, HostNetworkLease.close gives them back.  Several       *)
(* supervisors share the host: their commands interleave, any of them may  *)
(* be killed at any point, a later process may get the pid of a dead one,  *)
(* and a command may fail or take effect and still report a failure.       *)
(*                                                                         *)
(* The kernel's own view (devices, tables, chains) is in tun and objects;  *)
(* everything else is what the supervisor's code keeps.                    *)
(***************************************************************************)
EXTENDS Naturals, Sequences, FiniteSets

CONSTANTS
  Proc,                   \* process incarnations that run on the host
  Pids,                   \* process ids; the kernel reuses them
  TunNames,               \* interface names
  None,                   \* Python's None
  NAME_ATTEMPTS,          \* DEFAULT_NAME_ATTEMPTS of create_tun_queue
  Backends                \* firewall backends in use: "nft", "iptables"

ASSUME LeaseConstants ==
  /\ None \notin TunNames \cup Pids \cup {"tun", "dnat"}
  /\ NAME_ATTEMPTS \in Nat \ {0}
  /\ Backends \subseteq {"nft", "iptables"}

VARIABLES
  pc,                     \* where each incarnation stands
  pid,                    \* the process id it runs under
  backend,                \* its configured firewall backend
  name,                   \* its configured TUN name; None generates one
  tries,                  \* generated names tried so far
  listed,                 \* the ruleset it listed, as [owner, marked] records
  tun,                    \* the device its open fd keeps alive, or None
  objects,                \* the firewall objects of it the kernel holds
  journal,                \* OwnershipJournal: what close() will undo, in order
  failures,               \* labels of the cleanup steps that raised
  failed,                 \* incarnations whose startup raised
  misled,                 \* those told an install failed which took effect
  residue                 \* history: leftovers present when it listed

vars == <<pc, pid, backend, name, tries, listed, tun, objects, journal,
          failures, failed, misled, residue>>

Pcs == {"off", "preflight", "scan", "classify", "check", "tun", "address",
        "install", "restore", "undoFlush", "undoDelete", "held", "unwind",
        "flush", "delete", "done", "dead"}

\* The firewall objects of each backend.  nft installs one table; iptables a
\* chain, the marked DNAT rule in it and the jump from PREROUTING to it.
Whole(b) == IF b = "nft" THEN {"table"} ELSE {"chain", "rule", "jump"}
Objects == {"table", "chain", "rule", "jump"}

\* The labels of the firewall cleanup steps.
Firewall == {"table", "flush", "delete", "jump"}

\* What the journal may hold, and one line of an ownership report.
Journals == {<<>>, <<"tun">>, <<"tun", "dnat">>}
Entries == [owner : Proc, marked : BOOLEAN]

Alive(p) == pc[p] \notin {"off", "done", "dead"}

\* What a dead or finished incarnation has left in the firewall p will use.
Residue(p) ==
  {q \in Proc : ~Alive(q) /\ objects[q] # {} /\ backend[q] = backend[p]}

\* The state of every supervisor's transaction has the shape of
\* acquire_host_network, and its OwnershipJournal holds the TUN, or the TUN and
\* then the firewall, or nothing.
TypeOK ==
  /\ pc \in [Proc -> Pcs]
  /\ pid \in [Proc -> Pids \cup {None}]
  /\ backend \in [Proc -> Backends \cup {None}]
  /\ name \in [Proc -> TunNames \cup {None}]
  /\ tries \in [Proc -> 0..NAME_ATTEMPTS]
  /\ listed \in [Proc -> SUBSET Entries]
  /\ tun \in [Proc -> TunNames \cup {None}]
  /\ objects \in [Proc -> SUBSET Objects]
  /\ journal \in [Proc -> Journals]
  /\ failures \in [Proc -> SUBSET (Firewall \cup {"tun"})]
  /\ failed \subseteq Proc
  /\ misled \subseteq Proc
  /\ residue \in [Proc -> SUBSET Proc]

Init ==
  /\ pc = [p \in Proc |-> "off"]
  /\ pid = [p \in Proc |-> None]
  /\ backend = [p \in Proc |-> None]
  /\ name = [p \in Proc |-> None]
  /\ tries = [p \in Proc |-> 0]
  /\ listed = [p \in Proc |-> {}]
  /\ tun = [p \in Proc |-> None]
  /\ objects = [p \in Proc |-> {}]
  /\ journal = [p \in Proc |-> <<>>]
  /\ failures = [p \in Proc |-> {}]
  /\ failed = {}
  /\ misled = {}
  /\ residue = [p \in Proc |-> {}]

Goto(p, l) == pc' = [pc EXCEPT ![p] = l]

\* An exception in acquire_host_network: what the journal holds is undone.
Raise(p) ==
  /\ Goto(p, "unwind")
  /\ failed' = failed \cup {p}

-----------------------------------------------------------------------------
(* Before anything on the host changes *)

\* A supervisor starts with a backend and a configured or generated TUN name.
\* The kernel gives it a pid no live process has.
Begin(p) ==
  /\ pc[p] = "off"
  /\ \E i \in Pids : /\ \A q \in Proc : Alive(q) => pid[q] # i
                     /\ pid' = [pid EXCEPT ![p] = i]
  /\ \E b \in Backends : backend' = [backend EXCEPT ![p] = b]
  /\ \E n \in TunNames \cup {None} : name' = [name EXCEPT ![p] = n]
  /\ Goto(p, "preflight")
  /\ UNCHANGED <<tries, listed, tun, objects, journal, failures, failed,
                 misled, residue>>

\* collect_preflight passes, or HostPreflightError.
Preflight(p) ==
  /\ pc[p] = "preflight"
  /\ \/ Goto(p, "scan") /\ UNCHANGED failed
     \/ Raise(p)
  /\ UNCHANGED <<pid, backend, name, tries, listed, tun, objects, journal,
                 failures, misled, residue>>

\* inspect_nft_ownership: a table shows its owner in the comment of its rule.
NftListed ==
  {[owner |-> q, marked |-> TRUE] : q \in {r \in Proc : "table" \in objects[r]}}

\* The scan of iptables-save: a chain of the reserved prefix shows up whether or
\* not it has the rule with the owner's comment.
IptablesListed ==
  {[owner |-> q, marked |-> "rule" \in objects[q]] :
     q \in {r \in Proc : "chain" \in objects[r]}}

\* The ownership report of p's backend.
Listed(p) == IF backend[p] = "nft" THEN NftListed ELSE IptablesListed

\* `nft list ruleset` or iptables-save: one consistent snapshot, or an error.
List(p) ==
  /\ pc[p] = "scan"
  /\ \/ /\ listed' = [listed EXCEPT ![p] = Listed(p)]
        /\ residue' = [residue EXCEPT ![p] = Residue(p)]
        /\ Goto(p, "classify")
        /\ UNCHANGED failed
     \/ Raise(p) /\ UNCHANGED <<listed, residue>>
  /\ UNCHANGED <<pid, backend, name, tries, tun, objects, journal, failures,
                 misled>>

\* Slip: any live process with the recorded pid counts as the owner.
StatusByPid(e) ==
  IF ~e.marked THEN "malformed"
  ELSE IF \E r \in Proc : Alive(r) /\ pid[r] = pid[e.owner]
       THEN "active" ELSE "stale"

\* How one listed owner is classified: no marker is malformed; a live process
\* with the recorded pid and start time is the owner; an absent process, or
\* another one that got the pid, makes it stale.
Status(e) ==
  IF ~e.marked THEN "malformed"
  ELSE IF \E r \in Proc : Alive(r) /\ pid[r] = pid[e.owner] /\ r = e.owner
       THEN "active" ELSE "stale"

\* /proc is read after the listing, so owners may have died in between.
Classify(p) ==
  /\ pc[p] = "classify"
  /\ IF \A e \in listed[p] : Status(e) = "active"
       THEN Goto(p, "check") /\ UNCHANGED failed
       ELSE Raise(p)
  /\ listed' = [listed EXCEPT ![p] = {}]
  /\ residue' = [residue EXCEPT ![p] = {}]
  /\ UNCHANGED <<pid, backend, name, tries, tun, objects, journal, failures,
                 misled>>

\* The dry run of the full batch changes nothing.
CheckCompatibility(p) ==
  /\ pc[p] = "check"
  /\ \/ Goto(p, "tun") /\ UNCHANGED failed
     \/ Raise(p)
  /\ UNCHANGED <<pid, backend, name, tries, listed, tun, objects, journal,
                 failures, misled, residue>>

-----------------------------------------------------------------------------
(* Acquiring the TUN device, then the firewall policy *)

Taken(n) == \E q \in Proc : tun[q] = n

Forget(p) ==
  /\ name' = [name EXCEPT ![p] = None]
  /\ tries' = [tries EXCEPT ![p] = 0]

\* Slip: a collision on a generated name is retried without end.
OpenTunForever(p) ==
  /\ pc[p] = "tun"
  /\ \/ \E n \in IF name[p] = None THEN TunNames ELSE {name[p]} :
          /\ ~Taken(n)
          /\ tun' = [tun EXCEPT ![p] = n]
          /\ Goto(p, "address")
          /\ Forget(p)
          /\ UNCHANGED failed
     \/ /\ name[p] = None
        /\ \E n \in TunNames : Taken(n)
        /\ tries' = [tries EXCEPT ![p] = 1 - @]
        /\ UNCHANGED <<pc, name, failed, tun>>
     \/ Raise(p) /\ Forget(p) /\ UNCHANGED tun
  /\ UNCHANGED <<pid, backend, listed, objects, journal, failures, misled,
                 residue>>

\* One round of create_tun_queue's loop: TUNSETIFF attaches a free name.  A
\* collision on a generated name is retried up to the limit; on a configured
\* name, and for any other error, the error is raised and the fd closed.  The
\* configured name and the count of tries are not read again.
OpenTun(p) ==
  /\ pc[p] = "tun"
  /\ \/ \E n \in IF name[p] = None THEN TunNames ELSE {name[p]} :
          /\ ~Taken(n)
          /\ tun' = [tun EXCEPT ![p] = n]
          /\ Goto(p, "address")
          /\ Forget(p)
          /\ UNCHANGED failed
     \/ /\ name[p] = None
        /\ \E n \in TunNames : Taken(n)
        /\ tries[p] + 1 < NAME_ATTEMPTS
        /\ tries' = [tries EXCEPT ![p] = @ + 1]
        /\ UNCHANGED <<pc, name, failed, tun>>
     \/ Raise(p) /\ Forget(p) /\ UNCHANGED tun
  /\ UNCHANGED <<pid, backend, listed, objects, journal, failures, misled,
                 residue>>

\* Address, link and route commands, then registration in the journal.  When
\* one of them fails the fd is closed, which removes the device with whatever
\* was configured on it.
ConfigureTun(p) ==
  /\ pc[p] = "address"
  /\ \/ /\ Goto(p, "install")
        /\ journal' = [journal EXCEPT ![p] = Append(@, "tun")]
        /\ UNCHANGED <<failed, tun>>
     \/ Raise(p) /\ tun' = [tun EXCEPT ![p] = None] /\ UNCHANGED journal
  /\ UNCHANGED <<pid, backend, name, tries, listed, objects, failures, misled,
                 residue>>

\* A firewall command of p reports a failure.  It may have taken effect.
FailsLeaving(p, obj) ==
  \/ UNCHANGED <<objects, misled>>
  \/ /\ objects' = [objects EXCEPT ![p] = obj]
     /\ misled' = misled \cup {p}

\* Either nft transport raises: no context or buffer, or a nonzero return code
\* from the library, or from the command.
NftFails(p) == FailsLeaving(p, {"table"})

\* The owner identity, then the nft batch: one transaction of the kernel.
InstallNft(p) ==
  /\ pc[p] = "install"
  /\ backend[p] = "nft"
  /\ \/ /\ objects' = [objects EXCEPT ![p] = {"table"}]
        /\ journal' = [journal EXCEPT ![p] = Append(@, "dnat")]
        /\ Goto(p, "held")
        /\ UNCHANGED <<failed, misled>>
     \/ NftFails(p) /\ Raise(p) /\ UNCHANGED journal
  /\ UNCHANGED <<pid, backend, name, tries, listed, tun, failures, residue>>

\* iptables -N, outside the code's try block: its failure undoes nothing.
NewChain(p) ==
  /\ pc[p] = "install"
  /\ backend[p] = "iptables"
  /\ \/ /\ objects' = [objects EXCEPT ![p] = {"chain"}]
        /\ Goto(p, "restore")
        /\ UNCHANGED <<failed, misled>>
     \/ FailsLeaving(p, {"chain"}) /\ Raise(p)
  /\ UNCHANGED <<pid, backend, name, tries, listed, tun, journal, failures,
                 residue>>

\* Slip: a failing restore raises without flushing and deleting the chain.
RestoreNoRollback(p) ==
  /\ pc[p] = "restore"
  /\ \/ /\ objects' = [objects EXCEPT ![p] = Whole("iptables")]
        /\ journal' = [journal EXCEPT ![p] = Append(@, "dnat")]
        /\ Goto(p, "held")
        /\ UNCHANGED <<failed, misled>>
     \/ FailsLeaving(p, Whole("iptables")) /\ Raise(p) /\ UNCHANGED journal
  /\ UNCHANGED <<pid, backend, name, tries, listed, tun, failures, residue>>

\* iptables-restore adds the marked rule and the jump in one commit.
Restore(p) ==
  /\ pc[p] = "restore"
  /\ \/ /\ objects' = [objects EXCEPT ![p] = Whole("iptables")]
        /\ journal' = [journal EXCEPT ![p] = Append(@, "dnat")]
        /\ Goto(p, "held")
        /\ UNCHANGED <<failed, misled>>
     \/ /\ FailsLeaving(p, Whole("iptables"))
        /\ Goto(p, "undoFlush")
        /\ failed' = failed \cup {p}
        /\ UNCHANGED journal
  /\ UNCHANGED <<pid, backend, name, tries, listed, tun, failures, residue>>

-----------------------------------------------------------------------------
(* Undoing: the rollback of an install, and OwnershipJournal.close *)

\* One cleanup command: it works, or the exception is collected and the next
\* step is tried all the same.  A command that reports a failure may have
\* worked.
Undo(p, label, possible, rest) ==
  \/ /\ possible
     /\ objects' = [objects EXCEPT ![p] = rest]
     /\ UNCHANGED failures
  \/ /\ failures' = [failures EXCEPT ![p] = @ \cup {label}]
     /\ \/ UNCHANGED objects
        \/ possible /\ objects' = [objects EXCEPT ![p] = rest]

\* iptables -F empties the chain, jumps to it stay.
FlushChain(p) ==
  Undo(p, "flush", "chain" \in objects[p], objects[p] \ {"rule"})

\* iptables -X removes a chain only when it is empty and nothing jumps to it.
DeleteChain(p) == Undo(p, "delete", objects[p] = {"chain"}, {})

RollbackFlush(p) ==
  /\ pc[p] = "undoFlush"
  /\ FlushChain(p)
  /\ Goto(p, "undoDelete")
  /\ UNCHANGED <<pid, backend, name, tries, listed, tun, journal, failed,
                 misled, residue>>

RollbackDelete(p) ==
  /\ pc[p] = "undoDelete"
  /\ DeleteChain(p)
  /\ Goto(p, "unwind")
  /\ UNCHANGED <<pid, backend, name, tries, listed, tun, journal, failed,
                 misled, residue>>

\* The service is over: run_service closes the lease.
Release(p) ==
  /\ pc[p] = "held"
  /\ Goto(p, "unwind")
  /\ UNCHANGED <<pid, backend, name, tries, listed, tun, objects, journal,
                 failures, failed, misled, residue>>

\* Slip: the journal is closed from its first entry on.
TopFirst(p) == IF journal[p] = <<>> THEN None ELSE journal[p][1]

\* OwnershipJournal.close goes through the entries from the last one back.
Top(p) == IF journal[p] = <<>> THEN None ELSE journal[p][Len(journal[p])]
Pop(p) == journal' = [journal EXCEPT ![p] = SubSeq(@, 1, Len(@) - 1)]

\* TunQueue.close: the fd is given up whether or not close() raises.
CloseTun(p) ==
  /\ pc[p] = "unwind"
  /\ Top(p) = "tun"
  /\ Pop(p)
  /\ tun' = [tun EXCEPT ![p] = None]
  /\ failures' \in {failures, [failures EXCEPT ![p] = @ \cup {"tun"}]}
  /\ UNCHANGED <<pc, pid, backend, name, tries, listed, objects, failed,
                 misled, residue>>

\* NftDnatLease.close deletes the table.
CloseNft(p) ==
  /\ pc[p] = "unwind"
  /\ Top(p) = "dnat"
  /\ backend[p] = "nft"
  /\ Undo(p, "table", "table" \in objects[p], {})
  /\ Pop(p)
  /\ UNCHANGED <<pc, pid, backend, name, tries, listed, tun, failed, misled,
                 residue>>

\* IptablesDnatLease.close: -D the jump, -F the chain, -X the chain.
CloseJump(p) ==
  /\ pc[p] = "unwind"
  /\ Top(p) = "dnat"
  /\ backend[p] = "iptables"
  /\ Undo(p, "jump", "jump" \in objects[p], objects[p] \ {"jump"})
  /\ Pop(p)
  /\ Goto(p, "flush")
  /\ UNCHANGED <<pid, backend, name, tries, listed, tun, failed, misled,
                 residue>>

CloseFlush(p) ==
  /\ pc[p] = "flush"
  /\ FlushChain(p)
  /\ Goto(p, "delete")
  /\ UNCHANGED <<pid, backend, name, tries, listed, tun, journal, failed,
                 misled, residue>>

CloseChain(p) ==
  /\ pc[p] = "delete"
  /\ DeleteChain(p)
  /\ Goto(p, "unwind")
  /\ UNCHANGED <<pid, backend, name, tries, listed, tun, journal, failed,
                 misled, residue>>

\* Everything was tried: the process reports and exits.
Finish(p) ==
  /\ pc[p] = "unwind"
  /\ journal[p] = <<>>
  /\ Goto(p, "done")
  /\ Forget(p)
  /\ UNCHANGED <<pid, backend, listed, tun, objects, journal, failures,
                 failed, misled, residue>>

-----------------------------------------------------------------------------
(* What the host does *)

\* SIGKILL.  All the process kept is gone, and the fd with it unless the hosted
\* kernel, which inherits it and runs while the lease is held, is still there.
\* The firewall objects stay.
Kill(p) ==
  /\ Alive(p)
  /\ Goto(p, "dead")
  /\ \/ tun' = [tun EXCEPT ![p] = None]
     \/ pc[p] = "held" /\ UNCHANGED tun
  /\ name' = [name EXCEPT ![p] = None]
  /\ tries' = [tries EXCEPT ![p] = 0]
  /\ listed' = [listed EXCEPT ![p] = {}]
  /\ residue' = [residue EXCEPT ![p] = {}]
  /\ journal' = [journal EXCEPT ![p] = <<>>]
  /\ failures' = [failures EXCEPT ![p] = {}]
  /\ failed' = failed \ {p}
  /\ misled' = misled \ {p}
  /\ UNCHANGED <<pid, backend, objects>>

\* The orphaned hosted kernel ends and the device disappears.
OrphanExits(p) ==
  /\ pc[p] = "dead"
  /\ tun[p] # None
  /\ tun' = [tun EXCEPT ![p] = None]
  /\ UNCHANGED <<pc, pid, backend, name, tries, listed, objects, journal,
                 failures, failed, misled, residue>>

\* The operator follows the remediation the refusal prints.
OperatorRemoves(p) ==
  /\ pc[p] \in {"done", "dead"}
  /\ objects[p] # {}
  /\ objects' = [objects EXCEPT ![p] = {}]
  /\ UNCHANGED <<pc, pid, backend, name, tries, listed, tun, journal,
                 failures, failed, misled, residue>>

-----------------------------------------------------------------------------
Acquire(p) ==
  Preflight(p) \/ List(p) \/ Classify(p) \/ CheckCompatibility(p)
    \/ OpenTun(p) \/ ConfigureTun(p) \/ InstallNft(p) \/ NewChain(p)
    \/ Restore(p) \/ RollbackFlush(p) \/ RollbackDelete(p)

Close(p) ==
  CloseTun(p) \/ CloseNft(p) \/ CloseJump(p) \/ CloseFlush(p)
    \/ CloseChain(p) \/ Finish(p)

Host(p) ==
  Begin(p) \/ Release(p) \/ Kill(p) \/ OrphanExits(p) \/ OperatorRemoves(p)

Next == \E p \in Proc : Acquire(p) \/ Close(p) \/ Host(p)

Spec == Init /\ [][Next]_vars

\* The supervisor is one thread that keeps running, and every command it waits
\* for ends: the code gives none of them a timeout, so this is the host's part.
FairSpec == Spec /\ \A p \in Proc : WF_vars(Acquire(p) \/ Close(p))

-----------------------------------------------------------------------------
(* Properties *)

\* A firewall command of p went wrong, and p knows of it or was misled.
Excused(p) == p \in misled \/ failures[p] \cap Firewall # {}

AbsState(p) ==
  IF pc[p] \in {"done", "dead"} THEN pc[p]
  ELSE IF pc[p] \in {"held", "unwind", "flush", "delete"} /\ p \notin failed
       THEN "held" ELSE "idle"

\* During the transaction the objects are the transaction's own business.
AbsPolicy ==
  {p \in Proc : IF pc[p] \in {"done", "dead"} THEN objects[p] # {}
                ELSE AbsState(p) = "held"}

L == INSTANCE Lease WITH
       state <- [p \in Proc |-> AbsState(p)],
       policy <- AbsPolicy,
       excused <- {p \in Proc : Excused(p)}

\* The commands of acquire_host_network, its rollbacks and the journal together
\* are one lease: all of the path or none of it, all of it given back, nothing
\* of another instance touched, whatever fails and whoever dies in between.
\* Only a command that failed during the undo, or an install that took effect
\* and reported a failure, may leave something behind.
LeaseImplemented == L!Spec

\* Policy goes in after the device and out before it: while a supervisor lives,
\* traffic is steered to its guest only if its TUN device is there, unless a
\* firewall command of it went wrong (journal order, _register_resource).
NoBlackHole ==
  \A p \in Proc :
    Alive(p) /\ objects[p] \cap {"table", "jump"} # {}
      => tun[p] # None \/ Excused(p)

\* The OwnershipJournal holds the TUN before the firewall, and while a supervisor
\* lives its policy steers to a TUN device that is there, unless a firewall
\* command of it went wrong.
LeaseSound == TypeOK /\ NoBlackHole

\* The ownership scan decides rightly although the listing and /proc are read
\* one after the other and pids are reused.  A start goes on only if no
\* leftover of a dead supervisor was there when it listed, not even a bare
\* chain.  It is refused only for such a leftover, for an owner that died
\* meanwhile, or for a chain caught between two commands of its owner.
ScanVerdict ==
  [][\A p \in Proc : pc[p] = "classify" =>
       /\ pc'[p] = "check" => residue[p] = {}
       /\ pc'[p] = "unwind" =>
            \/ residue[p] # {}
            \/ \E e \in listed[p] : ~e.marked \/ ~Alive(e.owner)]_vars

\* A start ends, with the lease or without it, and so does a close; neither
\* name collisions nor failing cleanup steps keep a supervisor going round.
TransactionsEnd ==
  \A p \in Proc :
    Alive(p) /\ pc[p] # "held" ~> pc[p] \in {"held", "done", "dead"}
==============================================================================
