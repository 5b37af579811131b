--------------------------- MODULE HostLeaseProofs ---------------------------
(***************************************************************************)
(* Proofs about the host-network transaction, for every number of          *)
(* supervisors, pids, interface names and every limit on name attempts.    *)
(***************************************************************************)
EXTENDS HostLease, SequenceTheorems, TLAPS

\* A leaf that names no prover has thirty seconds of SMT, then Zenon.
USE SMTT(30), Zenon

Before == {"off", "preflight", "scan", "classify", "check", "tun", "address"}
Ended == {"done", "dead"}
Rollback == {"undoFlush", "undoDelete"}
Closing == {"flush", "delete"}

\* What the journal holds at each point of the transaction.  A start that
\* raised never registered the firewall.
JournalAt(p) ==
  /\ pc[p] \in Before \cup Ended => journal[p] = <<>>
  /\ pc[p] \in {"install", "restore"} \cup Rollback \cup Closing
       => journal[p] = <<"tun">>
  /\ pc[p] = "held" => journal[p] = <<"tun", "dnat">>
  /\ p \in failed => journal[p] # <<"tun", "dnat">>

\* What is registered, or about to be, exists.
DeviceAt(p) ==
  /\ pc[p] = "address" => tun[p] # None
  /\ pc[p] # "dead" /\ journal[p] # <<>> => tun[p] # None

\* Which firewall objects are there at each point, unless a command went wrong.
ObjectsAt(p) ==
  /\ pc[p] \in Before \cup {"install"} => objects[p] = {}
  /\ pc[p] = "restore" => objects[p] = {"chain"}
  /\ pc[p] \in Rollback => objects[p] = {"chain"} \/ Excused(p)
  /\ journal[p] = <<"tun", "dnat">> => objects[p] = Whole(backend[p])
  /\ pc[p] = "flush" => objects[p] = {"chain", "rule"} \/ Excused(p)
  /\ pc[p] = "delete" => objects[p] = {"chain"} \/ Excused(p)
  /\ pc[p] = "unwind" /\ journal[p] # <<"tun", "dnat">>
       => objects[p] = {} \/ Excused(p)
  /\ pc[p] = "done" => objects[p] = {} \/ Excused(p)

\* Whose startup has raised.
OutcomeAt(p) ==
  /\ pc[p] \in Before \cup {"install", "restore", "held", "dead"} \cup Closing
       => p \notin failed /\ p \notin misled
  /\ pc[p] \in Rollback => p \in failed
  /\ p \in misled => p \in failed
  /\ pc[p] \in Before \cup {"install", "restore", "held", "dead"}
       => failures[p] = {}

\* The backend decides the objects: a table, or a chain with what is in it.
BackendAt(p) ==
  /\ pc[p] # "off" => backend[p] \in Backends
  /\ pc[p] \in {"restore"} \cup Rollback \cup Closing => backend[p] = "iptables"
  /\ objects[p] # {} =>
       \/ backend[p] = "nft" /\ objects[p] = {"table"}
       \/ backend[p] = "iptables" /\ "chain" \in objects[p]

\* A leftover that was there at the listing is in the listing, and its owner is
\* still gone when the listing is classified.
ResidueAt(p) ==
  pc[p] = "classify" =>
    \A q \in residue[p] :
      pc[q] \in Ended /\ \E e \in listed[p] : e.owner = q

LeaseAt(p) ==
  JournalAt(p) /\ DeviceAt(p) /\ ObjectsAt(p) /\ OutcomeAt(p) /\ BackendAt(p)

LeaseInv == \A p \in Proc : LeaseAt(p) /\ ResidueAt(p)
IInv == TypeOK /\ LeaseInv

-----------------------------------------------------------------------------
(* The journal, and what a step of one supervisor leaves alone *)

\* The three journals differ, and registering and unregistering leads from one to
\* the next (OwnershipJournal.push and close).
LEMMA JournalSteps ==
  /\ <<>> # <<"tun">> /\ <<>> # <<"tun", "dnat">> /\ <<"tun">> # <<"tun", "dnat">>
  /\ Append(<<>>, "tun") = <<"tun">>
  /\ Append(<<"tun">>, "dnat") = <<"tun", "dnat">>
  /\ SubSeq(<<"tun">>, 1, Len(<<"tun">>) - 1) = <<>>
  /\ SubSeq(<<"tun", "dnat">>, 1, Len(<<"tun", "dnat">>) - 1) = <<"tun">>
  /\ {<<>>, <<"tun">>, <<"tun", "dnat">>} \subseteq Journals
<1>1. /\ Len(<<>>) = 0 /\ Len(<<"tun">>) = 1 /\ Len(<<"tun", "dnat">>) = 2
  OBVIOUS
<1>2. /\ <<>> # <<"tun">> /\ <<>> # <<"tun", "dnat">> /\ <<"tun">> # <<"tun", "dnat">>
  BY <1>1
<1>3. /\ <<>> \in Seq({"tun", "dnat"}) /\ <<"tun">> \in Seq({"tun", "dnat"})
      /\ <<"tun", "dnat">> \in Seq({"tun", "dnat"})
  OBVIOUS
<1>4. Append(<<>>, "tun") = <<"tun">>
  <2>1. /\ Append(<<>>, "tun") \in Seq({"tun", "dnat"})
        /\ Len(Append(<<>>, "tun")) = 1 /\ Append(<<>>, "tun")[1] = "tun"
    BY <1>1, <1>3, AppendProperties
  <2> QED BY <1>1, <1>3, <2>1, SeqEqual
<1>5. Append(<<"tun">>, "dnat") = <<"tun", "dnat">>
  <2>1. /\ Append(<<"tun">>, "dnat") \in Seq({"tun", "dnat"})
        /\ Len(Append(<<"tun">>, "dnat")) = 2
        /\ Append(<<"tun">>, "dnat")[1] = "tun"
        /\ Append(<<"tun">>, "dnat")[2] = "dnat"
    BY <1>1, <1>3, AppendProperties
  <2>2. \A i \in 1..Len(Append(<<"tun">>, "dnat")) :
          Append(<<"tun">>, "dnat")[i] = <<"tun", "dnat">>[i]
    BY <2>1
  <2> QED BY <1>1, <1>3, <2>1, <2>2, SeqEqual, Zenon
<1>6. SubSeq(<<"tun">>, 1, 0) = <<>>
  BY <1>1, <1>3, SubSeqProperties, EmptySeq
<1>7. SubSeq(<<"tun", "dnat">>, 1, 1) = <<"tun">>
  <2>1. /\ SubSeq(<<"tun", "dnat">>, 1, 1) \in Seq({"tun", "dnat"})
        /\ Len(SubSeq(<<"tun", "dnat">>, 1, 1)) = 1
        /\ SubSeq(<<"tun", "dnat">>, 1, 1)[1] = "tun"
    BY <1>1, <1>3, SubSeqProperties
  <2>2. \A i \in 1..Len(SubSeq(<<"tun", "dnat">>, 1, 1)) :
          SubSeq(<<"tun", "dnat">>, 1, 1)[i] = <<"tun">>[i]
    BY <2>1
  <2> QED BY <1>1, <1>3, <2>1, <2>2, SeqEqual, Zenon
<1>8. {<<>>, <<"tun">>, <<"tun", "dnat">>} \subseteq Journals
  BY DEF Journals
<1> QED BY <1>1, <1>2, <1>4, <1>5, <1>6, <1>7, <1>8

\* Which entry close() takes first.
LEMMA TopEntry ==
  ASSUME NEW p, journal[p] \in Journals
  PROVE  /\ Top(p) = "tun" <=> journal[p] = <<"tun">>
         /\ Top(p) = "dnat" <=> journal[p] = <<"tun", "dnat">>
<1>1. CASE journal[p] = <<>>
  BY <1>1, LeaseConstants, JournalSteps DEF Top
<1>2. CASE journal[p] = <<"tun">>
  BY <1>2, JournalSteps DEF Top
<1>3. CASE journal[p] = <<"tun", "dnat">>
  BY <1>3, JournalSteps DEF Top
<1> QED BY <1>1, <1>2, <1>3 DEF Journals

\* The objects of each backend.
LEMMA WholeObjects ==
  /\ Whole("nft") = {"table"} /\ Whole("iptables") = {"chain", "rule", "jump"}
  /\ {"table"} \in SUBSET Objects /\ {"chain"} \in SUBSET Objects
  /\ {"chain", "rule", "jump"} \in SUBSET Objects
BY DEF Whole, Objects

Same(q) ==
  /\ pc'[q] = pc[q] /\ pid'[q] = pid[q] /\ backend'[q] = backend[q]
  /\ tun'[q] = tun[q] /\ objects'[q] = objects[q] /\ journal'[q] = journal[q]
  /\ listed'[q] = listed[q] /\ residue'[q] = residue[q]
  /\ failures'[q] = failures[q]
  /\ (q \in failed' <=> q \in failed) /\ (q \in misled' <=> q \in misled)

\* An untouched supervisor keeps its part of the invariant.
LEMMA SameKeeps ==
  ASSUME NEW q, Same(q), LeaseAt(q)
  PROVE  LeaseAt(q)'
BY DEF Same, LeaseAt, JournalAt, DeviceAt, ObjectsAt, OutcomeAt, BackendAt, Excused

-----------------------------------------------------------------------------
(* One lemma per command: what a step of p keeps *)

Keeps(p) ==
  /\ TypeOK'
  /\ \A q \in Proc \ {p} : Same(q)
  /\ LeaseAt(p)'
  /\ ResidueAt(p)'
  /\ pc[p] \in Ended => pc'[p] = pc[p]

\* What a cleanup command leaves: its work is done, or the failure is on record.
Undone(p, rest) ==
  /\ objects' \in [Proc -> SUBSET Objects]
  /\ failures' \in [Proc -> SUBSET (Firewall \cup {"tun"})]
  /\ objects'[p] = objects[p] \/ objects'[p] = rest
  /\ \/ objects'[p] = rest /\ failures'[p] = failures[p]
     \/ failures'[p] \cap Firewall # {}
  /\ failures[p] \subseteq failures'[p]
  /\ \A q \in Proc \ {p} : objects'[q] = objects[q] /\ failures'[q] = failures[q]

\* iptables -F.
LEMMA FlushOutcome ==
  ASSUME TypeOK, NEW p \in Proc, FlushChain(p)
  PROVE  Undone(p, objects[p] \ {"rule"})
<1>1. objects[p] \ {"rule"} \in SUBSET Objects /\ "flush" \in Firewall
  BY DEF TypeOK, Firewall
<1> QED BY <1>1 DEF TypeOK, FlushChain, Undo, Undone

\* iptables -X.
LEMMA DeleteOutcome ==
  ASSUME TypeOK, NEW p \in Proc, DeleteChain(p)
  PROVE  Undone(p, {})
<1>1. "delete" \in Firewall
  BY DEF Firewall
<1> QED BY <1>1 DEF TypeOK, DeleteChain, Undo, Undone

\* nft delete table.
LEMMA TableOutcome ==
  ASSUME TypeOK, NEW p \in Proc, Undo(p, "table", "table" \in objects[p], {})
  PROVE  Undone(p, {})
<1>1. "table" \in Firewall
  BY DEF Firewall
<1> QED BY <1>1 DEF TypeOK, Undo, Undone

\* iptables -D of the jump.
LEMMA JumpOutcome ==
  ASSUME TypeOK, NEW p \in Proc,
         Undo(p, "jump", "jump" \in objects[p], objects[p] \ {"jump"})
  PROVE  Undone(p, objects[p] \ {"jump"})
<1>1. objects[p] \ {"jump"} \in SUBSET Objects /\ "jump" \in Firewall
  BY DEF TypeOK, Firewall
<1> QED BY <1>1 DEF TypeOK, Undo, Undone

\* The start of a supervisor.
LEMMA BeginKeeps ==
  ASSUME IInv, NEW p \in Proc, Begin(p)
  PROVE  Keeps(p)
<1> USE DEF Begin, Goto, Alive
<1>1. TypeOK /\ LeaseAt(p) /\ ResidueAt(p)
  BY DEF IInv, LeaseInv
<1>2. journal[p] \in Journals
  BY <1>1 DEF TypeOK
<1>3. TypeOK'
  <2>1. pc' \in [Proc -> Pcs]
    BY <1>1 DEF TypeOK, Pcs
  <2>2. pid' \in [Proc -> Pids \cup {None}] /\ backend' \in [Proc -> Backends \cup {None}]
    BY <1>1 DEF TypeOK
  <2>3. name' \in [Proc -> TunNames \cup {None}]
    BY <1>1 DEF TypeOK
  <2> QED BY <1>1, <2>1, <2>2, <2>3 DEF TypeOK
<1>4. \A q \in Proc \ {p} : Same(q)
  BY <1>1 DEF TypeOK, Same
<1>5. LeaseAt(p)'
  BY <1>1, <1>2, LeaseConstants, JournalSteps
     DEF TypeOK, LeaseAt, JournalAt, DeviceAt, ObjectsAt, OutcomeAt, BackendAt,
         Before, Ended, Rollback, Closing, Excused, Firewall
<1>6. ResidueAt(p)' /\ (pc[p] \in Ended => pc'[p] = pc[p])
  BY <1>1 DEF TypeOK, ResidueAt, Ended
<1> QED BY <1>3, <1>4, <1>5, <1>6 DEF Keeps

\* collect_preflight, passed or failed.
LEMMA PreflightKeeps ==
  ASSUME IInv, NEW p \in Proc, Preflight(p)
  PROVE  Keeps(p)
<1> USE DEF Preflight, Goto, Raise
<1>1. TypeOK /\ LeaseAt(p) /\ ResidueAt(p)
  BY DEF IInv, LeaseInv
<1>2. journal[p] \in Journals
  BY <1>1 DEF TypeOK
<1>3. TypeOK'
  <2>1. pc' \in [Proc -> Pcs]
    BY <1>1 DEF TypeOK, Pcs
  <2>2. failed' \subseteq Proc
    BY <1>1 DEF TypeOK
  <2> QED BY <1>1, <2>1, <2>2 DEF TypeOK
<1>4. \A q \in Proc \ {p} : Same(q)
  BY <1>1 DEF TypeOK, Same
<1>5. LeaseAt(p)'
  BY <1>1, <1>2, LeaseConstants, JournalSteps
     DEF TypeOK, LeaseAt, JournalAt, DeviceAt, ObjectsAt, OutcomeAt, BackendAt,
         Before, Ended, Rollback, Closing, Excused, Firewall
<1>6. ResidueAt(p)' /\ (pc[p] \in Ended => pc'[p] = pc[p])
  BY <1>1 DEF TypeOK, ResidueAt, Ended
<1> QED BY <1>3, <1>4, <1>5, <1>6 DEF Keeps

\* The dry run, passed or failed.
LEMMA CheckCompatibilityKeeps ==
  ASSUME IInv, NEW p \in Proc, CheckCompatibility(p)
  PROVE  Keeps(p)
<1> USE DEF CheckCompatibility, Goto, Raise
<1>1. TypeOK /\ LeaseAt(p) /\ ResidueAt(p)
  BY DEF IInv, LeaseInv
<1>2. journal[p] \in Journals
  BY <1>1 DEF TypeOK
<1>3. TypeOK'
  <2>1. pc' \in [Proc -> Pcs]
    BY <1>1 DEF TypeOK, Pcs
  <2>2. failed' \subseteq Proc
    BY <1>1 DEF TypeOK
  <2> QED BY <1>1, <2>1, <2>2 DEF TypeOK
<1>4. \A q \in Proc \ {p} : Same(q)
  BY <1>1 DEF TypeOK, Same
<1>5. LeaseAt(p)'
  BY <1>1, <1>2, LeaseConstants, JournalSteps
     DEF TypeOK, LeaseAt, JournalAt, DeviceAt, ObjectsAt, OutcomeAt, BackendAt,
         Before, Ended, Rollback, Closing, Excused, Firewall
<1>6. ResidueAt(p)' /\ (pc[p] \in Ended => pc'[p] = pc[p])
  BY <1>1 DEF TypeOK, ResidueAt, Ended
<1> QED BY <1>3, <1>4, <1>5, <1>6 DEF Keeps

\* One round of create_tun_queue.
LEMMA OpenTunKeeps ==
  ASSUME IInv, NEW p \in Proc, OpenTun(p)
  PROVE  Keeps(p)
<1> USE DEF OpenTun, Goto, Raise, Forget, Taken
<1>1. TypeOK /\ LeaseAt(p) /\ ResidueAt(p)
  BY DEF IInv, LeaseInv
<1>2. journal[p] \in Journals
  BY <1>1 DEF TypeOK
<1>3. TypeOK'
  <2>1. pc' \in [Proc -> Pcs]
    BY <1>1 DEF TypeOK, Pcs
  <2>2. failed' \subseteq Proc
    BY <1>1 DEF TypeOK
  <2>3. name' \in [Proc -> TunNames \cup {None}]
    BY <1>1 DEF TypeOK
  <2>4. tries' \in [Proc -> 0..NAME_ATTEMPTS]
    <3>1. NAME_ATTEMPTS \in Nat /\ 0 \in 0..NAME_ATTEMPTS
      BY LeaseConstants
    <3> QED BY <1>1, <3>1 DEF TypeOK
  <2>5. tun' \in [Proc -> TunNames \cup {None}]
    BY <1>1 DEF TypeOK
  <2> QED BY <1>1, <2>1, <2>2, <2>3, <2>4, <2>5 DEF TypeOK
<1>4. \A q \in Proc \ {p} : Same(q)
  BY <1>1 DEF TypeOK, Same
<1>5. LeaseAt(p)'
  <2>1. JournalAt(p)'
    BY <1>1, <1>2, JournalSteps
       DEF TypeOK, LeaseAt, JournalAt, OutcomeAt, Before, Ended, Rollback, Closing
  <2>2. DeviceAt(p)'
    <3>1. pc[p] = "tun" /\ journal'[p] = <<>>
      BY <1>1 DEF TypeOK, LeaseAt, JournalAt, Before
    <3>2. pc'[p] = "address" => tun'[p] # None
      <4>1. pc'[p] = "address" => \E n : tun' = [tun EXCEPT ![p] = n] /\ n # None
        BY <1>1, LeaseConstants DEF TypeOK
      <4> QED BY <1>1, <4>1 DEF TypeOK
    <3> QED BY <3>1, <3>2 DEF DeviceAt
  <2>3. ObjectsAt(p)'
    BY <1>1, <1>2, JournalSteps
       DEF TypeOK, LeaseAt, JournalAt, ObjectsAt, Before, Rollback, Closing, Excused
  <2>4. OutcomeAt(p)'
    BY <1>1 DEF TypeOK, LeaseAt, OutcomeAt, Before, Rollback, Closing
  <2>5. BackendAt(p)'
    BY <1>1 DEF TypeOK, LeaseAt, BackendAt, Rollback, Closing
  <2> QED BY <2>1, <2>2, <2>3, <2>4, <2>5 DEF LeaseAt
<1>6. ResidueAt(p)' /\ (pc[p] \in Ended => pc'[p] = pc[p])
  BY <1>1 DEF TypeOK, ResidueAt, Ended
<1> QED BY <1>3, <1>4, <1>5, <1>6 DEF Keeps

\* Address, link and route, then the registration of the device.
LEMMA ConfigureTunKeeps ==
  ASSUME IInv, NEW p \in Proc, ConfigureTun(p)
  PROVE  Keeps(p)
<1> USE DEF ConfigureTun, Goto, Raise
<1>1. TypeOK /\ LeaseAt(p) /\ ResidueAt(p)
  BY DEF IInv, LeaseInv
<1>2. /\ pc[p] = "address" /\ journal[p] = <<>> /\ tun[p] # None
      /\ \/ /\ pc' = [pc EXCEPT ![p] = "install"] /\ failed' = failed
            /\ journal' = [journal EXCEPT ![p] = <<"tun">>] /\ tun' = tun
         \/ /\ pc' = [pc EXCEPT ![p] = "unwind"] /\ failed' = failed \cup {p}
            /\ journal' = journal /\ tun' = [tun EXCEPT ![p] = None]
  BY <1>1, JournalSteps DEF TypeOK, LeaseAt, JournalAt, DeviceAt, Before
<1>3. TypeOK'
  <2>1. pc' \in [Proc -> Pcs]
    BY <1>1 DEF TypeOK, Pcs
  <2>2. failed' \subseteq Proc
    BY <1>1 DEF TypeOK
  <2>3. tun' \in [Proc -> TunNames \cup {None}]
    BY <1>1, Zenon DEF TypeOK
  <2>4. journal' \in [Proc -> Journals]
    <3>1. journal' = journal \/ \E j \in Journals : journal' = [journal EXCEPT ![p] = j]
      BY <1>1, <1>2, JournalSteps, Zenon DEF TypeOK
    <3> QED BY <1>1, <3>1, Zenon DEF TypeOK
  <2> QED BY <1>1, <2>1, <2>2, <2>3, <2>4 DEF TypeOK
<1>4. \A q \in Proc \ {p} : Same(q)
  BY <1>1 DEF TypeOK, Same
<1>5. LeaseAt(p)'
  <2>1. JournalAt(p)'
    <3>1. \/ pc'[p] = "install" /\ journal'[p] = <<"tun">> /\ p \notin failed'
          \/ pc'[p] = "unwind" /\ journal'[p] = <<>>
      BY <1>1, <1>2 DEF TypeOK, LeaseAt, OutcomeAt, Before
    <3> HIDE DEF ConfigureTun
    <3> QED
      BY <3>1, JournalSteps DEF JournalAt, Before, Ended, Rollback, Closing
  <2>2. DeviceAt(p)'
    BY <1>1, <1>2, JournalSteps DEF TypeOK, DeviceAt
  <2>3. ObjectsAt(p)' /\ OutcomeAt(p)' /\ BackendAt(p)'
    BY <1>1, <1>2, JournalSteps, Zenon
       DEF TypeOK, LeaseAt, ObjectsAt, OutcomeAt, BackendAt, Before, Rollback,
           Closing, Excused
  <2> QED BY <2>1, <2>2, <2>3 DEF LeaseAt
<1>6. ResidueAt(p)' /\ (pc[p] \in Ended => pc'[p] = pc[p])
  BY <1>1 DEF TypeOK, ResidueAt, Ended
<1> QED BY <1>3, <1>4, <1>5, <1>6 DEF Keeps

\* The nft batch.
LEMMA InstallNftKeeps ==
  ASSUME IInv, NEW p \in Proc, InstallNft(p)
  PROVE  Keeps(p)
<1> USE DEF InstallNft, Goto, Raise, NftFails, FailsLeaving
<1>1. TypeOK /\ LeaseAt(p) /\ ResidueAt(p)
  BY DEF IInv, LeaseInv
<1>2. /\ pc[p] = "install" /\ backend[p] = "nft" /\ journal[p] = <<"tun">>
      /\ UNCHANGED <<backend, tun, failures>>
      /\ \/ /\ pc' = [pc EXCEPT ![p] = "held"] /\ journal' = [journal EXCEPT ![p] = <<"tun", "dnat">>]
            /\ objects' = [objects EXCEPT ![p] = {"table"}]
            /\ failed' = failed /\ misled' = misled
         \/ /\ pc' = [pc EXCEPT ![p] = "unwind"] /\ journal' = journal
            /\ failed' = failed \cup {p}
            /\ \/ objects' = objects /\ misled' = misled
               \/ /\ objects' = [objects EXCEPT ![p] = {"table"}]
                  /\ misled' = misled \cup {p}
  BY <1>1, WholeObjects, JournalSteps, Zenon
     DEF TypeOK, LeaseAt, JournalAt, BackendAt, Before, Rollback, Closing
<1>3. TypeOK'
  <2>1. pc' \in [Proc -> Pcs]
    BY <1>1, Zenon DEF TypeOK, Pcs
  <2>2. failed' \subseteq Proc
    BY <1>1 DEF TypeOK
  <2>3. objects' \in [Proc -> SUBSET Objects]
    <3>1. objects' = objects \/ objects' = [objects EXCEPT ![p] = {"table"}]
      BY <1>2
    <3>2. {"table"} \in SUBSET Objects
      BY DEF Objects
    <3> QED BY <1>1, <3>1, <3>2, Zenon DEF TypeOK
  <2>4. misled' \subseteq Proc
    BY <1>1 DEF TypeOK
  <2>5. journal' \in [Proc -> Journals]
    <3>1. journal' = journal \/ \E j \in Journals : journal' = [journal EXCEPT ![p] = j]
      BY <1>1, <1>2, JournalSteps, Zenon DEF TypeOK
    <3> QED BY <1>1, <3>1, Zenon DEF TypeOK
  <2> QED BY <1>1, <2>1, <2>2, <2>3, <2>4, <2>5 DEF TypeOK
<1>4. \A q \in Proc \ {p} : Same(q)
  BY <1>1 DEF TypeOK, Same
<1>5. LeaseAt(p)'
  <2> HIDE DEF InstallNft, Goto, Raise, FailsLeaving, NftFails
  <2>1. JournalAt(p)'
    <3>1. \/ pc'[p] = "held" /\ journal'[p] = <<"tun", "dnat">> /\ p \notin failed'
          \/ pc'[p] = "unwind" /\ journal'[p] = <<"tun">>
      BY <1>1, <1>2 DEF TypeOK, LeaseAt, OutcomeAt, Before
    <3> QED
      BY <3>1, JournalSteps, Zenon DEF JournalAt, Before, Ended, Rollback, Closing
  <2>2. DeviceAt(p)'
    BY <1>1, <1>2, JournalSteps DEF TypeOK, LeaseAt, JournalAt, DeviceAt
  <2>3. ObjectsAt(p)'
    <3>1. \/ /\ pc'[p] = "held" /\ journal'[p] = <<"tun", "dnat">> /\ objects'[p] = {"table"}
          \/ /\ pc'[p] = "unwind" /\ journal'[p] = <<"tun">>
             /\ objects'[p] = {} \/ p \in misled'
      BY <1>1, <1>2 DEF TypeOK, LeaseAt, ObjectsAt
    <3>2. Whole(backend'[p]) = {"table"}
      BY <1>2, WholeObjects
    <3> QED
      BY <3>1, <3>2, JournalSteps DEF ObjectsAt, Before, Rollback, Excused
  <2>4. OutcomeAt(p)'
    BY <1>1, <1>2 DEF TypeOK, LeaseAt, OutcomeAt, Before, Rollback, Closing
  <2>5. BackendAt(p)'
    BY <1>1, <1>2 DEF TypeOK, LeaseAt, BackendAt, ObjectsAt, Before, Rollback, Closing
  <2> QED BY <2>1, <2>2, <2>3, <2>4, <2>5 DEF LeaseAt
<1>6. ResidueAt(p)' /\ (pc[p] \in Ended => pc'[p] = pc[p])
  BY <1>1 DEF TypeOK, ResidueAt, Ended
<1> QED BY <1>3, <1>4, <1>5, <1>6 DEF Keeps

\* iptables -N.
LEMMA NewChainKeeps ==
  ASSUME IInv, NEW p \in Proc, NewChain(p)
  PROVE  Keeps(p)
<1> USE DEF NewChain, Goto, Raise, FailsLeaving
<1>1. TypeOK /\ LeaseAt(p) /\ ResidueAt(p)
  BY DEF IInv, LeaseInv
<1>2. /\ pc[p] = "install" /\ backend[p] = "iptables" /\ journal[p] = <<"tun">>
      /\ UNCHANGED <<backend, tun, failures>>
      /\ \/ /\ pc' = [pc EXCEPT ![p] = "restore"] /\ journal' = journal
            /\ objects' = [objects EXCEPT ![p] = {"chain"}]
            /\ failed' = failed /\ misled' = misled
         \/ /\ pc' = [pc EXCEPT ![p] = "unwind"] /\ journal' = journal
            /\ failed' = failed \cup {p}
            /\ \/ objects' = objects /\ misled' = misled
               \/ /\ objects' = [objects EXCEPT ![p] = {"chain"}]
                  /\ misled' = misled \cup {p}
  BY <1>1, WholeObjects, JournalSteps
     DEF TypeOK, LeaseAt, JournalAt, BackendAt, Before, Rollback, Closing
<1>3. TypeOK'
  <2>1. pc' \in [Proc -> Pcs]
    BY <1>1 DEF TypeOK, Pcs
  <2>2. failed' \subseteq Proc
    BY <1>1 DEF TypeOK
  <2>3. objects' \in [Proc -> SUBSET Objects]
    BY <1>1, <1>2, WholeObjects DEF TypeOK
  <2>4. misled' \subseteq Proc
    BY <1>1 DEF TypeOK
  <2> QED BY <1>1, <2>1, <2>2, <2>3, <2>4 DEF TypeOK
<1>4. \A q \in Proc \ {p} : Same(q)
  BY <1>1 DEF TypeOK, Same
<1>5. LeaseAt(p)'
  <2> HIDE DEF NewChain, Goto, Raise, FailsLeaving
  <2>1. JournalAt(p)'
    BY <1>1, <1>2, JournalSteps, Zenon
       DEF TypeOK, LeaseAt, JournalAt, OutcomeAt, Before, Ended, Rollback, Closing
  <2>2. DeviceAt(p)'
    BY <1>1, <1>2, JournalSteps DEF TypeOK, LeaseAt, JournalAt, DeviceAt
  <2>3. ObjectsAt(p)'
    <3>1. \/ /\ pc'[p] = "restore" /\ journal'[p] = <<"tun">> /\ objects'[p] = {"chain"}
          \/ /\ pc'[p] = "unwind" /\ journal'[p] = <<"tun">>
             /\ objects'[p] = {} \/ p \in misled'
      BY <1>1, <1>2 DEF TypeOK, LeaseAt, ObjectsAt
    <3>2. Whole(backend'[p]) = {"chain", "rule", "jump"}
      BY <1>2, WholeObjects
    <3> QED
      BY <3>1, <3>2, JournalSteps DEF ObjectsAt, Before, Rollback, Excused
  <2>4. OutcomeAt(p)'
    BY <1>1, <1>2 DEF TypeOK, LeaseAt, OutcomeAt, Before, Rollback, Closing
  <2>5. BackendAt(p)'
    BY <1>1, <1>2 DEF TypeOK, LeaseAt, BackendAt, ObjectsAt, Before, Rollback, Closing
  <2> QED BY <2>1, <2>2, <2>3, <2>4, <2>5 DEF LeaseAt
<1>6. ResidueAt(p)' /\ (pc[p] \in Ended => pc'[p] = pc[p])
  BY <1>1 DEF TypeOK, ResidueAt, Ended
<1> QED BY <1>3, <1>4, <1>5, <1>6 DEF Keeps

\* iptables-restore.
LEMMA RestoreKeeps ==
  ASSUME IInv, NEW p \in Proc, Restore(p)
  PROVE  Keeps(p)
<1> USE DEF Restore, Goto, Raise, FailsLeaving
<1>1. TypeOK /\ LeaseAt(p) /\ ResidueAt(p)
  BY DEF IInv, LeaseInv
<1>2. /\ pc[p] = "restore" /\ backend[p] = "iptables" /\ journal[p] = <<"tun">>
      /\ UNCHANGED <<backend, tun, failures>>
      /\ \/ /\ pc' = [pc EXCEPT ![p] = "held"] /\ journal' = [journal EXCEPT ![p] = <<"tun", "dnat">>]
            /\ objects' = [objects EXCEPT ![p] = {"chain", "rule", "jump"}]
            /\ failed' = failed /\ misled' = misled
         \/ /\ pc' = [pc EXCEPT ![p] = "undoFlush"] /\ journal' = journal
            /\ failed' = failed \cup {p}
            /\ \/ objects' = objects /\ misled' = misled
               \/ /\ objects' = [objects EXCEPT ![p] = {"chain", "rule", "jump"}]
                  /\ misled' = misled \cup {p}
  BY <1>1, WholeObjects, JournalSteps, Zenon
     DEF TypeOK, LeaseAt, JournalAt, BackendAt, Before, Rollback, Closing
<1>3. TypeOK'
  <2>1. pc' \in [Proc -> Pcs]
    BY <1>1 DEF TypeOK, Pcs
  <2>2. failed' \subseteq Proc
    BY <1>1 DEF TypeOK
  <2>3. objects' \in [Proc -> SUBSET Objects]
    <3>1. objects' = objects \/ objects' = [objects EXCEPT ![p] = {"chain", "rule", "jump"}]
      BY <1>2
    <3>2. {"chain", "rule", "jump"} \in SUBSET Objects
      BY DEF Objects
    <3> QED BY <1>1, <3>1, <3>2, Zenon DEF TypeOK
  <2>4. misled' \subseteq Proc
    BY <1>1 DEF TypeOK
  <2>5. journal' \in [Proc -> Journals]
    <3>1. journal' = journal \/ \E j \in Journals : journal' = [journal EXCEPT ![p] = j]
      BY <1>1, <1>2, JournalSteps, Zenon DEF TypeOK
    <3> QED BY <1>1, <3>1, Zenon DEF TypeOK
  <2> QED BY <1>1, <2>1, <2>2, <2>3, <2>4, <2>5 DEF TypeOK
<1>4. \A q \in Proc \ {p} : Same(q)
  BY <1>1 DEF TypeOK, Same
<1>5. LeaseAt(p)'
  <2> HIDE DEF Restore, Goto, Raise, FailsLeaving
  <2>1. JournalAt(p)'
    BY <1>1, <1>2, JournalSteps, Zenon
       DEF TypeOK, LeaseAt, JournalAt, OutcomeAt, Before, Ended, Rollback, Closing
  <2>2. DeviceAt(p)'
    BY <1>1, <1>2, JournalSteps DEF TypeOK, LeaseAt, JournalAt, DeviceAt
  <2>3. ObjectsAt(p)'
    <3>1. \/ /\ pc'[p] = "held" /\ journal'[p] = <<"tun", "dnat">> /\ objects'[p] = {"chain", "rule", "jump"}
          \/ /\ pc'[p] = "undoFlush" /\ journal'[p] = <<"tun">>
             /\ objects'[p] = {"chain"} \/ p \in misled'
      BY <1>1, <1>2 DEF TypeOK, LeaseAt, ObjectsAt
    <3>2. Whole(backend'[p]) = {"chain", "rule", "jump"}
      BY <1>2, WholeObjects
    <3> QED
      BY <3>1, <3>2, JournalSteps DEF ObjectsAt, Before, Rollback, Excused
  <2>4. OutcomeAt(p)'
    BY <1>1, <1>2 DEF TypeOK, LeaseAt, OutcomeAt, Before, Rollback, Closing
  <2>5. BackendAt(p)'
    BY <1>1, <1>2 DEF TypeOK, LeaseAt, BackendAt, ObjectsAt, Before, Rollback, Closing
  <2> QED BY <2>1, <2>2, <2>3, <2>4, <2>5 DEF LeaseAt
<1>6. ResidueAt(p)' /\ (pc[p] \in Ended => pc'[p] = pc[p])
  BY <1>1 DEF TypeOK, ResidueAt, Ended
<1> QED BY <1>3, <1>4, <1>5, <1>6 DEF Keeps

\* The first command of the rollback.
LEMMA RollbackFlushKeeps ==
  ASSUME IInv, NEW p \in Proc, RollbackFlush(p)
  PROVE  Keeps(p)
<1> USE DEF RollbackFlush, Goto
<1>1. TypeOK /\ LeaseAt(p) /\ ResidueAt(p)
  BY DEF IInv, LeaseInv
<1>undo. Undone(p, objects[p] \ {"rule"})
  BY <1>1, FlushOutcome
<1>2. journal[p] \in Journals
  BY <1>1 DEF TypeOK
<1>3. TypeOK'
  <2>1. pc' \in [Proc -> Pcs]
    BY <1>1 DEF TypeOK, Pcs
  <2>2. objects' \in [Proc -> SUBSET Objects] /\ failures' \in [Proc -> SUBSET (Firewall \cup {"tun"})]
    BY <1>1, <1>undo DEF Undone
  <2> QED BY <1>1, <2>1, <2>2 DEF TypeOK
<1>4. \A q \in Proc \ {p} : Same(q)
  BY <1>1, <1>undo DEF TypeOK, Same, Undone
<1>5. LeaseAt(p)'
  <2>1. JournalAt(p)'
    BY <1>1, <1>2, JournalSteps
       DEF TypeOK, LeaseAt, JournalAt, OutcomeAt, Before, Ended, Rollback, Closing
  <2>2. DeviceAt(p)'
    BY <1>1, <1>2, JournalSteps DEF TypeOK, LeaseAt, JournalAt, DeviceAt
  <2>3. ObjectsAt(p)'
    BY <1>1, <1>2, <1>undo, JournalSteps, Zenon
       DEF TypeOK, LeaseAt, JournalAt, ObjectsAt, BackendAt, Before, Rollback,
           Closing, Excused, Firewall, Undone
  <2>4. OutcomeAt(p)'
    BY <1>1, <1>undo DEF TypeOK, Undone, LeaseAt, OutcomeAt, Before, Rollback, Closing
  <2>5. BackendAt(p)'
    BY <1>1, <1>2, <1>undo, LeaseConstants
       DEF TypeOK, Undone, LeaseAt, BackendAt, ObjectsAt, Before, Rollback, Closing
  <2> QED BY <2>1, <2>2, <2>3, <2>4, <2>5 DEF LeaseAt
<1>6. ResidueAt(p)' /\ (pc[p] \in Ended => pc'[p] = pc[p])
  BY <1>1 DEF TypeOK, ResidueAt, Ended
<1> QED BY <1>3, <1>4, <1>5, <1>6 DEF Keeps

\* The second command of the rollback.
LEMMA RollbackDeleteKeeps ==
  ASSUME IInv, NEW p \in Proc, RollbackDelete(p)
  PROVE  Keeps(p)
<1> USE DEF RollbackDelete, Goto
<1>1. TypeOK /\ LeaseAt(p) /\ ResidueAt(p)
  BY DEF IInv, LeaseInv
<1>undo. Undone(p, {})
  BY <1>1, DeleteOutcome
<1>2. journal[p] \in Journals
  BY <1>1 DEF TypeOK
<1>3. TypeOK'
  <2>1. pc' \in [Proc -> Pcs]
    BY <1>1 DEF TypeOK, Pcs
  <2>2. objects' \in [Proc -> SUBSET Objects] /\ failures' \in [Proc -> SUBSET (Firewall \cup {"tun"})]
    BY <1>1, <1>undo, Zenon DEF Undone
  <2> QED BY <1>1, <2>1, <2>2 DEF TypeOK
<1>4. \A q \in Proc \ {p} : Same(q)
  BY <1>1, <1>undo DEF TypeOK, Same, Undone
<1>5. LeaseAt(p)'
  <2>1. JournalAt(p)'
    BY <1>1, <1>2, JournalSteps
       DEF TypeOK, LeaseAt, JournalAt, OutcomeAt, Before, Ended, Rollback, Closing
  <2>2. DeviceAt(p)'
    BY <1>1, <1>2, JournalSteps DEF TypeOK, LeaseAt, JournalAt, DeviceAt
  <2>3. ObjectsAt(p)'
    BY <1>1, <1>2, <1>undo, JournalSteps, Zenon
       DEF TypeOK, LeaseAt, JournalAt, ObjectsAt, BackendAt, Before, Rollback,
           Closing, Excused, Firewall, Undone
  <2>4. OutcomeAt(p)'
    BY <1>1, <1>undo DEF TypeOK, Undone, LeaseAt, OutcomeAt, Before, Rollback, Closing
  <2>5. BackendAt(p)'
    BY <1>1, <1>2, <1>undo, LeaseConstants
       DEF TypeOK, Undone, LeaseAt, BackendAt, ObjectsAt, Before, Rollback, Closing
  <2> QED BY <2>1, <2>2, <2>3, <2>4, <2>5 DEF LeaseAt
<1>6. ResidueAt(p)' /\ (pc[p] \in Ended => pc'[p] = pc[p])
  BY <1>1 DEF TypeOK, ResidueAt, Ended
<1> QED BY <1>3, <1>4, <1>5, <1>6 DEF Keeps

\* The end of the service.
LEMMA ReleaseKeeps ==
  ASSUME IInv, NEW p \in Proc, Release(p)
  PROVE  Keeps(p)
<1> USE DEF Release, Goto
<1>1. TypeOK /\ LeaseAt(p) /\ ResidueAt(p)
  BY DEF IInv, LeaseInv
<1>2. journal[p] \in Journals
  BY <1>1 DEF TypeOK
<1>3. TypeOK'
  <2>1. pc' \in [Proc -> Pcs]
    BY <1>1 DEF TypeOK, Pcs
  <2> QED BY <1>1, <2>1 DEF TypeOK
<1>4. \A q \in Proc \ {p} : Same(q)
  BY <1>1 DEF TypeOK, Same
<1>5. LeaseAt(p)'
  BY <1>1, <1>2, LeaseConstants, JournalSteps
     DEF TypeOK, LeaseAt, JournalAt, DeviceAt, ObjectsAt, OutcomeAt, BackendAt,
         Before, Ended, Rollback, Closing, Excused, Firewall
<1>6. ResidueAt(p)' /\ (pc[p] \in Ended => pc'[p] = pc[p])
  BY <1>1 DEF TypeOK, ResidueAt, Ended
<1> QED BY <1>3, <1>4, <1>5, <1>6 DEF Keeps

\* TunQueue.close.
LEMMA CloseTunKeeps ==
  ASSUME IInv, NEW p \in Proc, CloseTun(p)
  PROVE  Keeps(p)
<1> USE DEF CloseTun, Pop
<1>1. TypeOK /\ LeaseAt(p) /\ ResidueAt(p)
  BY DEF IInv, LeaseInv
<1>2. journal[p] = <<"tun">> /\ journal' = [journal EXCEPT ![p] = <<>>]
  <2>1. journal[p] = <<"tun">>
    BY <1>1, TopEntry DEF TypeOK
  <2> QED BY <2>1, JournalSteps, Zenon
<1>3. TypeOK'
  <2>1. tun' \in [Proc -> TunNames \cup {None}]
    BY <1>1 DEF TypeOK
  <2>2. failures' \in [Proc -> SUBSET (Firewall \cup {"tun"})]
    BY <1>1 DEF TypeOK, Firewall
  <2>3. journal' \in [Proc -> Journals]
    BY <1>1, <1>2, JournalSteps, Zenon DEF TypeOK
  <2> QED BY <1>1, <2>1, <2>2, <2>3 DEF TypeOK
<1>4. \A q \in Proc \ {p} : Same(q)
  BY <1>1 DEF TypeOK, Same
<1>5. LeaseAt(p)'
  <2>1. JournalAt(p)'
    BY <1>1, <1>2, JournalSteps
       DEF TypeOK, LeaseAt, JournalAt, OutcomeAt, Before, Ended, Rollback, Closing
  <2>2. DeviceAt(p)'
    BY <1>1, <1>2, JournalSteps DEF TypeOK, LeaseAt, JournalAt, DeviceAt, Before
  <2>3. ObjectsAt(p)'
    <3>1. pc'[p] = "unwind" /\ journal'[p] = <<>> /\ objects'[p] = objects[p]
      BY <1>1, <1>2 DEF TypeOK
    <3>2. objects[p] = {} \/ Excused(p)
      BY <1>1, <1>2, JournalSteps DEF LeaseAt, ObjectsAt
    <3>3. Excused(p) => Excused(p)'
      BY <1>1 DEF TypeOK, Excused
    <3> QED BY <3>1, <3>2, <3>3, JournalSteps, Zenon DEF ObjectsAt, Before, Rollback
  <2>4. OutcomeAt(p)'
    BY <1>1 DEF TypeOK, LeaseAt, OutcomeAt, Before, Rollback, Closing
  <2>5. BackendAt(p)'
    BY <1>1 DEF TypeOK, LeaseAt, BackendAt, Rollback, Closing
  <2> QED BY <2>1, <2>2, <2>3, <2>4, <2>5 DEF LeaseAt
<1>6. ResidueAt(p)' /\ (pc[p] \in Ended => pc'[p] = pc[p])
  BY <1>1 DEF TypeOK, ResidueAt, Ended
<1> QED BY <1>3, <1>4, <1>5, <1>6, Zenon DEF Keeps

\* NftDnatLease.close.
LEMMA CloseNftKeeps ==
  ASSUME IInv, NEW p \in Proc, CloseNft(p)
  PROVE  Keeps(p)
<1> USE DEF CloseNft, Pop, Whole
<1>1. TypeOK /\ LeaseAt(p) /\ ResidueAt(p)
  BY DEF IInv, LeaseInv
<1>undo. Undone(p, {})
  BY <1>1, TableOutcome
<1>2. journal[p] = <<"tun", "dnat">> /\ journal' = [journal EXCEPT ![p] = <<"tun">>]
  <2>1. journal[p] = <<"tun", "dnat">>
    BY <1>1, TopEntry DEF TypeOK
  <2> QED BY <2>1, JournalSteps, Zenon
<1>3. TypeOK'
  <2>1. objects' \in [Proc -> SUBSET Objects] /\ failures' \in [Proc -> SUBSET (Firewall \cup {"tun"})]
    BY <1>1, <1>undo DEF Undone
  <2>2. journal' \in [Proc -> Journals]
    BY <1>1, <1>2, JournalSteps, Zenon DEF TypeOK
  <2> QED BY <1>1, <2>1, <2>2 DEF TypeOK
<1>4. \A q \in Proc \ {p} : Same(q)
  BY <1>1, <1>undo DEF TypeOK, Same, Undone
<1>5. LeaseAt(p)'
  <2>1. JournalAt(p)'
    BY <1>1, <1>2, JournalSteps
       DEF TypeOK, LeaseAt, JournalAt, OutcomeAt, Before, Ended, Rollback, Closing
  <2>2. DeviceAt(p)'
    BY <1>1, <1>2, JournalSteps DEF TypeOK, LeaseAt, JournalAt, DeviceAt
  <2>3. ObjectsAt(p)'
    <3>1. pc'[p] = "unwind" /\ journal'[p] = <<"tun">>
      BY <1>1, <1>2, Zenon DEF TypeOK
    <3>2. objects'[p] = {} \/ failures'[p] \cap Firewall # {}
      BY <1>undo DEF Undone
    <3> QED
      BY <3>1, <3>2, JournalSteps DEF ObjectsAt, Before, Rollback, Excused
  <2>4. OutcomeAt(p)'
    BY <1>1, <1>undo DEF TypeOK, Undone, LeaseAt, OutcomeAt, Before, Rollback, Closing
  <2>5. BackendAt(p)'
    BY <1>1, <1>2, <1>undo, LeaseConstants
       DEF TypeOK, Undone, LeaseAt, BackendAt, ObjectsAt, Before, Rollback, Closing
  <2> QED BY <2>1, <2>2, <2>3, <2>4, <2>5 DEF LeaseAt
<1>6. ResidueAt(p)' /\ (pc[p] \in Ended => pc'[p] = pc[p])
  BY <1>1 DEF TypeOK, ResidueAt, Ended
<1> QED BY <1>3, <1>4, <1>5, <1>6 DEF Keeps

\* The first command of IptablesDnatLease.close.
LEMMA CloseJumpKeeps ==
  ASSUME IInv, NEW p \in Proc, CloseJump(p)
  PROVE  Keeps(p)
<1> USE DEF CloseJump, Goto, Pop
<1>1. TypeOK /\ LeaseAt(p) /\ ResidueAt(p)
  BY DEF IInv, LeaseInv
<1>undo. Undone(p, objects[p] \ {"jump"})
  BY <1>1, JumpOutcome
<1>2. journal[p] = <<"tun", "dnat">> /\ journal' = [journal EXCEPT ![p] = <<"tun">>]
  <2>1. journal[p] = <<"tun", "dnat">>
    BY <1>1, TopEntry DEF TypeOK
  <2> QED BY <2>1, JournalSteps, Zenon
<1>w. /\ objects[p] = {"chain", "rule", "jump"}
      /\ objects[p] \ {"jump"} = {"chain", "rule"}
      /\ p \notin failed /\ p \notin misled
  <2>1. objects[p] = {"chain", "rule", "jump"}
    BY <1>1, <1>2, WholeObjects DEF LeaseAt, ObjectsAt
  <2>2. objects[p] \ {"jump"} = {"chain", "rule"}
    BY <2>1
  <2>3. p \notin failed /\ p \notin misled
    BY <1>1, <1>2 DEF LeaseAt, JournalAt, OutcomeAt
  <2> QED BY <2>1, <2>2, <2>3
<1>3. TypeOK'
  <2>1. pc' \in [Proc -> Pcs]
    BY <1>1 DEF TypeOK, Pcs
  <2>2. objects' \in [Proc -> SUBSET Objects] /\ failures' \in [Proc -> SUBSET (Firewall \cup {"tun"})]
    BY <1>1, <1>undo DEF Undone
  <2>3. journal' \in [Proc -> Journals]
    BY <1>1, <1>2, JournalSteps, Zenon DEF TypeOK
  <2> QED BY <1>1, <2>1, <2>2, <2>3 DEF TypeOK
<1>4. \A q \in Proc \ {p} : Same(q)
  BY <1>1, <1>undo DEF TypeOK, Same, Undone
<1>5. LeaseAt(p)'
  <2>1. JournalAt(p)'
    BY <1>1, <1>2, JournalSteps
       DEF TypeOK, LeaseAt, JournalAt, OutcomeAt, Before, Ended, Rollback, Closing
  <2>2. DeviceAt(p)'
    BY <1>1, <1>2, JournalSteps DEF TypeOK, LeaseAt, JournalAt, DeviceAt
  <2>3. ObjectsAt(p)'
    <3>1. pc'[p] = "flush" /\ journal'[p] = <<"tun">>
      BY <1>1, <1>2, Zenon DEF TypeOK
    <3>2. objects'[p] = {"chain", "rule"} \/ failures'[p] \cap Firewall # {}
      BY <1>w, <1>undo DEF Undone
    <3> QED
      BY <3>1, <3>2, JournalSteps, Zenon DEF ObjectsAt, Before, Rollback, Excused
  <2>4. OutcomeAt(p)'
    BY <1>1, <1>w, <1>undo DEF TypeOK, Undone, LeaseAt, OutcomeAt, Before, Rollback, Closing
  <2>5. BackendAt(p)'
    BY <1>1, <1>w, <1>2, <1>undo, LeaseConstants
       DEF TypeOK, Undone, LeaseAt, BackendAt, ObjectsAt, Before, Rollback, Closing
  <2> QED BY <2>1, <2>2, <2>3, <2>4, <2>5 DEF LeaseAt
<1>6. ResidueAt(p)' /\ (pc[p] \in Ended => pc'[p] = pc[p])
  BY <1>1 DEF TypeOK, ResidueAt, Ended
<1> QED BY <1>3, <1>4, <1>5, <1>6 DEF Keeps

\* The second command of IptablesDnatLease.close.
LEMMA CloseFlushKeeps ==
  ASSUME IInv, NEW p \in Proc, CloseFlush(p)
  PROVE  Keeps(p)
<1> USE DEF CloseFlush, Goto
<1>1. TypeOK /\ LeaseAt(p) /\ ResidueAt(p)
  BY DEF IInv, LeaseInv
<1>undo. Undone(p, objects[p] \ {"rule"})
  BY <1>1, FlushOutcome
<1>2. journal[p] \in Journals
  BY <1>1 DEF TypeOK
<1>3. TypeOK'
  <2>1. pc' \in [Proc -> Pcs]
    BY <1>1 DEF TypeOK, Pcs
  <2>2. objects' \in [Proc -> SUBSET Objects] /\ failures' \in [Proc -> SUBSET (Firewall \cup {"tun"})]
    BY <1>1, <1>undo DEF Undone
  <2> QED BY <1>1, <2>1, <2>2 DEF TypeOK
<1>4. \A q \in Proc \ {p} : Same(q)
  BY <1>1, <1>undo DEF TypeOK, Same, Undone
<1>5. LeaseAt(p)'
  <2>1. JournalAt(p)'
    BY <1>1, <1>2, JournalSteps
       DEF TypeOK, LeaseAt, JournalAt, OutcomeAt, Before, Ended, Rollback, Closing
  <2>2. DeviceAt(p)'
    BY <1>1, <1>2, JournalSteps DEF TypeOK, LeaseAt, JournalAt, DeviceAt
  <2>3. ObjectsAt(p)'
    BY <1>1, <1>2, <1>undo, JournalSteps, Zenon
       DEF TypeOK, LeaseAt, JournalAt, ObjectsAt, BackendAt, Before, Rollback,
           Closing, Excused, Firewall, Undone
  <2>4. OutcomeAt(p)'
    BY <1>1, <1>undo DEF TypeOK, Undone, LeaseAt, OutcomeAt, Before, Rollback, Closing
  <2>5. BackendAt(p)'
    BY <1>1, <1>2, <1>undo, LeaseConstants
       DEF TypeOK, Undone, LeaseAt, BackendAt, ObjectsAt, Before, Rollback, Closing
  <2> QED BY <2>1, <2>2, <2>3, <2>4, <2>5 DEF LeaseAt
<1>6. ResidueAt(p)' /\ (pc[p] \in Ended => pc'[p] = pc[p])
  BY <1>1 DEF TypeOK, ResidueAt, Ended
<1> QED BY <1>3, <1>4, <1>5, <1>6 DEF Keeps

\* The third command of IptablesDnatLease.close.
LEMMA CloseChainKeeps ==
  ASSUME IInv, NEW p \in Proc, CloseChain(p)
  PROVE  Keeps(p)
<1> USE DEF CloseChain, Goto
<1>1. TypeOK /\ LeaseAt(p) /\ ResidueAt(p)
  BY DEF IInv, LeaseInv
<1>undo. Undone(p, {})
  BY <1>1, DeleteOutcome
<1>2. journal[p] \in Journals
  BY <1>1 DEF TypeOK
<1>3. TypeOK'
  <2>1. pc' \in [Proc -> Pcs]
    BY <1>1 DEF TypeOK, Pcs
  <2>2. objects' \in [Proc -> SUBSET Objects] /\ failures' \in [Proc -> SUBSET (Firewall \cup {"tun"})]
    BY <1>1, <1>undo, Zenon DEF Undone
  <2> QED BY <1>1, <2>1, <2>2 DEF TypeOK
<1>4. \A q \in Proc \ {p} : Same(q)
  BY <1>1, <1>undo DEF TypeOK, Same, Undone
<1>5. LeaseAt(p)'
  <2>1. JournalAt(p)'
    BY <1>1, <1>2, JournalSteps
       DEF TypeOK, LeaseAt, JournalAt, OutcomeAt, Before, Ended, Rollback, Closing
  <2>2. DeviceAt(p)'
    BY <1>1, <1>2, JournalSteps DEF TypeOK, LeaseAt, JournalAt, DeviceAt
  <2>3. ObjectsAt(p)'
    BY <1>1, <1>2, <1>undo, JournalSteps, Zenon
       DEF TypeOK, LeaseAt, JournalAt, ObjectsAt, BackendAt, Before, Rollback,
           Closing, Excused, Firewall, Undone
  <2>4. OutcomeAt(p)'
    BY <1>1, <1>undo DEF TypeOK, Undone, LeaseAt, OutcomeAt, Before, Rollback, Closing
  <2>5. BackendAt(p)'
    BY <1>1, <1>2, <1>undo, LeaseConstants
       DEF TypeOK, Undone, LeaseAt, BackendAt, ObjectsAt, Before, Rollback, Closing
  <2> QED BY <2>1, <2>2, <2>3, <2>4, <2>5 DEF LeaseAt
<1>6. ResidueAt(p)' /\ (pc[p] \in Ended => pc'[p] = pc[p])
  BY <1>1 DEF TypeOK, ResidueAt, Ended
<1> QED BY <1>3, <1>4, <1>5, <1>6 DEF Keeps

\* The end of close().
LEMMA FinishKeeps ==
  ASSUME IInv, NEW p \in Proc, Finish(p)
  PROVE  Keeps(p)
<1> USE DEF Finish, Goto, Forget
<1>1. TypeOK /\ LeaseAt(p) /\ ResidueAt(p)
  BY Zenon DEF IInv, LeaseInv
<1>2. journal[p] \in Journals
  BY <1>1 DEF TypeOK
<1>3. TypeOK'
  <2>1. pc' \in [Proc -> Pcs]
    BY <1>1 DEF TypeOK, Pcs
  <2>2. name' \in [Proc -> TunNames \cup {None}]
    BY <1>1 DEF TypeOK
  <2>3. tries' \in [Proc -> 0..NAME_ATTEMPTS]
    <3>1. NAME_ATTEMPTS \in Nat /\ 0 \in 0..NAME_ATTEMPTS
      BY LeaseConstants
    <3>2. tries \in [Proc -> 0..NAME_ATTEMPTS] /\ tries' = [tries EXCEPT ![p] = 0]
      BY <1>1 DEF TypeOK
    <3> QED BY <3>1, <3>2
  <2> QED BY <1>1, <2>1, <2>2, <2>3 DEF TypeOK
<1>4. \A q \in Proc \ {p} : Same(q)
  BY <1>1 DEF TypeOK, Same
<1>5. LeaseAt(p)'
  BY <1>1, <1>2, LeaseConstants, JournalSteps, Zenon
     DEF TypeOK, LeaseAt, JournalAt, DeviceAt, ObjectsAt, OutcomeAt, BackendAt,
         Before, Ended, Rollback, Closing, Excused, Firewall
<1>6. ResidueAt(p)' /\ (pc[p] \in Ended => pc'[p] = pc[p])
  BY <1>1 DEF TypeOK, ResidueAt, Ended
<1> QED BY <1>3, <1>4, <1>5, <1>6, Zenon DEF Keeps

\* The end of an orphaned hosted kernel.
LEMMA OrphanExitsKeeps ==
  ASSUME IInv, NEW p \in Proc, OrphanExits(p)
  PROVE  Keeps(p)
<1> USE DEF OrphanExits
<1>1. TypeOK /\ LeaseAt(p) /\ ResidueAt(p)
  BY DEF IInv, LeaseInv
<1>2. journal[p] \in Journals
  BY <1>1 DEF TypeOK
<1>3. TypeOK'
  <2>1. tun' \in [Proc -> TunNames \cup {None}]
    BY <1>1 DEF TypeOK
  <2> QED BY <1>1, <2>1 DEF TypeOK
<1>4. \A q \in Proc \ {p} : Same(q)
  BY <1>1 DEF TypeOK, Same
<1>5. LeaseAt(p)'
  BY <1>1, <1>2, LeaseConstants, JournalSteps, Zenon
     DEF TypeOK, LeaseAt, JournalAt, DeviceAt, ObjectsAt, OutcomeAt, BackendAt,
         Before, Ended, Rollback, Closing, Excused, Firewall
<1>6. ResidueAt(p)' /\ (pc[p] \in Ended => pc'[p] = pc[p])
  BY <1>1 DEF TypeOK, ResidueAt, Ended
<1> QED BY <1>3, <1>4, <1>5, <1>6, Zenon DEF Keeps

\* The remediation.
LEMMA OperatorRemovesKeeps ==
  ASSUME IInv, NEW p \in Proc, OperatorRemoves(p)
  PROVE  Keeps(p)
<1> USE DEF OperatorRemoves
<1>1. TypeOK /\ LeaseAt(p) /\ ResidueAt(p)
  BY DEF IInv, LeaseInv
<1>2. journal[p] \in Journals
  BY <1>1 DEF TypeOK
<1>3. TypeOK'
  <2>1. objects' \in [Proc -> SUBSET Objects]
    BY <1>1 DEF TypeOK, Objects
  <2> QED BY <1>1, <2>1 DEF TypeOK
<1>4. \A q \in Proc \ {p} : Same(q)
  BY <1>1 DEF TypeOK, Same
<1>5. LeaseAt(p)'
  BY <1>1, <1>2, LeaseConstants, JournalSteps, Zenon
     DEF TypeOK, LeaseAt, JournalAt, DeviceAt, ObjectsAt, OutcomeAt, BackendAt,
         Before, Ended, Rollback, Closing, Excused, Firewall
<1>6. ResidueAt(p)' /\ (pc[p] \in Ended => pc'[p] = pc[p])
  BY <1>1 DEF TypeOK, ResidueAt, Ended
<1> QED BY <1>3, <1>4, <1>5, <1>6 DEF Keeps

\* The verdict on the listing.
LEMMA ClassifyKeeps ==
  ASSUME IInv, NEW p \in Proc, Classify(p)
  PROVE  Keeps(p)
<1> USE DEF Classify, Goto, Raise
<1>1. TypeOK /\ LeaseAt(p) /\ ResidueAt(p)
  BY DEF IInv, LeaseInv
<1>2. journal[p] \in Journals
  BY <1>1 DEF TypeOK
<1>3. TypeOK'
  <2>1. pc' \in [Proc -> Pcs]
    BY <1>1 DEF TypeOK, Pcs
  <2>2. failed' \subseteq Proc
    BY <1>1 DEF TypeOK
  <2>3. listed' \in [Proc -> SUBSET Entries] /\ residue' \in [Proc -> SUBSET Proc]
    BY <1>1, LeaseConstants DEF TypeOK
  <2> QED BY <1>1, <2>1, <2>2, <2>3 DEF TypeOK
<1>4. \A q \in Proc \ {p} : Same(q)
  BY <1>1 DEF TypeOK, Same
<1>5. LeaseAt(p)'
  <2>1. JournalAt(p)'
    BY <1>1, <1>2, JournalSteps
       DEF TypeOK, LeaseAt, JournalAt, OutcomeAt, Before, Ended, Rollback, Closing
  <2>2. DeviceAt(p)'
    BY <1>1, <1>2, JournalSteps DEF TypeOK, LeaseAt, JournalAt, DeviceAt, Before
  <2>3. ObjectsAt(p)'
    <3>1. /\ objects'[p] = {} /\ journal'[p] = <<>>
          /\ pc'[p] \in {"check", "unwind"}
      BY <1>1 DEF TypeOK, LeaseAt, JournalAt, ObjectsAt, Before
    <3> QED BY <3>1, JournalSteps DEF ObjectsAt, Before, Rollback
  <2>4. OutcomeAt(p)'
    BY <1>1 DEF TypeOK, LeaseAt, OutcomeAt, Before, Rollback, Closing
  <2>5. BackendAt(p)'
    BY <1>1 DEF TypeOK, LeaseAt, BackendAt, Rollback, Closing
  <2> QED BY <2>1, <2>2, <2>3, <2>4, <2>5 DEF LeaseAt
<1>6. ResidueAt(p)' /\ (pc[p] \in Ended => pc'[p] = pc[p])
  BY <1>1 DEF TypeOK, ResidueAt, Ended
<1> QED BY <1>3, <1>4, <1>5, <1>6 DEF Keeps

\* SIGKILL.
LEMMA KillKeeps ==
  ASSUME IInv, NEW p \in Proc, Kill(p)
  PROVE  Keeps(p)
<1> USE DEF Kill, Goto, Alive
<1>1. TypeOK /\ LeaseAt(p) /\ ResidueAt(p)
  BY DEF IInv, LeaseInv
<1>2. journal[p] \in Journals
  BY <1>1 DEF TypeOK
<1>3. TypeOK'
  <2>1. pc' \in [Proc -> Pcs]
    BY <1>1 DEF TypeOK, Pcs
  <2>2. name' \in [Proc -> TunNames \cup {None}]
    BY <1>1 DEF TypeOK
  <2>3. tries' \in [Proc -> 0..NAME_ATTEMPTS]
    <3>1. NAME_ATTEMPTS \in Nat /\ 0 \in 0..NAME_ATTEMPTS
      BY LeaseConstants
    <3>2. tries \in [Proc -> 0..NAME_ATTEMPTS] /\ tries' = [tries EXCEPT ![p] = 0]
      BY <1>1 DEF TypeOK
    <3> QED BY <3>1, <3>2
  <2>4. tun' \in [Proc -> TunNames \cup {None}]
    BY <1>1 DEF TypeOK
  <2>5. failures' \in [Proc -> SUBSET (Firewall \cup {"tun"})]
    BY <1>1 DEF TypeOK, Firewall
  <2>6. journal' \in [Proc -> Journals]
    BY <1>1, <1>2, JournalSteps DEF TypeOK
  <2>7. listed' \in [Proc -> SUBSET Entries] /\ residue' \in [Proc -> SUBSET Proc]
    BY <1>1, LeaseConstants DEF TypeOK
  <2>8. failed' \subseteq Proc /\ misled' \subseteq Proc
    BY <1>1 DEF TypeOK
  <2> QED BY <1>1, <2>1, <2>2, <2>3, <2>4, <2>5, <2>6, <2>7, <2>8 DEF TypeOK
<1>4. \A q \in Proc \ {p} : Same(q)
  BY <1>1 DEF TypeOK, Same
<1>5. LeaseAt(p)'
  <2>1. JournalAt(p)'
    BY <1>1, <1>2, JournalSteps
       DEF TypeOK, LeaseAt, JournalAt, OutcomeAt, Before, Ended, Rollback, Closing
  <2>2. DeviceAt(p)'
    BY <1>1, <1>2, JournalSteps DEF TypeOK, LeaseAt, JournalAt, DeviceAt
  <2>3. ObjectsAt(p)'
    BY <1>1, <1>2, JournalSteps, Zenon
       DEF TypeOK, LeaseAt, JournalAt, ObjectsAt, BackendAt, Before, Rollback,
           Closing, Excused, Firewall
  <2>4. OutcomeAt(p)'
    BY <1>1 DEF TypeOK, LeaseAt, OutcomeAt, Before, Rollback, Closing
  <2>5. BackendAt(p)'
    BY <1>1, <1>2, LeaseConstants, Zenon
       DEF TypeOK, LeaseAt, BackendAt, ObjectsAt, Before, Rollback, Closing
  <2> QED BY <2>1, <2>2, <2>3, <2>4, <2>5 DEF LeaseAt
<1>6. ResidueAt(p)' /\ (pc[p] \in Ended => pc'[p] = pc[p])
  BY <1>1 DEF TypeOK, ResidueAt, Ended
<1> QED BY <1>3, <1>4, <1>5, <1>6 DEF Keeps

\* The ownership report consists of entries.
LEMMA ListedType == ASSUME NEW p PROVE Listed(p) \in SUBSET Entries
<1>1. ASSUME NEW e \in NftListed PROVE e \in Entries
  <2>1. PICK q \in Proc : e = [owner |-> q, marked |-> TRUE]
    BY DEF NftListed
  <2> QED BY <2>1, Zenon DEF Entries
<1>2. ASSUME NEW e \in IptablesListed PROVE e \in Entries
  <2>1. PICK q \in Proc : e = [owner |-> q, marked |-> "rule" \in objects[q]]
    BY Zenon DEF IptablesListed
  <2>2. CASE "rule" \in objects[q]
    <3>1. e = [owner |-> q, marked |-> TRUE]
      BY <2>1, <2>2, Zenon
    <3> QED BY <3>1, Zenon DEF Entries
  <2>3. CASE "rule" \notin objects[q]
    <3>0. ("rule" \in objects[q]) = FALSE
      BY <2>3
    <3>1. e = [owner |-> q, marked |-> FALSE]
      BY <2>1, <3>0, Zenon
    <3> QED BY <3>1, Zenon DEF Entries
  <2> QED BY <2>2, <2>3
<1> QED BY <1>1, <1>2, Zenon DEF Listed

\* A table shows in the report of nft, a chain in that of iptables.
LEMMA ListedOwners ==
  ASSUME NEW p, NEW q \in Proc,
         \/ backend[p] = "nft" /\ objects[q] = {"table"}
         \/ backend[p] = "iptables" /\ "chain" \in objects[q]
  PROVE  \E e \in Listed(p) : e.owner = q
<1>1. CASE backend[p] = "nft" /\ objects[q] = {"table"}
  <2>1. [owner |-> q, marked |-> TRUE] \in NftListed
    BY <1>1, Zenon DEF NftListed
  <2> QED BY <1>1, <2>1 DEF Listed
<1>2. CASE backend[p] = "iptables" /\ "chain" \in objects[q]
  <2>1. [owner |-> q, marked |-> "rule" \in objects[q]] \in IptablesListed
    BY <1>2, Zenon DEF IptablesListed
  <2> QED BY <1>2, <2>1 DEF Listed
<1> QED BY <1>1, <1>2

\* The listing.
LEMMA ListKeeps ==
  ASSUME IInv, NEW p \in Proc, List(p)
  PROVE  Keeps(p)
<1> USE DEF List, Goto, Raise
<1>1. TypeOK /\ LeaseAt(p) /\ ResidueAt(p)
  BY DEF IInv, LeaseInv
<1>2. journal[p] \in Journals
  BY <1>1 DEF TypeOK
<1>e. Listed(p) \in SUBSET Entries /\ Residue(p) \in SUBSET Proc
  BY ListedType DEF Residue
<1>3. TypeOK'
  <2>1. pc' \in [Proc -> Pcs]
    BY <1>1 DEF TypeOK, Pcs
  <2>2. failed' \subseteq Proc
    BY <1>1 DEF TypeOK
  <2>3. listed' \in [Proc -> SUBSET Entries] /\ residue' \in [Proc -> SUBSET Proc]
    <3>1. \/ listed' = listed /\ residue' = residue
          \/ /\ listed' = [listed EXCEPT ![p] = Listed(p)]
             /\ residue' = [residue EXCEPT ![p] = Residue(p)]
      BY Zenon
    <3> HIDE DEF List
    <3> QED BY <1>1, <1>e, <3>1 DEF TypeOK
  <2> QED BY <1>1, <2>1, <2>2, <2>3 DEF TypeOK
<1>4. \A q \in Proc \ {p} : Same(q)
  BY <1>1 DEF TypeOK, Same
<1>5. LeaseAt(p)'
  <2>1. JournalAt(p)'
    BY <1>1, <1>2, JournalSteps
       DEF TypeOK, LeaseAt, JournalAt, OutcomeAt, Before, Ended, Rollback, Closing
  <2>2. DeviceAt(p)'
    BY <1>1, <1>2, JournalSteps DEF TypeOK, LeaseAt, JournalAt, DeviceAt, Before
  <2>3. ObjectsAt(p)'
    BY <1>1, <1>2, JournalSteps
       DEF TypeOK, LeaseAt, JournalAt, ObjectsAt, Before, Rollback, Closing, Excused
  <2>4. OutcomeAt(p)'
    BY <1>1 DEF TypeOK, LeaseAt, OutcomeAt, Before, Rollback, Closing
  <2>5. BackendAt(p)'
    BY <1>1 DEF TypeOK, LeaseAt, BackendAt, Rollback, Closing
  <2> QED BY <2>1, <2>2, <2>3, <2>4, <2>5 DEF LeaseAt
<1>6. ResidueAt(p)'
  <2> SUFFICES ASSUME pc'[p] = "classify", NEW q \in residue'[p]
               PROVE  pc'[q] \in Ended /\ \E e \in listed'[p] : e.owner = q
    BY DEF ResidueAt
  <2>1. listed'[p] = Listed(p) /\ residue'[p] = Residue(p)
    BY <1>1 DEF TypeOK
  <2>2. /\ q \in Proc /\ pc[q] \in {"off", "done", "dead"} /\ objects[q] # {}
        /\ backend[q] = backend[p]
    BY <2>1 DEF Residue, Alive
  <2>3. LeaseAt(q)
    BY <2>2 DEF IInv, LeaseInv
  <2>4. pc[q] \in Ended /\ q # p
    BY <2>2, <2>3, Zenon DEF LeaseAt, ObjectsAt, Before, Ended
  <2>5. pc'[q] = pc[q]
    BY <1>1, <2>2, <2>4 DEF TypeOK
  <2>6. \E e \in Listed(p) : e.owner = q
    <3>1. \/ backend[p] = "nft" /\ objects[q] = {"table"}
          \/ backend[p] = "iptables" /\ "chain" \in objects[q]
      BY <2>2, <2>3 DEF LeaseAt, BackendAt
    <3> HIDE DEF List
    <3> QED BY <2>2, <3>1, ListedOwners
  <2> QED BY <2>1, <2>4, <2>5, <2>6
<1>7. pc[p] \in Ended => pc'[p] = pc[p]
  BY DEF Ended
<1> QED BY <1>3, <1>4, <1>5, <1>6, <1>7 DEF Keeps

-----------------------------------------------------------------------------
(* The invariant, and what follows from it *)

\* Every step of a supervisor or of the host is one of those above.
LEMMA StepKeeps ==
  ASSUME IInv, NEW p \in Proc, Acquire(p) \/ Close(p) \/ Host(p)
  PROVE  Keeps(p)
BY BeginKeeps, PreflightKeeps, ListKeeps, ClassifyKeeps, CheckCompatibilityKeeps,
   OpenTunKeeps, ConfigureTunKeeps, InstallNftKeeps, NewChainKeeps, RestoreKeeps,
   RollbackFlushKeeps, RollbackDeleteKeeps, ReleaseKeeps, CloseTunKeeps,
   CloseNftKeeps, CloseJumpKeeps, CloseFlushKeeps, CloseChainKeeps, FinishKeeps,
   KillKeeps, OrphanExitsKeeps, OperatorRemovesKeeps
   DEF Acquire, Close, Host

\* What one step of p keeps for p and leaves alone for the others makes the
\* invariant hold again: a supervisor that ended stays ended, so a listing that
\* another one is still to classify does not become wrong about its leftovers.
LEMMA KeepsInv ==
  ASSUME IInv, NEW p \in Proc, Keeps(p)
  PROVE  IInv'
<1>1. \A q \in Proc : LeaseAt(q)'
  <2> SUFFICES ASSUME NEW q \in Proc, q # p PROVE LeaseAt(q)'
    BY DEF Keeps
  <2> QED BY SameKeeps DEF Keeps, IInv, LeaseInv
<1>2. \A q \in Proc : pc[q] \in Ended => pc'[q] = pc[q]
  BY DEF Keeps, Same
<1>3. \A q \in Proc : ResidueAt(q)'
  <2> SUFFICES ASSUME NEW q \in Proc, q # p PROVE ResidueAt(q)'
    BY Zenon DEF Keeps
  <2>1. pc'[q] = pc[q] /\ residue'[q] = residue[q] /\ listed'[q] = listed[q]
    BY DEF Keeps, Same
  <2>2. residue[q] \subseteq Proc
    BY DEF IInv, TypeOK
  <2>3. ResidueAt(q)
    BY DEF IInv, LeaseInv
  <2> QED BY <1>2, <2>1, <2>2, <2>3, Zenon DEF ResidueAt
<1> QED BY <1>1, <1>3 DEF Keeps, IInv, LeaseInv

\* The invariant holds at the start.
LEMMA InitInv == Init => IInv
<1> SUFFICES ASSUME Init PROVE IInv
  OBVIOUS
<1>1. TypeOK
  <2>1. "off" \in Pcs /\ 0 \in 0..NAME_ATTEMPTS /\ <<>> \in Journals
    BY LeaseConstants, JournalSteps DEF Pcs
  <2> QED BY <2>1 DEF Init, TypeOK
<1>2. \A p \in Proc : LeaseAt(p) /\ ResidueAt(p)
  BY JournalSteps
     DEF Init, LeaseAt, JournalAt, DeviceAt, ObjectsAt, OutcomeAt, BackendAt,
         ResidueAt, Before, Ended, Rollback, Closing
<1> QED BY <1>1, <1>2 DEF IInv, LeaseInv

\* The invariant is inductive.
LEMMA NextInv == IInv /\ [Next]_vars => IInv'
<1> SUFFICES ASSUME IInv, [Next]_vars PROVE IInv'
  OBVIOUS
<1>1. CASE Next
  <2>1. PICK p \in Proc : Acquire(p) \/ Close(p) \/ Host(p)
    BY <1>1 DEF Next
  <2> QED BY <2>1, StepKeeps, KeepsInv
<1>2. CASE UNCHANGED vars
  <2>1. TypeOK'
    BY <1>2 DEF vars, IInv, TypeOK
  <2>2. ASSUME NEW p \in Proc PROVE LeaseAt(p)' /\ ResidueAt(p)'
    <3>1. LeaseAt(p) /\ ResidueAt(p)
      BY DEF IInv, LeaseInv
    <3>2. Same(p)
      BY <1>2, Zenon DEF vars, Same
    <3>3. ResidueAt(p)'
      BY <1>2, <3>1 DEF vars, ResidueAt
    <3> QED BY <3>1, <3>2, <3>3, SameKeeps
  <2> QED BY <2>1, <2>2 DEF IInv, LeaseInv
<1> QED BY <1>1, <1>2

\* The invariant holds in every behaviour of the supervisors of a host.
LEMMA Invariance == Spec => []IInv
BY InitInv, NextInv, PTL DEF Spec

\* The state of every transaction is well formed, and traffic is never steered to
\* a device that is gone while its supervisor lives and its firewall commands
\* worked: the order of _register_resource and of OwnershipJournal.close.
THEOREM LeaseIsSound == Spec => []LeaseSound
<1>1. ASSUME IInv PROVE LeaseSound
  <2>1. ASSUME NEW p \in Proc, Alive(p), objects[p] \cap {"table", "jump"} # {}
        PROVE  tun[p] # None \/ Excused(p)
    <3>1. LeaseAt(p) /\ pc[p] \in Pcs
      BY <1>1 DEF IInv, LeaseInv, TypeOK
    <3>2. CASE journal[p] # <<>>
      BY <2>1, <3>1, <3>2 DEF Alive, LeaseAt, DeviceAt
    <3>3. CASE journal[p] = <<>>
      <4>1. pc[p] \in Before \cup {"unwind"}
        BY <2>1, <3>1, <3>3, JournalSteps
           DEF Alive, Pcs, LeaseAt, JournalAt, Before, Ended, Rollback, Closing
      <4> QED BY <2>1, <3>1, <3>3, <4>1, JournalSteps DEF LeaseAt, ObjectsAt, Before
    <3> QED BY <3>2, <3>3
  <2> QED BY <1>1, <2>1 DEF IInv, LeaseSound, NoBlackHole
<1> QED BY <1>1, Invariance, PTL

\* The ownership scan decides rightly for any number of supervisors and any reuse
\* of pids: what classify_owner reads of /proc after the listing is newer than
\* the listing, and that does no harm because a supervisor that ended stays so.
THEOREM ScanDecidesRightly == Spec => ScanVerdict
<1> DEFINE Verdict ==
      \A p \in Proc : pc[p] = "classify" =>
        /\ pc'[p] = "check" => residue[p] = {}
        /\ pc'[p] = "unwind" =>
             \/ residue[p] # {}
             \/ \E e \in listed[p] : ~e.marked \/ ~Alive(e.owner)
<1>1. ASSUME IInv, [Next]_vars PROVE [Verdict]_vars
  <2> SUFFICES ASSUME Next, NEW q \in Proc, pc[q] = "classify"
               PROVE  /\ pc'[q] = "check" => residue[q] = {}
                      /\ pc'[q] = "unwind" =>
                           \E e \in listed[q] : ~e.marked \/ ~Alive(e.owner)
    BY <1>1, Zenon
  <2>1. PICK p \in Proc : Acquire(p) \/ Close(p) \/ Host(p)
    BY DEF Next
  <2>2. CASE q # p
    <3>1. pc'[q] = pc[q]
      BY <1>1, <2>1, <2>2, StepKeeps DEF Keeps, Same
    <3> QED BY <3>1
  <2>3. CASE q = p
    <3>1. Classify(q) \/ Kill(q)
      BY <2>1, <2>3, Zenon
         DEF Acquire, Close, Host, Begin, Preflight, List, CheckCompatibility,
             OpenTun, ConfigureTun, InstallNft, NewChain, Restore, RollbackFlush,
             RollbackDelete, Release, CloseTun, CloseNft, CloseJump, CloseFlush,
             CloseChain, Finish, OrphanExits, OperatorRemoves
    <3>2. pc \in [Proc -> Pcs] /\ ResidueAt(q)
      BY <1>1 DEF IInv, TypeOK, LeaseInv
    <3>3. CASE Kill(q)
      BY <3>2, <3>3 DEF Kill, Goto
    <3>4. CASE Classify(q)
      <4>1. CASE \A e \in listed[q] : Status(e) = "active"
        <5>1. pc'[q] = "check"
          BY <3>2, <3>4, <4>1 DEF Classify, Goto
        <5>2. ASSUME NEW r \in residue[q] PROVE FALSE
          <6>1. PICK e \in listed[q] : e.owner = r
            BY <3>2 DEF ResidueAt
          <6>2. Alive(r)
            BY <4>1, <6>1 DEF Status
          <6> QED BY <3>2, <6>2 DEF ResidueAt, Alive, Ended
        <5> QED BY <5>1, <5>2, Zenon
      <4>2. CASE \E e \in listed[q] : Status(e) # "active"
        <5>1. pc'[q] = "unwind"
          BY <3>2, <3>4, <4>2 DEF Classify, Goto, Raise
        <5>2. PICK e \in listed[q] : Status(e) # "active"
          BY <4>2
        <5>3. e.owner \in Proc
          BY <1>1 DEF IInv, TypeOK, Entries
        <5>4. ~e.marked \/ ~Alive(e.owner)
          BY <5>2, <5>3 DEF Status
        <5> QED BY <5>1, <5>4
      <4> QED BY <4>1, <4>2, Zenon
    <3> QED BY <3>1, <3>3, <3>4
  <2> QED BY <2>2, <2>3, Zenon
<1> QED BY <1>1, Invariance, PTL DEF Spec, ScanVerdict

-----------------------------------------------------------------------------
(* The transaction implements the lease of module Lease *)

Granted(p) == IF pc[p] \in Ended THEN objects[p] # {} ELSE AbsState(p) = "held"

\* What the lease shows of an untouched supervisor stays the same.
LEMMA SameAbstract ==
  ASSUME NEW q, Same(q)
  PROVE  AbsState(q)' = AbsState(q) /\ (Granted(q)' <=> Granted(q))
         /\ (Excused(q)' <=> Excused(q))
BY DEF Same, AbsState, Granted, Excused, Ended

\* A command in the middle of the transaction: nothing of the lease changes, or a
\* command has gone wrong.
Inside(p) ==
  /\ pc[p] \notin Ended /\ pc'[p] \notin Ended
  /\ AbsState(p)' = AbsState(p)
  /\ Excused(p) => Excused(p)'

\* Such a command is a stutter of the lease, or the step that excuses it.
LEMMA InsideStep ==
  ASSUME IInv, NEW p \in Proc, Keeps(p), Inside(p)
  PROVE  [L!Next]_(L!vars)
<1>1. \A q \in Proc \ {p} :
        AbsState(q)' = AbsState(q) /\ (Granted(q)' <=> Granted(q))
          /\ (Excused(q)' <=> Excused(q))
  BY SameAbstract DEF Keeps
<1>2. Granted(p)' <=> Granted(p)
  BY DEF Inside, Granted
<1>3. [q \in Proc |-> AbsState(q)]' = [q \in Proc |-> AbsState(q)]
  BY <1>1 DEF Inside
<1>4. AbsPolicy' = AbsPolicy
  BY <1>1, <1>2 DEF AbsPolicy, Granted, Ended
<1>5. CASE Excused(p)' <=> Excused(p)
  <2>1. {q \in Proc : Excused(q)}' = {q \in Proc : Excused(q)}
    BY <1>1, <1>5
  <2> QED BY <1>3, <1>4, <2>1 DEF L!vars
<1>6. CASE Excused(p)' /\ ~Excused(p)
  <2>1. {q \in Proc : Excused(q)}' = {q \in Proc : Excused(q)} \cup {p}
    BY <1>1, <1>6
  <2>2. AbsState(p) \in {"idle", "held"}
    BY DEF Inside, AbsState, Ended
  <2>3. L!Excuse(p)
    BY <1>3, <1>4, <2>1, <2>2 DEF L!Excuse
  <2> QED BY <2>3 DEF L!Next
<1> QED BY <1>5, <1>6 DEF Inside

\* The commands before the device exists, and iptables -N: the lease stays idle.
LEMMA AcquireInside ==
  ASSUME IInv, NEW p \in Proc,
         \/ Begin(p) \/ Preflight(p) \/ List(p) \/ Classify(p)
         \/ CheckCompatibility(p) \/ OpenTun(p) \/ ConfigureTun(p) \/ NewChain(p)
  PROVE  Inside(p)
<1>1. TypeOK /\ LeaseAt(p)
  BY DEF IInv, LeaseInv
<1>2. /\ pc[p] \in Before \cup {"install"}
      /\ \/ pc'[p] \in Before \cup {"install", "restore"}
         \/ pc'[p] = "unwind" /\ p \in failed'
  <2>1. CASE Begin(p)
    BY <1>1, <2>1 DEF TypeOK, Begin, Goto, Before
  <2>2. CASE Preflight(p)
    BY <1>1, <2>2 DEF TypeOK, Preflight, Goto, Raise, Before
  <2>3. CASE List(p)
    BY <1>1, <2>3 DEF TypeOK, List, Goto, Raise, Before
  <2>4. CASE Classify(p)
    BY <1>1, <2>4 DEF TypeOK, Classify, Goto, Raise, Before
  <2>5. CASE CheckCompatibility(p)
    BY <1>1, <2>5 DEF TypeOK, CheckCompatibility, Goto, Raise, Before
  <2>6. CASE OpenTun(p)
    BY <1>1, <2>6 DEF TypeOK, OpenTun, Goto, Raise, Before
  <2>7. CASE ConfigureTun(p)
    BY <1>1, <2>7 DEF TypeOK, ConfigureTun, Goto, Raise, Before
  <2>8. CASE NewChain(p)
    BY <1>1, <2>8 DEF TypeOK, NewChain, Goto, Raise, Before
  <2> QED BY <2>1, <2>2, <2>3, <2>4, <2>5, <2>6, <2>7, <2>8
<1>3. ~Excused(p)
  BY <1>1, <1>2, Zenon DEF LeaseAt, OutcomeAt, Excused
<1> QED BY <1>2, <1>3 DEF Inside, AbsState, Before, Ended

\* The rollback, and the commands of close(): an idle lease stays idle and a held
\* one stays held.
LEMMA UndoInside ==
  ASSUME IInv, NEW p \in Proc,
         \/ RollbackFlush(p) \/ RollbackDelete(p) \/ Release(p) \/ CloseTun(p)
         \/ CloseNft(p) \/ CloseJump(p) \/ CloseFlush(p) \/ CloseChain(p)
  PROVE  Inside(p)
<1>1. TypeOK /\ LeaseAt(p)
  BY DEF IInv, LeaseInv
<1>2. /\ \/ /\ pc[p] \in {"held", "unwind"} \cup Closing
            /\ pc'[p] \in {"unwind"} \cup Closing
         \/ /\ pc[p] \in Rollback /\ p \in failed
            /\ pc'[p] \in Rollback \cup {"unwind"}
      /\ failed' = failed /\ misled' = misled
  BY <1>1, Zenon DEF TypeOK, LeaseAt, OutcomeAt, RollbackFlush, RollbackDelete, Release,
              CloseTun, CloseNft, CloseJump, CloseFlush, CloseChain, Goto,
              Rollback, Closing
<1>3. failures[p] \subseteq failures'[p]
  <2>1. CASE RollbackFlush(p) \/ CloseFlush(p)
    BY <1>1, <2>1, FlushOutcome, Zenon DEF RollbackFlush, CloseFlush, Undone
  <2>2. CASE RollbackDelete(p) \/ CloseChain(p)
    BY <1>1, <2>2, DeleteOutcome, Zenon DEF RollbackDelete, CloseChain, Undone
  <2>3. CASE Release(p) \/ CloseTun(p)
    <3>1. failures' = failures \/ failures' = [failures EXCEPT ![p] = @ \cup {"tun"}]
      BY <2>3 DEF Release, CloseTun
    <3> QED BY <1>1, <3>1 DEF TypeOK
  <2>4. CASE CloseNft(p)
    BY <1>1, <2>4, TableOutcome, Zenon DEF CloseNft, Undone
  <2>5. CASE CloseJump(p)
    BY <1>1, <2>5, JumpOutcome, Zenon DEF CloseJump, Undone
  <2> QED BY <2>1, <2>2, <2>3, <2>4, <2>5, Zenon
<1>4. Excused(p) => Excused(p)'
  BY <1>2, <1>3, Zenon DEF Excused
<1> QED BY <1>2, <1>4 DEF Inside, AbsState, Rollback, Closing, Ended

\* The end of a successful install is where the lease is granted.
LEMMA GrantStep ==
  ASSUME IInv, NEW p \in Proc, Keeps(p), pc[p] \in {"install", "restore"},
         pc'[p] = "held", p \notin failed', misled' = misled, failures' = failures
  PROVE  L!Grant(p)
<1>1. \A q \in Proc \ {p} :
        AbsState(q)' = AbsState(q) /\ (Granted(q)' <=> Granted(q))
          /\ (Excused(q)' <=> Excused(q))
  BY SameAbstract, Zenon DEF Keeps
<1>2. AbsState(p) = "idle" /\ AbsState(p)' = "held" /\ Granted(p)'
  BY Zenon DEF AbsState, Granted, Ended
<1>3. [q \in Proc |-> AbsState(q)]'
        = [[q \in Proc |-> AbsState(q)] EXCEPT ![p] = "held"]
  BY <1>1, <1>2, Zenon
<1>4. AbsPolicy' = AbsPolicy \cup {p}
  BY <1>1, <1>2, Zenon DEF AbsPolicy, Granted, Ended
<1>5. {q \in Proc : Excused(q)}' = {q \in Proc : Excused(q)}
  BY DEF Excused
<1> QED BY <1>2, <1>3, <1>4, <1>5 DEF L!Grant

\* The install commands: the lease is granted, or the failure is the supervisor's
\* excuse if the command took effect.
LEMMA InstallStep ==
  ASSUME IInv, NEW p \in Proc, InstallNft(p) \/ Restore(p)
  PROVE  [L!Next]_(L!vars)
<1>1. TypeOK /\ LeaseAt(p) /\ pc[p] \in {"install", "restore"}
  BY Zenon DEF IInv, LeaseInv, InstallNft, Restore
<1>2. Keeps(p)
  BY InstallNftKeeps, RestoreKeeps
<1>3. ~Excused(p) /\ p \notin failed
  BY <1>1 DEF LeaseAt, OutcomeAt, Excused
<1>4. \/ /\ pc'[p] = "held" /\ failed' = failed /\ misled' = misled
         /\ failures' = failures
      \/ pc'[p] \in {"unwind", "undoFlush"} /\ p \in failed'
  BY <1>1 DEF TypeOK, InstallNft, Restore, Goto, Raise
<1>5. CASE pc'[p] = "held"
  BY <1>1, <1>2, <1>3, <1>4, <1>5, GrantStep, Zenon DEF L!Next
<1>6. CASE pc'[p] # "held"
  <2>1. Inside(p)
    BY <1>1, <1>3, <1>4, <1>6 DEF Inside, AbsState, Ended
  <2> QED BY <1>2, <2>1, InsideStep
<1> QED BY <1>5, <1>6

\* The end of close(), SIGKILL and the remediation are the lease's own steps; the
\* end of an orphaned kernel does not show.
LEMMA EndStep ==
  ASSUME IInv, NEW p \in Proc,
         Finish(p) \/ Kill(p) \/ OrphanExits(p) \/ OperatorRemoves(p)
  PROVE  [L!Next]_(L!vars)
<1>1. TypeOK /\ LeaseAt(p)
  BY DEF IInv, LeaseInv
<1>2. Keeps(p)
  BY FinishKeeps, KillKeeps, OrphanExitsKeeps, OperatorRemovesKeeps
<1>3. \A q \in Proc \ {p} :
        AbsState(q)' = AbsState(q) /\ (Granted(q)' <=> Granted(q))
          /\ (Excused(q)' <=> Excused(q))
  BY <1>2, SameAbstract, Zenon DEF Keeps
<1>4. CASE Finish(p)
  <2>1. /\ pc[p] = "unwind" /\ pc'[p] = "done" /\ objects'[p] = objects[p]
        /\ objects[p] = {} \/ Excused(p)
        /\ failures' = failures /\ misled' = misled
    BY <1>1, <1>4, JournalSteps, Zenon DEF TypeOK, Finish, Goto, LeaseAt, ObjectsAt
  <2>2. AbsState(p) \in {"idle", "held"} /\ AbsState(p)' = "done"
        /\ (Granted(p)' <=> objects[p] # {})
    BY <2>1, Zenon DEF AbsState, Granted, Ended
  <2>3. [q \in Proc |-> AbsState(q)]'
          = [[q \in Proc |-> AbsState(q)] EXCEPT ![p] = "done"]
    BY <1>3, <2>2, Zenon
  <2>4. \/ AbsPolicy' = AbsPolicy \ {p}
        \/ Excused(p) /\ AbsPolicy' = AbsPolicy \cup {p}
    BY <1>3, <2>1, <2>2, Zenon DEF AbsPolicy, Granted, Ended
  <2>5. {q \in Proc : Excused(q)}' = {q \in Proc : Excused(q)}
    BY <2>1, Zenon DEF Excused
  <2>6. L!Finish(p)
    BY <2>2, <2>3, <2>4, <2>5, Zenon DEF L!Finish
  <2> QED BY <2>6 DEF L!Next
<1>5. CASE Kill(p)
  <2>1. /\ pc[p] \notin Ended /\ pc'[p] = "dead" /\ objects'[p] = objects[p]
        /\ failures'[p] = {} /\ p \notin misled'
    BY <1>1, <1>5 DEF TypeOK, Kill, Goto, Alive, Ended
  <2>2. AbsState(p) \in {"idle", "held"} /\ AbsState(p)' = "dead" /\ ~Excused(p)'
    BY <2>1, Zenon DEF AbsState, Excused, Ended
  <2>3. [q \in Proc |-> AbsState(q)]'
          = [[q \in Proc |-> AbsState(q)] EXCEPT ![p] = "dead"]
    BY <1>3, <2>2, Zenon
  <2>4. AbsPolicy' = AbsPolicy \ {p} \/ AbsPolicy' = AbsPolicy \cup {p}
    BY <1>3, Zenon DEF AbsPolicy, Granted, Ended
  <2>5. {q \in Proc : Excused(q)}' = {q \in Proc : Excused(q)} \ {p}
    BY <1>3, <2>2
  <2>6. L!Kill(p)
    BY <2>2, <2>3, <2>4, <2>5 DEF L!Kill
  <2> QED BY <2>6 DEF L!Next
<1>6. CASE OrphanExits(p)
  <2>2. UNCHANGED <<pc, objects, failures, failed, misled>>
    BY <1>6 DEF OrphanExits
  <2>3. \A q \in Proc : AbsState(q)' = AbsState(q) /\ (Excused(q)' <=> Excused(q))
    BY <2>2 DEF AbsState, Excused
  <2>4. AbsPolicy' = AbsPolicy
    BY <2>2, <2>3 DEF AbsPolicy
  <2> QED BY <2>3, <2>4 DEF L!vars
<1>7. CASE OperatorRemoves(p)
  <2>1. /\ pc[p] \in Ended /\ pc' = pc /\ failed' = failed
        /\ failures' = failures /\ misled' = misled /\ objects'[p] = {}
    BY <1>1, <1>7 DEF TypeOK, OperatorRemoves, Ended
  <2>2. \A q \in Proc : AbsState(q)' = AbsState(q) /\ (Excused(q)' <=> Excused(q))
    BY <2>1 DEF AbsState, Excused
  <2>3. ~Granted(p)' /\ AbsState(p) \in {"done", "dead"}
    BY <2>1 DEF Granted, AbsState, Ended
  <2>4. AbsPolicy' = AbsPolicy \ {p}
    BY <1>3, <2>3, Zenon DEF AbsPolicy, Granted, Ended
  <2>5. /\ [q \in Proc |-> AbsState(q)]' = [q \in Proc |-> AbsState(q)]
        /\ {q \in Proc : Excused(q)}' = {q \in Proc : Excused(q)}
    BY <2>2
  <2>6. L!Remove(p)
    BY <2>3, <2>4, <2>5 DEF L!Remove
  <2> QED BY <2>6 DEF L!Next
<1> QED BY <1>4, <1>5, <1>6, <1>7

\* acquire_host_network and HostNetworkLease.close implement the lease: the whole
\* ingress path at once or none of it, all of it given back unless a command
\* failed during the undo or took effect and reported a failure, nothing of
\* another supervisor touched, whatever fails and whoever is killed in between.
THEOREM ImplementsLease == Spec => LeaseImplemented
<1>1. ASSUME Init PROVE L!Init
  <2>1. \A p \in Proc : AbsState(p) = "idle" /\ ~Excused(p)
    BY <1>1 DEF Init, AbsState, Excused
  <2>2. AbsPolicy = {}
    BY <1>1, <2>1 DEF Init, AbsPolicy
  <2> QED BY <2>1, <2>2 DEF L!Init
<1>2. ASSUME IInv, [Next]_vars PROVE [L!Next]_(L!vars)
  <2>1. CASE Next
    <3>1. PICK p \in Proc : Acquire(p) \/ Close(p) \/ Host(p)
      BY <2>1 DEF Next
    <3>2. Keeps(p)
      BY <1>2, <3>1, StepKeeps
    <3>3. CASE InstallNft(p) \/ Restore(p)
      BY <1>2, <3>3, InstallStep
    <3>4. CASE Finish(p) \/ Kill(p) \/ OrphanExits(p) \/ OperatorRemoves(p)
      BY <1>2, <3>4, EndStep
    <3>5. Inside(p) \/ InstallNft(p) \/ Restore(p) \/ Finish(p) \/ Kill(p)
            \/ OrphanExits(p) \/ OperatorRemoves(p)
      BY <1>2, <3>1, AcquireInside, UndoInside DEF Acquire, Close, Host
    <3> QED BY <1>2, <3>2, <3>3, <3>4, <3>5, InsideStep
  <2>2. CASE UNCHANGED vars
    <3>1. \A q \in Proc : AbsState(q)' = AbsState(q) /\ (Excused(q)' <=> Excused(q))
      BY <2>2 DEF vars, AbsState, Excused
    <3>2. AbsPolicy' = AbsPolicy
      BY <2>2, <3>1 DEF vars, AbsPolicy
    <3> QED BY <3>1, <3>2 DEF L!vars
  <2> QED BY <1>2, <2>1, <2>2
<1> QED BY <1>1, <1>2, Invariance, PTL DEF Spec, LeaseImplemented, L!Spec

==============================================================================
