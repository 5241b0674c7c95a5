----------------------------- MODULE CircuitMap -----------------------------
(***************************************************************************)
(* The switch's circuit map, htlcswitch/circuit_map.go, for the circuits   *)
(* that leave through one outgoing channel.  A circuit is named by its     *)
(* incoming key; its keystone binds it to an HTLC id of the outgoing       *)
(* channel.  Every operation that touches both the in-memory indexes and   *)
(* the database takes one step for each, as the lock is released between   *)
(* the two; a restart of the process can come between them.                *)
(*                                                                         *)
(* The clients of the map are the links and the switch.  HtlcForwarding    *)
(* calls these operations the way they do; the Next of this module is a    *)
(* client that is only held to the rules named under Client rules.         *)
(***************************************************************************)
EXTENDS Integers, FiniteSets

CONSTANTS
    InKey,      \* incoming circuit keys, each with a payment hash of its own
    MaxOut,     \* bound: the outgoing channel has HTLC ids 0..MaxOut
    NoKey

OutId == 0..MaxOut

NoOut == -1

ASSUME CircuitMapAssumption ==
    /\ MaxOut \in Nat
    /\ NoKey \notin InKey

VARIABLES
    pending,      \* pending[k]: "none", "mem" or "disk" (LoadedFromDisk)
    outgoing,     \* outgoing[k]: the Outgoing field of circuit k, or NoOut
    opened,       \* opened[o]: the circuit indexed by outgoing id o, or NoKey
    closed,       \* circuits marked as closing
    hashIndex,    \* pairs of a payment hash and an outgoing id
    circuitBkt,   \* disk: the circuits in the circuit bucket
    keystoneBkt,  \* disk: keystoneBkt[o], the keystone stored for id o
    commits,      \* CommitCircuits calls that have yet to write: circuits
    opens,        \* OpenCircuits call that has written: its keystones by id
    deletes,      \* DeleteCircuits calls that have yet to write: what they removed
    trims,        \* TrimOpenCircuits call that has yet to write: outgoing ids
    nextId        \* the channel's NextLocalHtlcIndex: ids below it are signed for

memory == <<pending, outgoing, opened, closed, hashIndex>>
disk   == <<circuitBkt, keystoneBkt>>
calls  == <<commits, opens, deletes, trims>>
vars   == <<pending, outgoing, opened, closed, hashIndex, circuitBkt, keystoneBkt,
            commits, opens, deletes, trims, nextId>>

NoKeystones == [o \in OutId |-> NoKey]

NoCircuits == [k \in InKey |-> NoOut]

Init ==
    /\ pending = [k \in InKey |-> "none"]
    /\ outgoing = NoCircuits
    /\ opened = NoKeystones
    /\ closed = {}
    /\ hashIndex = {}
    /\ circuitBkt = {}
    /\ keystoneBkt = NoKeystones
    /\ commits = {}
    /\ opens = NoKeystones
    /\ deletes = {}
    /\ trims = {}
    /\ nextId = 0

-----------------------------------------------------------------------------
(* The operations.                                                         *)

\* Mutant: a circuit that is known is dropped, restart or not.
CommitActionDropsAll(k) == IF pending[k] = "none" THEN "add" ELSE "drop"

\* Mutant: a circuit that is already on its way is failed back.
CommitActionNoKeystone(k) ==
    CASE pending[k] = "none" -> "add"
      [] pending[k] = "mem" -> "drop"
      [] OTHER -> "fail"

\* What CommitCircuits does with a circuit.
CommitAction(k) ==
    CASE pending[k] = "none" -> "add"
      [] pending[k] # "none" /\ outgoing[k] # NoOut -> "drop"
      [] pending[k] = "mem" /\ outgoing[k] = NoOut -> "drop"
      [] pending[k] = "disk" /\ outgoing[k] = NoOut -> "fail"

\* CommitCircuits, under the lock.
CommitMemory(k) ==
    /\ CommitAction(k) = "add"
    /\ pending' = [pending EXCEPT ![k] = "mem"]
    /\ outgoing' = [outgoing EXCEPT ![k] = NoOut]
    /\ commits' = commits \cup {k}
    /\ UNCHANGED <<opened, closed, hashIndex, disk, opens, deletes, trims, nextId>>

\* CommitCircuits writes the circuit.
CommitDisk(k) ==
    /\ k \in commits
    /\ circuitBkt' = circuitBkt \cup {k}
    /\ commits' = commits \ {k}
    /\ UNCHANGED <<memory, keystoneBkt, opens, deletes, trims, nextId>>

\* Mutant: a circuit whose write failed stays pending.
CommitFailsKeeps(k) ==
    /\ k \in commits
    /\ commits' = commits \ {k}
    /\ UNCHANGED <<memory, disk, opens, deletes, trims, nextId>>

\* The write failed: the circuit is taken back.
CommitFails(k) ==
    /\ k \in commits
    /\ pending' = [pending EXCEPT ![k] = "none"]
    /\ outgoing' = [outgoing EXCEPT ![k] = NoOut]
    /\ commits' = commits \ {k}
    /\ UNCHANGED <<opened, closed, hashIndex, disk, opens, deletes, trims, nextId>>

\* OpenCircuits refuses an outgoing id that is taken and an unknown circuit.
OpenAccepted(ks) ==
    \A o \in OutId : ks[o] # NoKey => opened[o] = NoKey /\ pending[ks[o]] # "none"

Written(ks) == [o \in OutId |-> IF ks[o] # NoKey THEN ks[o] ELSE keystoneBkt[o]]

\* OpenCircuits writes the keystones.
OpenDisk(ks) ==
    /\ OpenAccepted(ks)
    /\ keystoneBkt' = Written(ks)
    /\ opens' = ks
    /\ UNCHANGED <<memory, circuitBkt, commits, deletes, trims, nextId>>

Bound(k, ks) == \E o \in OutId : ks[o] = k

\* Mutant: an opened circuit is not indexed by its hash.
OpenMemoryUnhashed ==
    /\ opens # NoKeystones
    /\ outgoing' = [k \in InKey |-> IF Bound(k, opens)
                                    THEN CHOOSE o \in OutId : opens[o] = k
                                    ELSE outgoing[k]]
    /\ opened' = [o \in OutId |-> IF opens[o] # NoKey THEN opens[o] ELSE opened[o]]
    /\ opens' = NoKeystones
    /\ UNCHANGED <<pending, closed, hashIndex, disk, commits, deletes, trims, nextId>>

\* OpenCircuits then enters them into the indexes.
OpenMemory ==
    /\ opens # NoKeystones
    /\ outgoing' = [k \in InKey |-> IF Bound(k, opens)
                                    THEN CHOOSE o \in OutId : opens[o] = k
                                    ELSE outgoing[k]]
    /\ opened' = [o \in OutId |-> IF opens[o] # NoKey THEN opens[o] ELSE opened[o]]
    /\ hashIndex' = hashIndex \cup
                       {<<opens[o], o>> : o \in {x \in OutId : opens[x] # NoKey}}
    /\ opens' = NoKeystones
    /\ UNCHANGED <<pending, closed, disk, commits, deletes, trims, nextId>>

\* FailCircuit: nil, ErrUnknownCircuit or ErrCircuitClosing.
FailResult(k) ==
    CASE pending[k] = "none" -> "unknown"
      [] pending[k] # "none" /\ k \in closed -> "closing"
      [] pending[k] # "none" /\ k \notin closed -> "ok"

\* CloseCircuit, by outgoing id.
CloseResult(o) ==
    CASE opened[o] = NoKey -> "unknown"
      [] opened[o] # NoKey /\ opened[o] \in closed -> "closing"
      [] opened[o] # NoKey /\ opened[o] \notin closed -> "ok"

\* Either of them succeeds for circuit k.
MarkClosed(k) ==
    /\ closed' = closed \cup {k}
    /\ UNCHANGED <<pending, outgoing, opened, hashIndex, disk, calls, nextId>>

Known(K) == {k \in K : pending[k] # "none"}

RemovedCircuit(k) ==
    [key |-> k, out |-> outgoing[k], was |-> pending[k], closing |-> k \in closed]

\* DeleteCircuits, under the lock: the circuits leave every index.
DeleteMemory(K) ==
    /\ pending' = [k \in InKey |-> IF k \in K THEN "none" ELSE pending[k]]
    /\ outgoing' = [k \in InKey |-> IF k \in K THEN NoOut ELSE outgoing[k]]
    /\ closed' = closed \ Known(K)
    /\ opened' = [o \in OutId |-> IF \E k \in Known(K) : outgoing[k] = o
                                  THEN NoKey ELSE opened[o]]
    /\ hashIndex' = hashIndex \ {<<k, outgoing[k]>> : k \in Known(K)}
    /\ deletes' = deletes \cup {RemovedCircuit(k) : k \in Known(K)}
    /\ UNCHANGED <<disk, commits, opens, trims, nextId>>

\* Mutant: only the circuits are deleted.
DeleteDiskKeepsKeystones(K) ==
    LET done == {r \in deletes : r.key \in K}
    IN  /\ circuitBkt' = circuitBkt \ {r.key : r \in done}
        /\ deletes' = deletes \ done
        /\ UNCHANGED <<memory, keystoneBkt, commits, opens, trims, nextId>>

\* DeleteCircuits deletes circuits and keystones in one transaction.
DeleteDisk(K) ==
    LET done == {r \in deletes : r.key \in K}
        outs == {r.out : r \in done}
    IN  /\ circuitBkt' = circuitBkt \ {r.key : r \in done}
        /\ keystoneBkt' = [o \in OutId |-> IF o \in outs THEN NoKey ELSE keystoneBkt[o]]
        /\ deletes' = deletes \ done
        /\ UNCHANGED <<memory, commits, opens, trims, nextId>>

\* The transaction failed: the circuit is put back as it was.
DeleteFails(r) ==
    /\ r \in deletes
    /\ pending' = [pending EXCEPT ![r.key] = r.was]
    /\ outgoing' = [outgoing EXCEPT ![r.key] = r.out]
    /\ closed' = IF r.closing THEN closed \cup {r.key} ELSE closed
    /\ opened' = [o \in OutId |-> IF o = r.out THEN r.key ELSE opened[o]]
    /\ hashIndex' = IF r.out = NoOut THEN hashIndex
                    ELSE hashIndex \cup {<<r.key, r.out>>}
    /\ deletes' = deletes \ {r}
    /\ UNCHANGED <<disk, commits, opens, trims, nextId>>

\* Mutant: the scan trims one keystone.
TrimmedFirst(index, start) == {o \in OutId : o = start /\ index[o] # NoKey}

\* The ids TrimOpenCircuits finds: from start on, up to the first that is free.
Trimmed(index, start) ==
    {o \in OutId : o >= start /\ \A i \in start..o : index[i] # NoKey}

Cut(index, outs) == [o \in OutId |-> IF o \in outs THEN NoKey ELSE index[o]]

\* The circuits whose Outgoing field the trim of outs resets.
Unbound(fields, index, outs) ==
    [k \in InKey |-> IF \E o \in outs : index[o] = k THEN NoOut ELSE fields[k]]

\* TrimOpenCircuits, under the lock.  The Outgoing field is reset before the
\* hash index is asked to forget the circuit, which therefore finds no key.
TrimMemory(start) ==
    LET outs == Trimmed(opened, start)
    IN  /\ opened' = Cut(opened, outs)
        /\ outgoing' = Unbound(outgoing, opened, outs)
        /\ trims' = outs
        /\ UNCHANGED <<pending, closed, hashIndex, disk, commits, opens, deletes, nextId>>

\* TrimOpenCircuits deletes the keystones it trimmed.
TrimDisk ==
    /\ keystoneBkt' = Cut(keystoneBkt, trims)
    /\ trims' = {}
    /\ UNCHANGED <<memory, circuitBkt, commits, opens, deletes, nextId>>

\* restoreMemState: the keystones of known circuits, a later id taking over the
\* Outgoing field from an earlier one.
RestoredOpened ==
    [o \in OutId |-> IF keystoneBkt[o] \in circuitBkt THEN keystoneBkt[o] ELSE NoKey]

RestoredOutgoing ==
    [k \in InKey |->
        IF Bound(k, RestoredOpened)
        THEN CHOOSE o \in OutId : /\ RestoredOpened[o] = k
                                  /\ \A i \in OutId : RestoredOpened[i] = k => i <= o
        ELSE NoOut]

\* Mutant: the trim ignores which HTLCs were signed for.
NewCircuitMapTrimsAll ==
    LET outs == Trimmed(RestoredOpened, 0)
    IN  /\ pending' = [k \in InKey |-> IF k \in circuitBkt THEN "disk" ELSE "none"]
        /\ opened' = Cut(RestoredOpened, outs)
        /\ outgoing' = Unbound(RestoredOutgoing, RestoredOpened, outs)
        /\ closed' = {}
        /\ hashIndex' = {<<RestoredOpened[o], o>> :
                            o \in {x \in OutId : RestoredOpened[x] # NoKey}}
        /\ keystoneBkt' = Cut(keystoneBkt, outs)
        /\ commits' = {} /\ opens' = NoKeystones /\ deletes' = {} /\ trims' = {}
        /\ UNCHANGED <<circuitBkt, nextId>>

\* NewCircuitMap after the process died: memory is rebuilt from the buckets,
\* and the channel's unsigned keystones are trimmed.
NewCircuitMap ==
    LET outs == Trimmed(RestoredOpened, nextId)
    IN  /\ pending' = [k \in InKey |-> IF k \in circuitBkt THEN "disk" ELSE "none"]
        /\ opened' = Cut(RestoredOpened, outs)
        /\ outgoing' = Unbound(RestoredOutgoing, RestoredOpened, outs)
        /\ closed' = {}
        /\ hashIndex' = {<<RestoredOpened[o], o>> :
                            o \in {x \in OutId : RestoredOpened[x] # NoKey}}
        /\ keystoneBkt' = Cut(keystoneBkt, outs)
        /\ commits' = {} /\ opens' = NoKeystones /\ deletes' = {} /\ trims' = {}
        /\ UNCHANGED <<circuitBkt, nextId>>

\* LookupByPaymentHash: the circuits indexed under a hash.
LookupByPaymentHash(hash) ==
    {opened[o] : o \in {x \in OutId : <<hash, x>> \in hashIndex /\ opened[x] # NoKey}}

-----------------------------------------------------------------------------
(* Client rules: what the links and the switch keep to.                    *)

\* The HTLC ids a batch of keystones is for.
Ids(ks) == {o \in OutId : ks[o] # NoKey}

\* The outgoing link opens circuits that have no keystone yet, each once, under
\* the next ids of its channel, after its trim and one call at a time; no one is
\* still deleting a keystone with one of those ids.
MayOpen(ks) ==
    /\ ks # NoKeystones /\ opens = NoKeystones /\ trims = {}
    /\ \A o \in Ids(ks) :
          /\ o >= nextId
          /\ \A i \in nextId..o : opened[i] # NoKey \/ i \in Ids(ks)
          /\ outgoing[ks[o]] = NoOut /\ ks[o] \notin commits
          /\ \A i \in Ids(ks) : ks[i] = ks[o] => i = o
          /\ \A r \in deletes : r.out # o

\* A circuit is deleted once it was answered: it is committed, it is not being
\* opened or trimmed, and a keystone it may have has been signed for.
MayDelete(K) ==
    \A k \in K :
        /\ k \notin commits
        /\ ~Bound(k, opens)
        /\ \A o \in trims : keystoneBkt[o] # k
        /\ outgoing[k] = NoOut \/ outgoing[k] < nextId

\* The incoming link does not commit a circuit it is still deleting.
MayCommit(k) == \A r \in deletes : r.key # k

\* The outgoing link signs for HTLCs whose keystones are open.
MaySign(n) ==
    /\ n \in (nextId + 1)..(MaxOut + 1)
    /\ opens = NoKeystones /\ trims = {}
    /\ \A o \in nextId..(n - 1) : opened[o] # NoKey

Sign(n) ==
    /\ MaySign(n)
    /\ nextId' = n
    /\ UNCHANGED <<memory, disk, calls>>

Next ==
    \/ \E k \in InKey : MayCommit(k) /\ CommitMemory(k)
    \/ \E k \in InKey : CommitDisk(k)
    \/ \E k \in InKey : CommitFails(k)
    \/ \E ks \in [OutId -> InKey \cup {NoKey}] : MayOpen(ks) /\ OpenDisk(ks)
    \/ OpenMemory
    \/ \E n \in 1..(MaxOut + 1) : Sign(n)
    \/ \E k \in InKey : FailResult(k) = "ok" /\ MarkClosed(k)
    \/ \E o \in OutId : CloseResult(o) = "ok" /\ MarkClosed(opened[o])
    \/ \E K \in SUBSET InKey : MayDelete(K) /\ DeleteMemory(K)
    \/ \E K \in SUBSET InKey : DeleteDisk(K)
    \/ \E r \in deletes : DeleteFails(r)
    \/ opens = NoKeystones /\ trims = {} /\ TrimMemory(nextId)
    \/ trims # {} /\ TrimDisk
    \/ NewCircuitMap

Spec == Init /\ [][Next]_vars

-----------------------------------------------------------------------------
(* Properties.                                                             *)

Removed == [key : InKey, out : OutId \cup {NoOut}, was : {"mem", "disk"},
            closing : BOOLEAN]

\* Type invariant.
TypeOK ==
    /\ pending \in [InKey -> {"none", "mem", "disk"}]
    /\ outgoing \in [InKey -> OutId \cup {NoOut}]
    /\ opened \in [OutId -> InKey \cup {NoKey}]
    /\ closed \in SUBSET InKey
    /\ hashIndex \in SUBSET (InKey \X OutId)
    /\ circuitBkt \in SUBSET InKey
    /\ keystoneBkt \in [OutId -> InKey \cup {NoKey}]
    /\ commits \in SUBSET InKey
    /\ opens \in [OutId -> InKey \cup {NoKey}]
    /\ deletes \in SUBSET Removed
    /\ trims \in SUBSET OutId
    /\ nextId \in 0..(MaxOut + 1)

\* The two in-memory indexes are inverse to each other: a circuit is found under
\* an outgoing id (CloseCircuit) exactly when it is pending with that id as its
\* keystone (CommitCircuits, DeleteCircuits).
IndexesAgree ==
    /\ \A o \in OutId : opened[o] # NoKey =>
          pending[opened[o]] # "none" /\ outgoing[opened[o]] = o
    /\ \A k \in InKey : outgoing[k] # NoOut => opened[outgoing[k]] = k

\* Whatever a caller has been told is in the database: a circuit that is not
\* being committed, and every keystone that is open.
MemoryIsDurable ==
    /\ \A k \in InKey : pending[k] # "none" /\ k \notin commits => k \in circuitBkt
    /\ \A o \in OutId : opened[o] # NoKey => keystoneBkt[o] = opened[o]

\* No keystone is stored without its circuit, at any point of a crash, so that
\* restoreMemState never meets a stray keystone of a forward.
NoStrayKeystone ==
    \A o \in OutId : keystoneBkt[o] # NoKey => keystoneBkt[o] \in circuitBkt

\* A circuit has at most one keystone in the database: restoreMemState would
\* otherwise bind it to the highest, which need not be the HTLC that was signed.
OneKeystonePerCircuit ==
    \A o, i \in OutId :
        keystoneBkt[o] = keystoneBkt[i] /\ keystoneBkt[o] # NoKey => o = i

\* The keystones not signed for form one segment, which is why TrimOpenCircuits
\* may stop at the first id that is not open.
NoDisjointSegments ==
    \A o \in OutId : o >= nextId /\ opened[o] # NoKey =>
        \A i \in nextId..o : opened[i] # NoKey

\* A restart forgets no HTLC that is on a signed commitment.
RestartKeepsSigned ==
    [][NewCircuitMap =>
          \A o \in OutId : o < nextId /\ opened[o] # NoKey =>
              /\ opened'[o] = opened[o]
              /\ outgoing'[opened[o]] = o]_vars

\* LookupByPaymentHash misses no open circuit with the hash.
LookupIsComplete ==
    \A o \in OutId : opened[o] # NoKey => opened[o] \in LookupByPaymentHash(opened[o])

\* What the calls in progress have done and have yet to do.
CallsFit ==
    /\ \A k \in commits : pending[k] # "none" /\ outgoing[k] = NoOut
    /\ \A o \in Ids(opens) :
          /\ o >= nextId /\ opened[o] = NoKey /\ keystoneBkt[o] = opens[o]
          /\ pending[opens[o]] # "none" /\ outgoing[opens[o]] = NoOut
          /\ opens[o] \notin commits
          /\ \A i \in Ids(opens) : opens[i] = opens[o] => i = o
          /\ \A i \in nextId..o : opened[i] # NoKey \/ i \in Ids(opens)
    /\ trims # {} => opens = NoKeystones
    /\ \A o \in trims : /\ o >= nextId /\ opened[o] = NoKey /\ keystoneBkt[o] # NoKey
                        /\ \A i \in nextId..o : i \in trims
    /\ \A r \in deletes :
          /\ pending[r.key] = "none" /\ outgoing[r.key] = NoOut
          /\ r.key \in circuitBkt
          /\ r.out # NoOut => /\ keystoneBkt[r.out] = r.key /\ opened[r.out] = NoKey
                              /\ r.out < nextId
          /\ \A s \in deletes : s.key = r.key => s = r

\* A keystone in the database is open, or a call is about to open or remove it.
KeystonesAccounted ==
    \A o \in OutId : keystoneBkt[o] # NoKey =>
        \/ opened[o] = keystoneBkt[o]
        \/ opens[o] = keystoneBkt[o]
        \/ o \in trims /\ pending[keystoneBkt[o]] # "none" /\ keystoneBkt[o] \notin commits
        \/ \E r \in deletes : r.out = o /\ r.key = keystoneBkt[o]

\* The inductive invariant of the safety proof: besides the properties above, every
\* call that released the lock still finds what it left, and no keystone in the
\* database is without an owner.
IInv ==
    /\ TypeOK /\ IndexesAgree /\ MemoryIsDurable /\ NoStrayKeystone
    /\ OneKeystonePerCircuit /\ NoDisjointSegments /\ CallsFit /\ KeystonesAccounted

\* An open circuit is in the hash index, under its own id.
OpenIsHashed ==
    \A o \in OutId : opened[o] # NoKey => <<opened[o], o>> \in hashIndex
=============================================================================
