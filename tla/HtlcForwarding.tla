--------------------------- MODULE HtlcForwarding ---------------------------
(***************************************************************************)
(* The forwarding of HTLCs from one channel to another: the two links of   *)
(* htlcswitch/link.go, the switch (switch.go), the mailboxes of the links  *)
(* (mailbox.go) and the circuit map they share.                            *)
(*                                                                         *)
(* Each actor is a goroutine and takes a step for each call it makes on    *)
(* state that another one can touch: the incoming link, the outgoing link, *)
(* the switch's htlcForwarder, the mailbox couriers and the goroutines     *)
(* that hand responses to the switch.  A link may be stopped and started   *)
(* again on its own; a crash takes all of memory and leaves the circuit    *)
(* buckets and the two channels.                                           *)
(*                                                                         *)
(* Every HTLC of the incoming channel is locked in by a revocation of its  *)
(* own, so that a forwarding package holds one add.  The package records   *)
(* the add as acked in the transaction that signs its removal: the adds    *)
(* that are not acked are the ones whose HTLC is still "locked".           *)
(***************************************************************************)
EXTENDS Integers, Sequences

CONSTANTS
    InKey,          \* HTLCs of the incoming channel, named by circuit key
    MaxOut,         \* bound: the outgoing channel has HTLC ids 0..MaxOut
    NoKey,
    MaxStopsIn,     \* bound: how often the incoming link stops
    MaxStopsOut,    \* bound: how often the outgoing link stops
    MaxCrashes,     \* bound: how often the process dies
    MaxFaults,      \* bound: how many writes of the circuit map fail
    Expires,        \* the delivery deadline of an add may pass
    ExpiresOpen,    \* it may pass for an add with a keystone in the database, too
    WindowCloses    \* the outgoing channel may be out of revocations

ASSUME HtlcForwardingAssumption ==
    /\ MaxOut \in Nat
    /\ NoKey \notin InKey

VARIABLES
    (* the circuit map, and the id of the next outgoing HTLC *)
    pending, outgoing, opened, closed, hashIndex, circuitBkt, keystoneBkt,
    commits, opens, deletes, trims, nextId,
    (* the incoming channel and its link *)
    incoming,   \* disk: "new", "locked", "settle" or "fail" (removal signed)
    compacted,  \* disk: removed HTLCs that have left the update log
    sigIn,      \* disk: "none", or the commitment not yet revoked is "signed" or
                \* has been "sent"
    diffIn,     \* disk: its ClosedCircuitKeys
    linkIn,     \* "down", "up" or "stopping"
    atIn,       \* where the incoming link is, and the circuits it is there for
    answers,    \* answers[k]: the removal of k that is yet to be signed
    unresolved, \* adds of forwarding packages resolveFwdPkgs is yet to forward
    mailIn,     \* the incoming link's mailbox, by circuit key
    (* the switch *)
    responses,  \* goroutines that offer a settle or fail to htlcPlex
    failures,   \* FailAdd calls that offer a failure to htlcPlex
    ackBatch,   \* pendingSettleFails
    (* the outgoing channel and its link *)
    outKey,     \* disk: outKey[o], the circuit whose HTLC has id o, or NoKey
    outHtlc,    \* disk: what became of it
    outAcked,   \* disk: SettleFailFilter, by outgoing id
    linkOut,    \* "down", "trimming", "up" or "stopping"
    atOut,      \* "idle", "opening" or "signing"
    mailOut,    \* adds in the outgoing link's mailbox
    delivered,  \* how many of them the link has been handed
    added,      \* adds in the channel's log that are yet to be signed
    keystones,  \* how many of them have had their keystone opened
    faults      \* how often each kind of fault has happened

CM == INSTANCE CircuitMap

circuits == <<pending, outgoing, opened, closed, hashIndex, circuitBkt, keystoneBkt,
              commits, opens, deletes, trims>>
mapVars == <<circuits, nextId>>
chanIn  == <<incoming, compacted, sigIn, diffIn>>
memIn   == <<linkIn, atIn, answers, unresolved>>
switch  == <<responses, failures, ackBatch>>
chanOut == <<outKey, outHtlc, outAcked>>
memOut  == <<linkOut, atOut, delivered, added, keystones>>
vars    == <<mapVars, chanIn, memIn, mailIn, switch, chanOut, memOut, mailOut, faults>>

OutId == CM!OutId

None == [type |-> "none", ref |-> CM!NoOut, sent |-> FALSE]

\* A settle or fail for an incoming link; ref is its destRef, or NoOut.
Answer(type, ref) == [type |-> type, ref |-> ref, sent |-> FALSE]

Idle == [at |-> "idle", for |-> {}]

NoAnswers == [k \in InKey |-> None]

NoFaults == [stopIn |-> 0, stopOut |-> 0, crash |-> 0, write |-> 0]

Init ==
    /\ CM!Init
    /\ incoming = [k \in InKey |-> "new"] /\ compacted = {}
    /\ sigIn = "none" /\ diffIn = {}
    /\ linkIn = "up" /\ atIn = Idle /\ answers = NoAnswers /\ unresolved = {}
    /\ mailIn = NoAnswers
    /\ responses = {} /\ failures = {} /\ ackBatch = {}
    /\ outKey = [o \in OutId |-> NoKey]
    /\ outHtlc = [o \in OutId |-> "none"]
    /\ outAcked = {}
    /\ linkOut = "up" /\ atOut = "idle" /\ mailOut = <<>> /\ delivered = 0
    /\ added = <<>> /\ keystones = 0
    /\ faults = NoFaults

Fault(kind, max) ==
    /\ faults[kind] < max
    /\ faults' = [faults EXCEPT ![kind] = @ + 1]

-----------------------------------------------------------------------------
(* The mailboxes.                                                          *)

\* AddPacket of a settle or fail; a second one for the circuit is refused.
Deliver(k, answer) ==
    mailIn' = IF mailIn[k] = None THEN [mailIn EXCEPT ![k] = answer] ELSE mailIn

\* AckPacket, for the responses of circuits K.
AckPackets(K) == [k \in InKey |-> IF k \in K THEN None ELSE mailIn[k]]

\* ResetPackets: every packet is delivered again.
Resent(mail) == [k \in InKey |-> [mail[k] EXCEPT !.sent = FALSE]]

\* The add of circuit k is in the mailbox: addIndex has it.
Queued(k) == \E i \in 1..Len(mailOut) : mailOut[i] = k

\* AddPacket of an add.
AddPacket(k) == mailOut' = IF Queued(k) THEN mailOut ELSE Append(mailOut, k)

\* FailAdd, of the i-th add: it leaves the mailbox, and its failure is sent to the
\* switch.
FailAdd(i) ==
    /\ mailOut' = SubSeq(mailOut, 1, i - 1) \o SubSeq(mailOut, i + 1, Len(mailOut))
    /\ failures' = failures \cup {mailOut[i]}

-----------------------------------------------------------------------------
(* The incoming link, up to the hand-over to the switch.                   *)

\* The link runs its main loop: every package was resolved, no call is under way.
ReadyIn == linkIn = "up" /\ atIn = Idle /\ unresolved = {}

\* updateCommitTx, for adds of the peer: no circuit is closed by it.
SignAdds ==
    /\ ReadyIn
    /\ sigIn = "none" /\ answers = NoAnswers
    /\ \E k \in InKey : incoming[k] = "new"
    /\ sigIn' = "sent" /\ diffIn' = {}
    /\ UNCHANGED <<mapVars, incoming, compacted, memIn, mailIn, switch, chanOut, memOut,
                   mailOut, faults>>

\* The peer revokes for a commitment that has the HTLC, which is thereby locked
\* in; processRemoteAdds forwards it.
LockIn(k) ==
    /\ ReadyIn
    /\ sigIn = "sent"
    /\ incoming[k] = "new"
    /\ incoming' = [incoming EXCEPT ![k] = "locked"]
    /\ sigIn' = "none" /\ diffIn' = {}
    /\ atIn' = [at |-> "check", for |-> {k}]
    /\ UNCHANGED <<mapVars, compacted, linkIn, answers, unresolved, mailIn, switch,
                   chanOut, memOut, mailOut, faults>>

\* resolveFwdPkg: an add that has not been acked is forwarded again.
ResolveFwdPkg(k) ==
    /\ linkIn = "up" /\ atIn = Idle
    /\ k \in unresolved
    /\ unresolved' = unresolved \ {k}
    /\ atIn' = [at |-> "check", for |-> {k}]
    /\ UNCHANGED <<mapVars, chanIn, linkIn, answers, mailIn, switch, chanOut, memOut,
                   mailOut, faults>>

\* forwardBatch skips an add whose response is in the mailbox.
HasPacket(k) ==
    /\ atIn = [at |-> "check", for |-> {k}]
    /\ atIn' = IF mailIn[k] # None THEN Idle ELSE [atIn EXCEPT !.at = "commit"]
    /\ UNCHANGED <<mapVars, chanIn, linkIn, answers, unresolved, mailIn, switch,
                   chanOut, memOut, mailOut, faults>>

\* The incoming link goes on to a stage of a call, or is done with it.
GoIn(stage) == atIn' = IF stage = "idle" THEN Idle ELSE [atIn EXCEPT !.at = stage]

\* ForwardPackets hands the add to CommitCircuits, which adds the circuit, drops
\* the add or fails it; a link that is being stopped returns early.
CommitCircuits(k) ==
    /\ atIn = [at |-> "commit", for |-> {k}]
    /\ \/ /\ linkIn = "stopping"
          /\ GoIn("idle") /\ UNCHANGED <<mapVars, mailIn>>
       \/ /\ linkIn = "up" /\ CM!CommitAction(k) = "add"
          /\ CM!CommitMemory(k)
          /\ GoIn("write") /\ UNCHANGED mailIn
       \/ /\ linkIn = "up" /\ CM!CommitAction(k) = "drop"
          /\ GoIn("idle") /\ UNCHANGED <<mapVars, mailIn>>
       \/ /\ linkIn = "up" /\ CM!CommitAction(k) = "fail"
          /\ Deliver(k, Answer("fail", CM!NoOut))
          /\ GoIn("idle") /\ UNCHANGED mapVars
    /\ UNCHANGED <<chanIn, linkIn, answers, unresolved, switch, chanOut, memOut,
                   mailOut, faults>>

\* The write of the circuit succeeds, or fails and so does the add.
WriteCircuit(k) ==
    /\ atIn = [at |-> "write", for |-> {k}]
    /\ \/ /\ CM!CommitDisk(k)
          /\ GoIn("route") /\ UNCHANGED <<mailIn, faults>>
       \/ /\ Fault("write", MaxFaults)
          /\ CM!CommitFails(k)
          /\ Deliver(k, Answer("fail", CM!NoOut))
          /\ GoIn("idle")
    /\ UNCHANGED <<chanIn, linkIn, answers, unresolved, switch, chanOut, memOut, mailOut>>

\* routeAsync gives up when the link is being stopped.
RouteAbort(k) ==
    /\ atIn = [at |-> "route", for |-> {k}]
    /\ linkIn = "stopping"
    /\ GoIn("idle")
    /\ UNCHANGED <<mapVars, chanIn, linkIn, answers, unresolved, mailIn, switch,
                   chanOut, memOut, mailOut, faults>>

\* handlePacketForward takes the add: it enters the mailbox of an outgoing link
\* that is eligible and takes it, and is failed back otherwise.
HandleAdd(k) ==
    /\ atIn = [at |-> "route", for |-> {k}]
    /\ \/ linkOut = "up" /\ AddPacket(k) /\ UNCHANGED mailIn
       \/ Deliver(k, Answer("fail", CM!NoOut)) /\ UNCHANGED mailOut
    /\ GoIn("idle")
    /\ UNCHANGED <<mapVars, chanIn, linkIn, answers, unresolved, switch, chanOut,
                   memOut, faults>>

-----------------------------------------------------------------------------
(* The incoming link, from the answer on.                                  *)

\* handleDownstreamPkt, of a settle or fail: the HTLC is removed from the update
\* log and a commitment is signed; the answer for an HTLC that has an answer is
\* dropped; the answer for one that is gone is cleaned up.
HandleAnswer(k) ==
    /\ ReadyIn
    /\ mailIn[k] # None /\ ~mailIn[k].sent
    /\ \/ /\ incoming[k] = "locked" /\ answers[k] = None
          /\ answers' = [answers EXCEPT ![k] = mailIn[k]]
          /\ mailIn' = [mailIn EXCEPT ![k].sent = TRUE]
          /\ atIn' = [at |-> "sign", for |-> {}]
          /\ UNCHANGED outAcked
       \/ /\ k \notin compacted /\ (incoming[k] # "locked" \/ answers[k] # None)
          /\ mailIn' = AckPackets({k})
          /\ UNCHANGED <<answers, atIn, outAcked>>
       \/ /\ k \in compacted
          /\ outAcked' = outAcked \cup ({mailIn[k].ref} \ {CM!NoOut})
          /\ mailIn' = [mailIn EXCEPT ![k].sent = TRUE]
          /\ atIn' = [at |-> "clean", for |-> {k}]
          /\ UNCHANGED answers
    /\ UNCHANGED <<mapVars, chanIn, linkIn, unresolved, switch, outKey, outHtlc,
                   memOut, mailOut, faults>>

Answered == {k \in InKey : answers[k] # None}

\* updateCommitTx, of handleDownstreamPkt or, later, of a timer or a revocation:
\* without a revocation the answers wait; otherwise they are signed for, and the
\* transaction acks the add and the response of each.
SignIn ==
    /\ atIn.at = "sign" \/ (ReadyIn /\ Answered # {} /\ sigIn = "none")
    /\ \/ /\ sigIn # "none"
          /\ GoIn("idle")
          /\ UNCHANGED <<incoming, sigIn, diffIn, answers, outAcked>>
       \/ /\ sigIn = "none"
          /\ incoming' = [k \in InKey |-> IF k \in Answered THEN answers[k].type
                                          ELSE incoming[k]]
          /\ sigIn' = "signed" /\ diffIn' = Answered
          /\ outAcked' = outAcked \cup ({answers[k].ref : k \in Answered} \ {CM!NoOut})
          /\ answers' = NoAnswers
          /\ atIn' = [at |-> "delete", for |-> Answered]
    /\ UNCHANGED <<mapVars, compacted, linkIn, unresolved, mailIn, switch, outKey,
                   outHtlc, memOut, mailOut, faults>>

\* ackDownStreamPackets and cleanupSpuriousResponse delete the circuits.
DeleteCircuits ==
    /\ atIn.at \in {"delete", "clean"}
    /\ CM!DeleteMemory(atIn.for)
    /\ GoIn(IF atIn.at = "delete" THEN "deleting" ELSE "cleaning")
    /\ UNCHANGED <<chanIn, linkIn, answers, unresolved, mailIn, switch, chanOut, memOut,
                   mailOut, faults>>

\* Once the circuits are gone from the database, the answers leave the mailbox,
\* and the signature is sent.
AckDownStreamPackets ==
    /\ atIn.at \in {"deleting", "cleaning"}
    /\ CM!DeleteDisk(atIn.for)
    /\ mailIn' = AckPackets(atIn.for)
    /\ sigIn' = IF atIn.at = "deleting" THEN "sent" ELSE sigIn
    /\ GoIn("idle")
    /\ UNCHANGED <<incoming, compacted, diffIn, linkIn, answers, unresolved, switch,
                   chanOut, memOut, mailOut, faults>>

\* The deletion fails: the circuits are put back, and the link fails; a clean-up
\* only logs it.
DeleteFails ==
    /\ \/ atIn.at \in {"deleting", "cleaning"} /\ Fault("write", MaxFaults)
       \/ atIn.at = "restoring" /\ UNCHANGED faults
    /\ \E r \in deletes :
          /\ r.key \in atIn.for
          /\ CM!DeleteFails(r)
          /\ GoIn(IF \E s \in deletes \ {r} : s.key \in atIn.for THEN "restoring"
                  ELSE "idle")
    /\ IF atIn.at = "cleaning"
       THEN mailIn' = AckPackets(atIn.for) /\ UNCHANGED linkIn
       ELSE linkIn' = "stopping" /\ UNCHANGED mailIn
    /\ UNCHANGED <<chanIn, answers, unresolved, switch, chanOut, memOut, mailOut>>

\* The peer revokes, and no HTLC is locked in by it.
RevokeIn ==
    /\ ReadyIn
    /\ sigIn = "sent"
    /\ sigIn' = "none" /\ diffIn' = {}
    /\ UNCHANGED <<mapVars, incoming, compacted, memIn, mailIn, switch, chanOut, memOut,
                   mailOut, faults>>

\* A removal on both commitments leaves the update log.
Compact(k) ==
    /\ ReadyIn
    /\ incoming[k] \in {"settle", "fail"} /\ k \notin diffIn \cup compacted
    /\ compacted' = compacted \cup {k}
    /\ UNCHANGED <<mapVars, incoming, sigIn, diffIn, memIn, mailIn, switch, chanOut,
                   memOut, mailOut, faults>>

\* Stop closes the link's quit channel.
StopIn ==
    /\ linkIn = "up"
    /\ Fault("stopIn", MaxStopsIn)
    /\ linkIn' = "stopping"
    /\ UNCHANGED <<mapVars, chanIn, atIn, answers, unresolved, mailIn, switch, chanOut,
                   memOut, mailOut>>

\* The htlcManager has exited: what was not signed for is lost, and Stop resets
\* the mailbox.
ExitIn ==
    /\ linkIn = "stopping" /\ atIn = Idle
    /\ linkIn' = "down"
    /\ answers' = NoAnswers /\ unresolved' = {}
    /\ mailIn' = Resent(mailIn)
    /\ UNCHANGED <<mapVars, chanIn, atIn, switch, chanOut, memOut, mailOut, faults>>

\* Mutant: a commitment that is sent again does not close its circuits again.
StartInNoDelete ==
    /\ linkIn = "down"
    /\ linkIn' = "up"
    /\ sigIn' = IF sigIn = "signed" THEN "sent" ELSE sigIn
    /\ unresolved' = {k \in InKey : incoming[k] = "locked"}
    /\ UNCHANGED <<mapVars, incoming, compacted, diffIn, atIn, answers, mailIn, switch,
                   chanOut, memOut, mailOut, faults>>

\* A new link for the channel syncs with the peer: a commitment the peer has not
\* received is sent again, after the circuits it closed are deleted.  Then
\* resolveFwdPkgs takes up the adds that are not acked.
StartIn ==
    /\ linkIn = "down"
    /\ linkIn' = "up"
    /\ \/ /\ sigIn # "none"
          /\ atIn' = [at |-> "delete", for |-> diffIn]
       \/ /\ sigIn # "signed"
          /\ atIn' = Idle
    /\ unresolved' = {k \in InKey : incoming[k] = "locked"}
    /\ UNCHANGED <<mapVars, chanIn, answers, mailIn, switch, chanOut, memOut, mailOut,
                   faults>>

-----------------------------------------------------------------------------
(* The outgoing link.                                                      *)

ReadyOut == linkOut = "up" /\ atOut = "idle"

\* handleDownstreamUpdateAdd: the channel takes the add, or it is failed back.
HandleDownstreamAdd ==
    /\ ReadyOut
    /\ delivered < Len(mailOut)
    /\ \/ /\ nextId + Len(added) <= MaxOut
          /\ added' = Append(added, mailOut[delivered + 1])
          /\ delivered' = delivered + 1
          /\ UNCHANGED <<mailOut, failures>>
       \/ /\ FailAdd(delivered + 1)
          /\ UNCHANGED <<added, delivered>>
    /\ UNCHANGED <<mapVars, chanIn, memIn, mailIn, responses, ackBatch, chanOut, linkOut,
                   atOut, keystones, faults>>

\* Mutant: the first id is skipped.
KeystoneBatchOff ==
    [o \in OutId |-> LET i == o - nextId
                     IN  IF i \in (keystones + 1)..Len(added) THEN added[i] ELSE NoKey]

\* The batch of keystones: the ids the channel gave to the adds.
KeystoneBatch ==
    [o \in OutId |-> LET i == o - nextId + 1
                     IN  IF i \in (keystones + 1)..Len(added) THEN added[i] ELSE NoKey]

\* updateCommitTx, called once there are local updates: the batch is full, or a
\* timer or a message of the peer asks for a commitment.  A link whose keystones
\* are refused fails.
OpenCircuits ==
    /\ ReadyOut
    /\ added # <<>>
    /\ \/ /\ keystones = Len(added)
          /\ atOut' = "signing" /\ UNCHANGED <<mapVars, linkOut>>
       \/ /\ keystones < Len(added)
          /\ IF CM!OpenAccepted(KeystoneBatch)
             THEN CM!OpenDisk(KeystoneBatch) /\ atOut' = "opening" /\ UNCHANGED linkOut
             ELSE linkOut' = "stopping" /\ UNCHANGED <<mapVars, atOut>>
    /\ UNCHANGED <<chanIn, memIn, mailIn, switch, chanOut, delivered, added, keystones,
                   mailOut, faults>>

\* Mutant: the keystones are not waited for.
IndexCircuitsLate ==
    /\ atOut = "opening"
    /\ atOut' = "signing"
    /\ keystones' = Len(added)
    /\ UNCHANGED <<mapVars, chanIn, memIn, mailIn, switch, chanOut, linkOut, delivered,
                   added, mailOut, faults>>

\* OpenCircuits returns after it entered the keystones into the indexes.
IndexCircuits ==
    /\ atOut = "opening"
    /\ CM!OpenMemory
    /\ atOut' = "signing"
    /\ keystones' = Len(added)
    /\ UNCHANGED <<chanIn, memIn, mailIn, switch, chanOut, linkOut, delivered, added,
                   mailOut, faults>>

\* Mutant: the adds are not acked in the mailbox.
SignOutNoAck ==
    /\ atOut = "signing"
    /\ nextId' = nextId + Len(added)
    /\ outKey' = [o \in OutId |-> IF o \in nextId..(nextId' - 1)
                                  THEN added[o - nextId + 1] ELSE outKey[o]]
    /\ outHtlc' = [o \in OutId |-> IF o \in nextId..(nextId' - 1) THEN "live"
                                   ELSE outHtlc[o]]
    /\ added' = <<>> /\ keystones' = 0
    /\ atOut' = "idle"
    /\ UNCHANGED <<circuits, chanIn, memIn, mailIn, switch, outAcked,
                   linkOut, mailOut, delivered, faults>>

\* SignNextCommitment succeeds: the HTLCs are on disk, and the adds, which are the
\* first of the mailbox, leave it.
SignOut ==
    /\ atOut = "signing"
    /\ nextId' = nextId + Len(added)
    /\ outKey' = [o \in OutId |-> IF o \in nextId..(nextId' - 1)
                                  THEN added[o - nextId + 1] ELSE outKey[o]]
    /\ outHtlc' = [o \in OutId |-> IF o \in nextId..(nextId' - 1) THEN "live"
                                   ELSE outHtlc[o]]
    /\ mailOut' = SubSeq(mailOut, Len(added) + 1, Len(mailOut))
    /\ delivered' = delivered - Len(added)
    /\ added' = <<>> /\ keystones' = 0
    /\ atOut' = "idle"
    /\ UNCHANGED <<circuits, chanIn, memIn, mailIn, switch, outAcked,
                   linkOut, faults>>

\* ErrNoWindow: the keystones are open, the HTLCs are not signed for.
NoWindow ==
    /\ WindowCloses
    /\ atOut = "signing"
    /\ atOut' = "idle"
    /\ UNCHANGED <<mapVars, chanIn, memIn, mailIn, switch, chanOut, linkOut, delivered,
                   added, keystones, mailOut, faults>>

\* A settle is forwarded as soon as it is received, without a destRef.
ReceiveSettle(o) ==
    /\ ReadyOut
    /\ outHtlc[o] \in {"live", "revealed"}
    /\ outHtlc' = [outHtlc EXCEPT ![o] = "settling"]
    /\ responses' = responses \cup
          {[out |-> o, type |-> "settle", ref |-> CM!NoOut, from |-> "link"]}
    /\ UNCHANGED <<mapVars, chanIn, memIn, mailIn, failures, ackBatch, outKey, outAcked,
                   memOut, mailOut, faults>>

\* The response on record for an outgoing HTLC, forwarded by its link or, after a
\* restart, by the switch itself.
Response(o, from) == [out |-> o, type |-> outHtlc[o], ref |-> o, from |-> from]

\* A revocation locks a settle or fail in; processRemoteSettleFails forwards it.
LockInResponse(o) ==
    /\ ReadyOut
    /\ \/ outHtlc[o] = "settling" /\ outHtlc' = [outHtlc EXCEPT ![o] = "settle"]
       \/ outHtlc[o] = "live" /\ outHtlc' = [outHtlc EXCEPT ![o] = "fail"]
    /\ responses' = responses \cup {Response(o, "link")'}
    /\ UNCHANGED <<mapVars, chanIn, memIn, mailIn, failures, ackBatch, outKey, outAcked,
                   memOut, mailOut, faults>>

\* The locked-in responses that are not acked.
Unacked(from) ==
    {Response(o, from) : o \in {x \in OutId : outHtlc[x] \in {"settle", "fail"}
                                             /\ x \notin outAcked}}

StopOut ==
    /\ linkOut = "up"
    /\ Fault("stopOut", MaxStopsOut)
    /\ linkOut' = "stopping"
    /\ UNCHANGED <<mapVars, chanIn, memIn, mailIn, switch, chanOut, atOut, delivered,
                   added, keystones, mailOut>>

\* What was not signed for is lost, with it a settle that was not locked in; Stop
\* resets the mailbox.
ExitOut ==
    /\ linkOut = "stopping" /\ atOut = "idle"
    /\ linkOut' = "down"
    /\ outHtlc' = [o \in OutId |-> IF outHtlc[o] = "settling" THEN "revealed"
                                   ELSE outHtlc[o]]
    /\ delivered' = 0 /\ added' = <<>> /\ keystones' = 0
    /\ UNCHANGED <<mapVars, chanIn, memIn, mailIn, switch, outKey, outAcked, atOut,
                   mailOut, faults>>

\* Start trims the keystones that were not signed for.
StartOut ==
    /\ linkOut = "down"
    /\ CM!TrimMemory(nextId)
    /\ linkOut' = "trimming"
    /\ UNCHANGED <<chanIn, memIn, mailIn, switch, chanOut, atOut, delivered, added,
                   keystones, mailOut, faults>>

\* Then the htlcManager starts, and resolveFwdPkgs forwards responses again.
RunOut ==
    /\ linkOut = "trimming"
    /\ CM!TrimDisk
    /\ linkOut' = "up"
    /\ responses' = responses \cup Unacked("link")
    /\ UNCHANGED <<chanIn, memIn, mailIn, failures, ackBatch, chanOut, atOut, delivered,
                   added, keystones, mailOut, faults>>

-----------------------------------------------------------------------------
(* The switch and the couriers.                                            *)

\* The outgoing link stops before the switch took a response.
DropResponse(r) ==
    /\ linkOut \in {"stopping", "down"}
    /\ r \in responses /\ r.from = "link"
    /\ responses' = responses \ {r}
    /\ UNCHANGED <<mapVars, chanIn, memIn, mailIn, failures, ackBatch, chanOut, memOut,
                   mailOut, faults>>

\* Mutant: a response that comes second is acked as if its circuit were gone.
HandleResponseAcksClosing(r) ==
    /\ r \in responses
    /\ responses' = responses \ {r}
    /\ \/ /\ CM!CloseResult(r.out) = "ok"
          /\ CM!MarkClosed(opened[r.out])
          /\ Deliver(opened[r.out], Answer(r.type, r.ref))
          /\ UNCHANGED ackBatch
       \/ /\ CM!CloseResult(r.out) # "ok"
          /\ ackBatch' = ackBatch \cup ({r.ref} \ {CM!NoOut})
          /\ UNCHANGED <<mapVars, mailIn>>
    /\ UNCHANGED <<chanIn, memIn, failures, chanOut, memOut, mailOut, faults>>

\* handlePacketForward, of a settle or fail from the outgoing channel: it closes
\* the circuit and goes to the incoming link, unless a response did so before.
HandleResponse(r) ==
    /\ r \in responses
    /\ responses' = responses \ {r}
    /\ \/ /\ CM!CloseResult(r.out) = "ok"
          /\ CM!MarkClosed(opened[r.out])
          /\ Deliver(opened[r.out], Answer(r.type, r.ref))
          /\ UNCHANGED ackBatch
       \/ /\ CM!CloseResult(r.out) = "closing"
          /\ UNCHANGED <<mapVars, mailIn, ackBatch>>
       \/ /\ CM!CloseResult(r.out) = "unknown"
          /\ ackBatch' = ackBatch \cup ({r.ref} \ {CM!NoOut})
          /\ UNCHANGED <<mapVars, mailIn>>
    /\ UNCHANGED <<chanIn, memIn, failures, chanOut, memOut, mailOut, faults>>

\* handlePacketForward, of a failure by the outgoing link or its mailbox.
HandleFailure(k) ==
    /\ k \in failures
    /\ failures' = failures \ {k}
    /\ IF CM!FailResult(k) = "ok"
       THEN CM!MarkClosed(k) /\ Deliver(k, Answer("fail", CM!NoOut))
       ELSE UNCHANGED <<mapVars, mailIn>>
    /\ UNCHANGED <<chanIn, memIn, responses, ackBatch, chanOut, memOut, mailOut, faults>>

\* The ack ticker: responses that found no circuit are acked.
AckTick ==
    /\ ackBatch # {}
    /\ outAcked' = outAcked \cup ackBatch
    /\ ackBatch' = {}
    /\ UNCHANGED <<mapVars, chanIn, memIn, mailIn, responses, failures, outKey, outHtlc,
                   memOut, mailOut, faults>>

\* The courier fails the next add when its deadline passes.  The add may be one
\* that an earlier link was handed and has stored a keystone for.
Expire ==
    /\ Expires
    /\ delivered < Len(mailOut)
    /\ ExpiresOpen \/ ~CM!Bound(mailOut[delivered + 1], keystoneBkt)
    /\ FailAdd(delivered + 1)
    /\ UNCHANGED <<mapVars, chanIn, memIn, mailIn, responses, ackBatch, chanOut, memOut,
                   faults>>

\* The process dies and comes back: the circuit map is restored, the switch
\* forwards the responses that are not acked, and no link is up yet.
Restart ==
    /\ Fault("crash", MaxCrashes)
    /\ CM!NewCircuitMap
    /\ linkIn' = "down" /\ atIn' = Idle /\ answers' = NoAnswers /\ unresolved' = {}
    /\ mailIn' = NoAnswers
    /\ outHtlc' = [o \in OutId |-> IF outHtlc[o] = "settling" THEN "revealed"
                                   ELSE outHtlc[o]]
    /\ responses' = Unacked("switch") /\ failures' = {} /\ ackBatch' = {}
    /\ linkOut' = "down" /\ atOut' = "idle" /\ mailOut' = <<>> /\ delivered' = 0
    /\ added' = <<>> /\ keystones' = 0
    /\ UNCHANGED <<chanIn, outKey, outAcked>>

Next ==
    \/ \E k \in InKey :
          \/ LockIn(k) \/ ResolveFwdPkg(k) \/ HasPacket(k) \/ CommitCircuits(k)
          \/ WriteCircuit(k) \/ RouteAbort(k) \/ HandleAdd(k) \/ HandleAnswer(k)
          \/ Compact(k) \/ HandleFailure(k)
    \/ SignAdds \/ SignIn \/ DeleteCircuits \/ AckDownStreamPackets \/ DeleteFails \/ RevokeIn
    \/ StopIn \/ ExitIn \/ StartIn
    \/ HandleDownstreamAdd \/ OpenCircuits \/ IndexCircuits \/ SignOut \/ NoWindow
    \/ \E o \in OutId : ReceiveSettle(o) \/ LockInResponse(o)
    \/ StopOut \/ ExitOut \/ StartOut \/ RunOut
    \/ \E r \in responses : DropResponse(r) \/ HandleResponse(r)
    \/ AckTick \/ Expire \/ Restart

Spec == Init /\ [][Next]_vars

\* Every goroutine runs, the peers sign and revoke, and a stopped link is started
\* again: the peer reconnects.
Fairness ==
    /\ \A k \in InKey :
          /\ WF_vars(ResolveFwdPkg(k)) /\ WF_vars(HasPacket(k))
          /\ WF_vars(CommitCircuits(k)) /\ WF_vars(WriteCircuit(k))
          /\ WF_vars(HandleAdd(k)) /\ WF_vars(HandleAnswer(k)) /\ WF_vars(HandleFailure(k))
    /\ WF_vars(SignIn) /\ WF_vars(DeleteCircuits) /\ WF_vars(AckDownStreamPackets)
    /\ WF_vars(DeleteFails) /\ WF_vars(RevokeIn) /\ WF_vars(ExitIn) /\ WF_vars(StartIn)
    /\ WF_vars(HandleDownstreamAdd) /\ WF_vars(OpenCircuits) /\ WF_vars(IndexCircuits)
    /\ SF_vars(SignOut) /\ WF_vars(ExitOut) /\ WF_vars(StartOut) /\ WF_vars(RunOut)
    /\ \A o \in OutId : WF_vars(ReceiveSettle(o)) /\ WF_vars(LockInResponse(o))
    /\ WF_vars(\E r \in responses : HandleResponse(r))

FairSpec == Spec /\ Fairness

-----------------------------------------------------------------------------
(* Properties.                                                             *)

AnswerTypes == {"none", "settle", "fail"}

Answers == [type : AnswerTypes, ref : OutId \cup {CM!NoOut}, sent : BOOLEAN]

\* Type invariant.
TypeOK ==
    /\ incoming \in [InKey -> {"new", "locked", "settle", "fail"}]
    /\ compacted \in SUBSET InKey /\ diffIn \in SUBSET InKey
    /\ sigIn \in {"none", "signed", "sent"}
    /\ linkIn \in {"down", "up", "stopping"}
    /\ atIn \in [at : {"idle", "check", "commit", "write", "route", "sign", "delete",
                       "deleting", "clean", "cleaning", "restoring"},
                 for : SUBSET InKey]
    /\ answers \in [InKey -> Answers] /\ mailIn \in [InKey -> Answers]
    /\ unresolved \in SUBSET InKey
    /\ responses \in SUBSET [out : OutId, type : {"settle", "fail"},
                             ref : OutId \cup {CM!NoOut}, from : {"link", "switch"}]
    /\ failures \in SUBSET InKey /\ ackBatch \in SUBSET OutId
    /\ outKey \in [OutId -> InKey \cup {NoKey}]
    /\ outHtlc \in [OutId -> {"none", "live", "settling", "revealed", "settle", "fail"}]
    /\ outAcked \in SUBSET OutId
    /\ linkOut \in {"down", "trimming", "up", "stopping"}
    /\ atOut \in {"idle", "opening", "signing"}
    /\ mailOut \in Seq(InKey) /\ added \in Seq(InKey)
    /\ keystones \in 0..Len(added) /\ delivered \in Len(added)..Len(mailOut)

Forwarded(k) == {o \in OutId : outKey[o] = k}

\* The incoming HTLC is settled only if an outgoing one was offered for it, and
\* for no other, and the outgoing peer has revealed the preimage.
SettledIsPaid ==
    \A k \in InKey : incoming[k] = "settle" =>
        \E o \in Forwarded(k) : outHtlc[o] \in {"settling", "revealed", "settle"}

\* Both answers agree: besides, the incoming HTLC is failed only if no outgoing
\* HTLC can still be settled. The node never pays out of its own pocket, whatever
\* is retried or lost.
AnswersAgree ==
    /\ SettledIsPaid
    /\ \A k \in InKey : incoming[k] = "fail" => \A o \in Forwarded(k) : outHtlc[o] = "fail"

\* An incoming HTLC is offered to the outgoing peer once, however often its add is
\* forwarded again.
OfferedOnce ==
    \A o, i \in OutId : outKey[o] = outKey[i] /\ outKey[o] # NoKey => o = i

\* An outgoing HTLC has its circuit and its keystone in the database until the
\* incoming HTLC is answered: no crash leaves a response without a way back.
CircuitOutlivesHtlc ==
    \A o \in OutId : outKey[o] # NoKey /\ incoming[outKey[o]] = "locked" =>
        keystoneBkt[o] = outKey[o] /\ outKey[o] \in circuitBkt

\* A response is acked, and is not forwarded again, only once the incoming HTLC
\* has its answer signed.
AckedIsAnswered ==
    \A o \in outAcked : incoming[outKey[o]] \in {"settle", "fail"}

\* The links and the switch keep to the rules of the circuit map.
UsesCircuitMap == CM!Spec

\* Every HTLC that was locked in is settled or failed back in the end.
EveryAddAnswered ==
    \A k \in InKey : (incoming[k] = "locked") ~> (incoming[k] \in {"settle", "fail"})

\* The circuit of an answered HTLC does not stay in the database.
CircuitsReleased ==
    \A k \in InKey : (incoming[k] \in {"settle", "fail"}) ~> (k \notin circuitBkt)

\* "It is now safe to send back a failure along the incoming link."
\* (CommitCircuits, of a circuit without keystone that was loaded from disk.)
FailIsSafe ==
    \A k \in InKey :
        atIn = [at |-> "commit", for |-> {k}] /\ linkIn = "up"
        /\ CM!CommitAction(k) = "fail"
        => \A o \in Forwarded(k) : outHtlc[o] = "fail"

-----------------------------------------------------------------------------
(* The inductive invariant of the safety proof.                            *)

IsAnswered(k) == incoming[k] \in {"settle", "fail"}

\* The incoming link has committed circuit k and is yet to hand its add over.
Routing(k) == atIn \in [at : {"write", "route"}, for : {{k}}]

\* The add is in one place at a time, and there only while its HTLC has neither an
\* answer nor an outgoing HTLC.
AddsInTransit ==
    \A k \in InKey :
        /\ Queued(k) \/ k \in failures \/ Routing(k) =>
              /\ incoming[k] = "locked" /\ pending[k] = "mem"
              /\ mailIn[k] = None /\ Forwarded(k) = {}
        /\ Queued(k) => k \notin failures
        /\ Routing(k) => ~Queued(k) /\ k \notin failures

\* The incoming link works on adds that are not answered, deletes the circuits of
\* those that are, and is alone in doing either.
IncomingFits ==
    /\ \A k \in commits : atIn = [at |-> "write", for |-> {k}]
    /\ \A r \in deletes : atIn.at \in {"deleting", "cleaning", "restoring"} /\ r.key \in atIn.for
    /\ atIn.at \in {"check", "commit", "write", "route"} =>
          \A k \in atIn.for : incoming[k] = "locked"
    /\ atIn.at = "commit" => \A k \in atIn.for : pending[k] = "none" => mailIn[k] = None
    /\ atIn.at \in {"delete", "deleting", "restoring", "clean", "cleaning"} =>
          \A k \in atIn.for : IsAnswered(k)
    /\ \A k \in diffIn \cup compacted : IsAnswered(k)
    /\ \A k \in unresolved : incoming[k] = "locked" /\ answers[k] = None
    /\ linkIn = "down" => atIn = Idle /\ answers = NoAnswers /\ unresolved = {}

\* The adds in the channel's log are the first of the mailbox, and the calls on the
\* circuit map are where the outgoing link is.
OutgoingFits ==
    /\ \A i, j \in 1..Len(mailOut) : mailOut[i] = mailOut[j] => i = j
    /\ delivered = Len(added) /\ \A i \in 1..Len(added) : added[i] = mailOut[i]
    /\ nextId + Len(added) <= MaxOut + 1
    /\ linkOut \in {"down", "trimming"} => added = <<>> /\ atOut = "idle"
    /\ trims # {} => linkOut = "trimming"
    /\ opens = IF atOut = "opening" THEN KeystoneBatch ELSE CM!NoKeystones
    /\ atOut = "opening" => keystones < Len(added)
    /\ atOut = "signing" => keystones = Len(added) /\ added # <<>>

\* A keystone is for the HTLC with its id or, past the signed ids, for an add in
\* the mailbox; the open ones among the latter are for the first adds in the log.
KeystonesFit ==
    \A o \in OutId :
        /\ keystoneBkt[o] # NoKey =>
              IF o < nextId THEN outKey[o] = keystoneBkt[o] ELSE Queued(keystoneBkt[o])
        /\ o >= nextId /\ linkOut # "down" =>
              opened[o] = IF o - nextId + 1 <= keystones THEN added[o - nextId + 1] ELSE NoKey

\* An outgoing HTLC is open under the circuit it was offered for until the incoming
\* HTLC is answered.
OutgoingOpen ==
    \A o \in OutId :
        /\ outKey[o] # NoKey <=> o < nextId
        /\ outHtlc[o] # "none" <=> o < nextId
        /\ outKey[o] # NoKey =>
              /\ incoming[outKey[o]] # "new"
              /\ incoming[outKey[o]] = "locked" => opened[o] = outKey[o]

\* What an answer for k says is so: a settle is one the outgoing peer revealed the
\* preimage of, a fail is locked in or no outgoing HTLC was offered.
IsFor(answer, k) ==
    /\ answer.type \in {"settle", "fail"}
    /\ answer.type = "settle" =>
          \E o \in Forwarded(k) : outHtlc[o] \in {"settling", "revealed", "settle"}
    /\ answer.ref = CM!NoOut /\ answer.type = "fail" => Forwarded(k) = {}
    /\ answer.ref # CM!NoOut => outKey[answer.ref] = k /\ outHtlc[answer.ref] = answer.type

AnswersFit ==
    /\ \A k \in InKey : mailIn[k] # None => IsFor(mailIn[k], k)
    /\ \A k \in InKey : answers[k] # None =>
          /\ incoming[k] = "locked" /\ mailIn[k] # None /\ mailIn[k].sent
          /\ mailIn[k].type = answers[k].type /\ mailIn[k].ref = answers[k].ref
    /\ \A r \in responses :
          /\ outKey[r.out] # NoKey
          /\ r.type = "settle" => outHtlc[r.out] \in {"settling", "revealed", "settle"}
          /\ r.type = "fail" => r.ref # CM!NoOut
          /\ r.ref # CM!NoOut => r.ref = r.out /\ outHtlc[r.out] = r.type
    /\ \A o \in ackBatch \cup outAcked : outKey[o] # NoKey /\ IsAnswered(outKey[o])

LinksFit ==
    /\ TypeOK
    /\ AddsInTransit /\ IncomingFits /\ OutgoingFits /\ KeystonesFit /\ OutgoingOpen
    /\ AnswersFit /\ OfferedOnce /\ AnswersAgree

IInv == CM!IInv /\ LinksFit
=============================================================================
