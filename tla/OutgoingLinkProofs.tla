------------------------- MODULE OutgoingLinkProofs -------------------------
(***************************************************************************)
(* What each step of the outgoing link does to the inductive invariant of  *)
(* HtlcForwarding: from the mailbox the adds wait in to the packets of the *)
(* answers that its log of settles and fails holds.                        *)
(***************************************************************************)
EXTENDS IncomingLinkProofs

USE HtlcForwardingAssumption DEF OutId

-----------------------------------------------------------------------------
(* The outgoing link.                                                      *)

\* Facts about the incoming side that a step of the outgoing link keeps as they are.
LEMMA IncomingSideFrame ==
  ASSUME LinksFit, UNCHANGED <<commits, deletes, pending, chanIn, memIn, mailIn, outKey, outHtlc, outAcked, responses, ackBatch>>
  PROVE  IncomingFits' /\ AnswersFit' /\ OfferedOnce' /\ AnswersAgree'
  BY IncomingFrame, AnswersFrame, AgreeFrame, Zenon DEF LinksFit, chanIn, memIn

\* A keystone for an add in the mailbox is past the signed ids and, while the link is
\* idle, open.
LEMMA QueuedKeystone ==
  ASSUME IInv, NEW k \in InKey, Queued(k), NEW o \in OutId, keystoneBkt[o] = k
  PROVE  /\ o >= nextId
         /\ opened[o] = k \/ opens[o] = k \/ o \in trims
<1>. USE DEF IInv, LinksFit
<1>1. Forwarded(k) = {} /\ pending[k] = "mem"
  BY Zenon DEF AddsInTransit
<1>2. ~(o < nextId)
  BY <1>1, Zenon DEF KeystonesFit, Forwarded
<1>3. nextId \in Int /\ o \in Int
  BY SMTT(20) DEF CM!IInv, CM!TypeOK, CM!OutId
<1>4. \A r \in deletes : r.key # k
  BY <1>1, Zenon DEF CM!IInv, CM!CallsFit
<1>5. opened[o] = k \/ opens[o] = k \/ o \in trims
  BY <1>4, Zenon DEF CM!IInv, CM!KeystonesAccounted
<1>. QED
  BY <1>2, <1>3, <1>5, SMTT(20)

\* An add that is failed back leaves the mailbox for the switch.
LEMMA FailAddStep ==
  ASSUME IInv, delivered < Len(mailOut), ~CM!Bound(mailOut[delivered + 1], keystoneBkt),
         FailAdd(delivered + 1),
         UNCHANGED <<mapVars, chanIn, memIn, mailIn, responses, ackBatch, chanOut, memOut>>
  PROVE  LinksFit'
<1>. USE DEF IInv, LinksFit, chanIn, memIn, chanOut
<1>. DEFINE k == mailOut[delivered + 1]
<1>1. /\ mailOut \in Seq(InKey) /\ delivered \in Nat /\ delivered + 1 \in 1..Len(mailOut)
      /\ delivered = Len(added) /\ Len(mailOut) \in Nat
  BY SMTT(20) DEF TypeOK, OutgoingFits
<1>2. k \in InKey /\ Queued(k) /\ failures' = failures \cup {k}
  BY <1>1, SMTT(20) DEF FailAdd, Queued
<1>3. /\ mailOut' \in Seq(InKey) /\ Len(mailOut') = Len(mailOut) - 1
      /\ \A i \in 1..(Len(mailOut) - 1) :
            mailOut'[i] = IF i < delivered + 1 THEN mailOut[i] ELSE mailOut[i + 1]
  <2>1. mailOut' = SubSeq(mailOut, 1, (delivered + 1) - 1) \o SubSeq(mailOut, (delivered + 1) + 1, Len(mailOut))
    BY Zenon DEF FailAdd
  <2>. HIDE DEF k
  <2>. QED
    BY <1>1, <2>1, Removal, Zenon
<1>. HIDE DEF k
<1>4. \A i, j \in 1..Len(mailOut) : mailOut[i] = mailOut[j] => i = j
  BY Zenon DEF OutgoingFits
<1>5. ASSUME NEW j \in InKey
      PROVE  Queued(j)' <=> Queued(j) /\ j # k
  <2>1. ASSUME NEW i \in 1..Len(mailOut'), mailOut'[i] = j
        PROVE  Queued(j) /\ j # k
    <3>1. PICK n \in 1..Len(mailOut) : n # delivered + 1 /\ mailOut[n] = j
      BY <1>1, <1>3, <2>1, SMTT(20)
    <3>. QED
      BY <1>1, <1>4, <3>1, Zenon DEF Queued, k
  <2>2. ASSUME NEW i \in 1..Len(mailOut), mailOut[i] = j, j # k
        PROVE  \E n \in 1..Len(mailOut') : mailOut'[n] = j
    <3>1. i # delivered + 1
      BY <2>2, Zenon DEF k
    <3>2. CASE i < delivered + 1
      BY <1>1, <1>3, <2>2, <3>2, SMTT(20)
    <3>3. CASE i > delivered + 1
      <4>1. i - 1 \in 1..(Len(mailOut) - 1) /\ ~(i - 1 < delivered + 1) /\ (i - 1) + 1 = i
        BY <1>1, <3>3, SMTT(20)
      <4>. QED
        BY <1>3, <2>2, <4>1, Zenon
    <3>. QED
      BY <1>1, <3>1, <3>2, <3>3, SMTT(20)
  <2>. QED
    BY <2>1, <2>2, Zenon DEF Queued
<1>6. TypeOK'
  <2>1. delivered \in Len(added)..Len(mailOut')
    BY <1>1, <1>3, SMTT(20)
  <2>. QED
    BY <1>2, <1>3, <2>1, SMTT(20) DEF TypeOK, memOut, mapVars, circuits
<1>7. AddsInTransit'
  <2>1. \A j \in InKey : Forwarded(j)' = Forwarded(j) /\ (Routing(j)' <=> Routing(j))
    BY Zenon DEF Forwarded, Routing
  <2>. QED
    BY <1>2, <1>5, <2>1, Zenon DEF AddsInTransit, mapVars, circuits
<1>8. OutgoingFits'
  <2>1. ASSUME NEW i \in 1..Len(mailOut'), NEW j \in 1..Len(mailOut'), mailOut'[i] = mailOut'[j]
        PROVE  i = j
    <3>. DEFINE at(n) == IF n < delivered + 1 THEN n ELSE n + 1
    <3>1. at(i) \in 1..Len(mailOut) /\ at(j) \in 1..Len(mailOut) /\ (at(i) = at(j) => i = j)
      BY <1>1, <1>3, SMTT(20)
    <3>2. mailOut'[i] = mailOut[at(i)] /\ mailOut'[j] = mailOut[at(j)]
      BY <1>1, <1>3, Zenon
    <3>. HIDE DEF at
    <3>. QED
      BY <1>4, <2>1, <3>1, <3>2, Zenon
  <2>2. \A i \in 1..Len(added) : added[i] = mailOut'[i]
    <3>1. \A i \in 1..Len(added) : i \in 1..(Len(mailOut) - 1) /\ i < delivered + 1
      BY <1>1, SMTT(20)
    <3>. QED
      BY <1>3, <3>1, Zenon DEF OutgoingFits
  <2>. QED
    BY <2>1, <2>2, Zenon DEF OutgoingFits, memOut, mapVars, circuits, KeystoneBatch
<1>9. KeystonesFit'
  <2>1. \A o \in OutId : keystoneBkt[o] # k
    BY Zenon DEF CM!Bound, k
  <2>. QED
    BY <1>5, <2>1, Zenon DEF KeystonesFit, memOut, mapVars, circuits, CM!IInv, CM!TypeOK
<1>. QED
  BY <1>6, <1>7, <1>8, <1>9, IncomingSideFrame, OpenFrame, Zenon DEF mapVars, circuits

\* The channel takes the next add of the mailbox, or it is failed back; its circuit has
\* no keystone then.
LEMMA HandleDownstreamAddStep ==
  ASSUME IInv, HandleDownstreamAdd
  PROVE  LinksFit'
<1>. USE DEF IInv, LinksFit, chanIn, memIn, chanOut
<1>1. /\ linkOut = "up" /\ atOut = "idle" /\ delivered < Len(mailOut)
      /\ UNCHANGED <<mapVars, chanIn, memIn, mailIn, responses, ackBatch, chanOut, linkOut, atOut, keystones, faults>>
  BY Zenon DEF HandleDownstreamAdd, ReadyOut
<1>2. /\ mailOut \in Seq(InKey) /\ added \in Seq(InKey) /\ Len(added) \in Nat
      /\ delivered = Len(added) /\ delivered + 1 \in 1..Len(mailOut) /\ Len(mailOut) \in Nat
      /\ keystones \in 0..Len(added) /\ nextId \in Nat
  BY <1>1, SMTT(20) DEF TypeOK, OutgoingFits, CM!IInv, CM!TypeOK
<1>3. CASE /\ nextId + Len(added) <= MaxOut
           /\ added' = Append(added, mailOut[delivered + 1])
           /\ delivered' = delivered + 1
           /\ UNCHANGED <<mailOut, failures>>
  <2>1. /\ added' \in Seq(InKey) /\ Len(added') = Len(added) + 1
        /\ added'[Len(added) + 1] = mailOut[Len(added) + 1]
        /\ \A i \in 1..Len(added) : added'[i] = added[i]
    BY <1>2, <1>3, SMTT(20)
  <2>2. TypeOK'
    <3>1. keystones \in 0..Len(added') /\ delivered' \in Len(added')..Len(mailOut)
      BY <1>2, <1>3, <2>1, SMTT(20)
    <3>. QED
      BY <1>1, <1>3, <2>1, <3>1, Zenon DEF TypeOK
  <2>3. AddsInTransit'
    BY <1>1, <1>3, AddsFrame, Zenon DEF Routing, mapVars, circuits
  <2>4. OutgoingFits'
    <3>1. delivered' = Len(added') /\ nextId + Len(added') <= MaxOut + 1
      BY <1>2, <1>3, <2>1, SMTT(20)
    <3>2. \A i \in 1..Len(added') : added'[i] = mailOut[i]
      <4>1. \A i \in 1..Len(added') : i \in 1..Len(added) \/ i = Len(added) + 1
        BY <1>2, <2>1, SMTT(20)
      <4>. QED
        BY <2>1, <4>1, Zenon DEF OutgoingFits
    <3>3. opens = CM!NoKeystones /\ trims = {}
      BY <1>1, Zenon DEF OutgoingFits
    <3>. QED
      BY <1>1, <1>3, <3>1, <3>2, <3>3, Zenon DEF OutgoingFits, mapVars, circuits
  <2>5. KeystonesFit'
    <3>1. \A o \in OutId : o >= nextId /\ o - nextId + 1 <= keystones => o - nextId + 1 \in 1..Len(added)
      BY <1>2, SMTT(20) DEF CM!OutId
    <3>2. \A o \in OutId : o >= nextId /\ o - nextId + 1 <= keystones => added'[o - nextId + 1] = added[o - nextId + 1]
      BY <2>1, <3>1, Zenon
    <3>. QED
      BY <1>1, <1>3, <3>2, Zenon DEF KeystonesFit, mapVars, circuits, Queued
  <2>. QED
    BY <1>1, <1>3, <2>2, <2>3, <2>4, <2>5, IncomingSideFrame, OpenFrame, Zenon DEF mapVars, circuits
<1>4. CASE FailAdd(delivered + 1) /\ UNCHANGED <<added, delivered>>
  <2>. DEFINE k == mailOut[delivered + 1]
  <2>1. k \in InKey /\ Queued(k)
    BY <1>2, SMTT(20) DEF Queued
  <2>2. ASSUME NEW o \in OutId, keystoneBkt[o] = k
        PROVE  FALSE
    <3>1. opens = CM!NoKeystones /\ trims = {}
      BY <1>1, Zenon DEF OutgoingFits
    <3>2. opens[o] # k
      BY <2>1, <3>1, Zenon DEF CM!NoKeystones
    <3>3. o >= nextId /\ opened[o] = k
      BY <2>1, <2>2, <3>1, <3>2, QueuedKeystone, Zenon
    <3>4. o - nextId + 1 <= keystones /\ k = added[o - nextId + 1]
      BY <1>1, <2>1, <3>3, Zenon DEF KeystonesFit
    <3>5. o - nextId + 1 \in 1..Len(added)
      BY <1>2, <3>3, <3>4, SMTT(20) DEF CM!OutId
    <3>6. k = mailOut[o - nextId + 1]
      BY <3>4, <3>5, Zenon DEF OutgoingFits
    <3>7. o - nextId + 1 \in 1..Len(mailOut) /\ o - nextId + 1 # delivered + 1
      BY <1>2, <3>5, SMTT(20)
    <3>. QED
      BY <1>2, <3>6, <3>7, Zenon DEF OutgoingFits
  <2>3. ~CM!Bound(mailOut[delivered + 1], keystoneBkt)
    BY <2>2, Zenon DEF CM!Bound
  <2>. QED
    BY <1>1, <1>4, <2>3, FailAddStep, Zenon DEF memOut
<1>. QED
  BY <1>3, <1>4, Zenon DEF HandleDownstreamAdd

\* The keystones are for the adds in the log, under the ids they will have.
LEMMA BatchFacts ==
  ASSUME IInv, NEW o \in OutId
  PROVE  /\ KeystoneBatch[o] # NoKey =>
               /\ o >= nextId /\ o - nextId + 1 \in 1..Len(added)
               /\ ~(o - nextId + 1 <= keystones)
               /\ KeystoneBatch[o] = added[o - nextId + 1]
               /\ KeystoneBatch[o] \in InKey /\ Queued(KeystoneBatch[o])
         /\ KeystoneBatch[o] = NoKey =>
               o < nextId \/ o - nextId + 1 <= keystones \/ o - nextId + 1 > Len(added)
<1>. USE DEF IInv, LinksFit
<1>1. /\ added \in Seq(InKey) /\ Len(added) \in Nat /\ mailOut \in Seq(InKey) /\ Len(mailOut) \in Nat
      /\ keystones \in 0..Len(added) /\ nextId \in Nat /\ o \in Nat /\ Len(added) <= Len(mailOut)
  BY SMTT(20) DEF TypeOK, OutgoingFits, CM!IInv, CM!TypeOK, CM!OutId
<1>2. \A i \in 1..Len(added) : added[i] \in InKey /\ Queued(added[i])
  BY <1>1, SMTT(20) DEF OutgoingFits, Queued
<1>3. KeystoneBatch[o] = IF o - nextId + 1 \in (keystones + 1)..Len(added) THEN added[o - nextId + 1] ELSE NoKey
  BY Zenon DEF KeystoneBatch
<1>. QED
  BY <1>1, <1>2, <1>3, SMTT(20)

\* OpenCircuits writes keystones for adds in the mailbox.
LEMMA OpenCircuitsStep ==
  ASSUME IInv, OpenCircuits
  PROVE  LinksFit'
<1>. USE DEF IInv, LinksFit, switch, chanOut
<1>1. /\ linkOut = "up" /\ atOut = "idle" /\ added # <<>>
      /\ UNCHANGED <<chanIn, memIn, mailIn, switch, chanOut, delivered, added, keystones, mailOut, faults>>
  BY Zenon DEF OpenCircuits, ReadyOut
<1>2. opens = CM!NoKeystones /\ trims = {}
  BY <1>1, Zenon DEF OutgoingFits
<1>3. CASE keystones = Len(added) /\ atOut' = "signing" /\ UNCHANGED <<mapVars, linkOut>>
  <2>1. TypeOK'
    BY <1>1, <1>3, Zenon DEF TypeOK, chanIn, memIn
  <2>2. OutgoingFits'
    BY <1>1, <1>2, <1>3, Zenon DEF OutgoingFits, mapVars, circuits
  <2>3. KeystonesFit'
    BY <1>1, <1>3, Zenon DEF KeystonesFit, mapVars, circuits, Queued
  <2>4. AddsInTransit'
    BY <1>1, <1>3, AddsFrame, Zenon DEF Routing, mapVars, circuits, chanIn, memIn
  <2>. QED
    BY <1>1, <1>3, <2>1, <2>2, <2>3, <2>4, IncomingSideFrame, OpenFrame, Zenon DEF mapVars, circuits, chanIn
<1>4. CASE /\ keystones < Len(added) /\ CM!OpenDisk(KeystoneBatch) /\ atOut' = "opening" /\ UNCHANGED linkOut
  <2>1. /\ keystoneBkt' = [o \in OutId |-> IF KeystoneBatch[o] # NoKey THEN KeystoneBatch[o] ELSE keystoneBkt[o]]
        /\ opens' = KeystoneBatch
        /\ UNCHANGED <<pending, opened, commits, deletes, trims, nextId>>
    BY <1>4, Zenon DEF CM!OpenDisk, CM!Written, CM!memory
  <2>2. TypeOK'
    BY <1>1, <1>4, Zenon DEF TypeOK, chanIn, memIn
  <2>3. OutgoingFits'
    <3>1. KeystoneBatch' = KeystoneBatch
      BY <1>1, <2>1, Zenon DEF KeystoneBatch
    <3>. QED
      BY <1>1, <1>2, <1>4, <2>1, <3>1, Zenon DEF OutgoingFits
  <2>4. KeystonesFit'
    <3>1. \A o \in OutId : keystoneBkt'[o] = KeystoneBatch[o] \/ keystoneBkt'[o] = keystoneBkt[o]
      BY <2>1, Zenon
    <3>2. \A o \in OutId : KeystoneBatch[o] # NoKey => ~(o < nextId) /\ Queued(KeystoneBatch[o])
      <4>1. \A o \in OutId : o \in Int /\ nextId \in Int
        BY SMTT(20) DEF CM!OutId, CM!IInv, CM!TypeOK
      <4>. QED
        BY <4>1, BatchFacts, SMTT(20)
    <3>3. \A k : Queued(k)' <=> Queued(k)
      BY <1>1, Zenon DEF Queued
    <3>. QED
      BY <1>1, <1>4, <2>1, <3>1, <3>2, <3>3, Zenon DEF KeystonesFit
  <2>5. AddsInTransit'
    BY <1>1, <1>4, <2>1, AddsFrame, Zenon DEF Routing, chanIn, memIn
  <2>. QED
    BY <1>1, <1>4, <2>1, <2>2, <2>3, <2>4, <2>5, IncomingSideFrame, OpenFrame, Zenon DEF chanIn
<1>5. CASE linkOut' = "stopping" /\ UNCHANGED <<mapVars, atOut>>
  <2>1. TypeOK'
    BY <1>1, <1>5, Zenon DEF TypeOK, chanIn, memIn
  <2>2. OutgoingFits'
    BY <1>1, <1>2, <1>5, Zenon DEF OutgoingFits, mapVars, circuits
  <2>3. KeystonesFit'
    BY <1>1, <1>5, Zenon DEF KeystonesFit, mapVars, circuits, Queued
  <2>4. AddsInTransit'
    BY <1>1, <1>5, AddsFrame, Zenon DEF Routing, mapVars, circuits, chanIn, memIn
  <2>. QED
    BY <1>1, <1>5, <2>1, <2>2, <2>3, <2>4, IncomingSideFrame, OpenFrame, Zenon DEF mapVars, circuits, chanIn
<1>. QED
  BY <1>3, <1>4, <1>5, Zenon DEF OpenCircuits

\* The keystones of all adds in the log are open when OpenCircuits returns.
LEMMA IndexCircuitsStep ==
  ASSUME IInv, IndexCircuits
  PROVE  LinksFit'
<1>. USE DEF IInv, LinksFit, switch, chanOut
<1>1. /\ atOut = "opening" /\ atOut' = "signing" /\ keystones' = Len(added) /\ CM!OpenMemory
      /\ UNCHANGED <<chanIn, memIn, mailIn, switch, chanOut, linkOut, delivered, added, mailOut, faults>>
  BY Zenon DEF IndexCircuits
<1>2. /\ opened' = [o \in OutId |-> IF opens[o] # NoKey THEN opens[o] ELSE opened[o]]
      /\ opens' = CM!NoKeystones
      /\ UNCHANGED <<pending, keystoneBkt, commits, deletes, trims, nextId>>
  BY <1>1, Zenon DEF CM!OpenMemory, CM!disk
<1>3. /\ opens = KeystoneBatch /\ keystones < Len(added) /\ trims = {}
      /\ linkOut \notin {"down", "trimming"}
  BY <1>1, Zenon DEF OutgoingFits
<1>4. /\ added \in Seq(InKey) /\ Len(added) \in Nat /\ keystones \in Nat /\ nextId \in Nat
      /\ \A o \in OutId : o \in Nat
  BY SMTT(20) DEF TypeOK, CM!IInv, CM!TypeOK, CM!OutId
<1>5. added # <<>>
  BY <1>3, <1>4, SMTT(20)
<1>6. TypeOK'
  <2>1. keystones' \in 0..Len(added)
    BY <1>1, <1>4, SMTT(20)
  <2>. QED
    BY <1>1, <2>1, Zenon DEF TypeOK, chanIn, memIn
<1>7. OutgoingFits'
  BY <1>1, <1>2, <1>3, <1>5, Zenon DEF OutgoingFits
<1>8. KeystonesFit'
  <2>1. ASSUME NEW o \in OutId, o >= nextId
        PROVE  opened'[o] = IF o - nextId + 1 <= Len(added) THEN added[o - nextId + 1] ELSE NoKey
    <3>1. opened[o] = IF o - nextId + 1 <= keystones THEN added[o - nextId + 1] ELSE NoKey
      BY <1>3, <2>1, Zenon DEF KeystonesFit
    <3>2. opened'[o] = IF KeystoneBatch[o] # NoKey THEN KeystoneBatch[o] ELSE opened[o]
      BY <1>2, <1>3, Zenon
    <3>3. CASE KeystoneBatch[o] # NoKey
      BY <1>4, <3>2, <3>3, BatchFacts, SMTT(20)
    <3>4. CASE KeystoneBatch[o] = NoKey
      BY <1>3, <1>4, <2>1, <3>1, <3>2, <3>4, BatchFacts, SMTT(20)
    <3>. QED
      BY <3>3, <3>4, Zenon
  <2>2. \A k : Queued(k)' <=> Queued(k)
    BY <1>1, Zenon DEF Queued
  <2>. QED
    BY <1>1, <1>2, <2>1, <2>2, Zenon DEF KeystonesFit
<1>9. OutgoingOpen'
  <2>1. \A o \in OutId : o < nextId => opened'[o] = opened[o]
    <3>1. \A o \in OutId : o < nextId => KeystoneBatch[o] = NoKey
      BY <1>4, BatchFacts, SMTT(20)
    <3>. QED
      BY <1>2, <1>3, <3>1, Zenon
  <2>. QED
    BY <1>1, <1>2, <2>1, Zenon DEF OutgoingOpen, chanIn
<1>10. AddsInTransit'
  BY <1>1, <1>2, AddsFrame, Zenon DEF Routing, chanIn, memIn
<1>. QED
  BY <1>1, <1>2, <1>6, <1>7, <1>8, <1>9, <1>10, IncomingSideFrame, Zenon

\* The keystones stay open for the next attempt.
LEMMA NoWindowStep ==
  ASSUME IInv, NoWindow
  PROVE  LinksFit'
<1>. USE DEF NoWindow, IInv, LinksFit, mapVars, circuits, chanIn, memIn, switch, chanOut
<1>1. TypeOK'
  BY SMTT(20) DEF TypeOK
<1>2. OutgoingFits'
  BY Zenon DEF OutgoingFits
<1>3. KeystonesFit'
  BY Zenon DEF KeystonesFit, Queued
<1>4. AddsInTransit'
  BY AddsFrame, Zenon DEF Routing
<1>. QED
  BY <1>1, <1>2, <1>3, <1>4, IncomingSideFrame, OpenFrame, Zenon

\* Stop only tells the link to.
LEMMA StopOutStep ==
  ASSUME IInv, StopOut
  PROVE  LinksFit'
<1>. USE DEF StopOut, IInv, LinksFit, mapVars, circuits, chanIn, memIn, switch, chanOut
<1>1. TypeOK'
  BY Zenon DEF TypeOK
<1>2. OutgoingFits'
  BY Zenon DEF OutgoingFits, KeystoneBatch
<1>3. KeystonesFit'
  BY Zenon DEF KeystonesFit, Queued
<1>4. AddsInTransit'
  BY AddsFrame, Zenon DEF Routing
<1>. QED
  BY <1>1, <1>2, <1>3, <1>4, IncomingSideFrame, OpenFrame, Zenon

\* The commitment has an HTLC for each add in the log, which leaves the mailbox: its
\* keystone is open, and it was not offered before.
LEMMA SignOutStep ==
  ASSUME IInv, SignOut
  PROVE  LinksFit'
<1>. USE DEF IInv, LinksFit, switch
<1>. DEFINE n == Len(added)
            New(o) == o >= nextId /\ o < nextId + n
<1>1. /\ atOut = "signing" /\ nextId' = nextId + n
      /\ outKey' = [o \in OutId |-> IF o \in nextId..(nextId' - 1) THEN added[o - nextId + 1] ELSE outKey[o]]
      /\ outHtlc' = [o \in OutId |-> IF o \in nextId..(nextId' - 1) THEN "live" ELSE outHtlc[o]]
      /\ mailOut' = SubSeq(mailOut, n + 1, Len(mailOut))
      /\ delivered' = delivered - n /\ added' = <<>> /\ keystones' = 0 /\ atOut' = "idle"
      /\ UNCHANGED <<circuits, chanIn, memIn, mailIn, switch, outAcked, linkOut, faults>>
  BY Zenon DEF SignOut
<1>2. /\ added \in Seq(InKey) /\ n \in Nat /\ mailOut \in Seq(InKey) /\ Len(mailOut) \in Nat
      /\ n <= Len(mailOut) /\ nextId \in Nat /\ \A o \in OutId : o \in Nat
  BY SMTT(20) DEF TypeOK, CM!IInv, CM!TypeOK, CM!OutId, OutgoingFits
<1>3. /\ keystones = n /\ delivered = n /\ added # <<>> /\ linkOut \notin {"down", "trimming"}
      /\ opens = CM!NoKeystones /\ trims = {} /\ nextId + n <= MaxOut + 1
      /\ \A i \in 1..n : added[i] = mailOut[i]
      /\ \A i, j \in 1..Len(mailOut) : mailOut[i] = mailOut[j] => i = j
  BY <1>1, Zenon DEF OutgoingFits
<1>4. \A i \in 1..n : /\ added[i] \in InKey /\ Queued(added[i]) /\ incoming[added[i]] = "locked"
                      /\ mailIn[added[i]] = None /\ Forwarded(added[i]) = {} /\ added[i] \notin failures
                      /\ ~Routing(added[i])
  <2>1. \A i \in 1..n : added[i] \in InKey /\ Queued(added[i])
    BY <1>2, <1>3, SMTT(20) DEF Queued
  <2>. QED
    BY <2>1, Zenon DEF AddsInTransit
<1>5. ASSUME NEW o \in OutId
      PROVE  /\ New(o) => o - nextId + 1 \in 1..n /\ outKey'[o] = added[o - nextId + 1] /\ outHtlc'[o] = "live"
             /\ ~New(o) => outKey'[o] = outKey[o] /\ outHtlc'[o] = outHtlc[o]
  <2>1. o \in nextId..(nextId' - 1) <=> New(o)
    BY <1>1, <1>2, SMTT(20)
  <2>2. New(o) => o - nextId + 1 \in 1..n
    BY <1>2, SMTT(20)
  <2>. QED
    BY <1>1, <2>1, <2>2, Zenon
<1>6. /\ mailOut' \in Seq(InKey) /\ Len(mailOut') = Len(mailOut) - n
      /\ \A i \in 1..(Len(mailOut) - n) : mailOut'[i] = mailOut[i + n]
  <2>1. n \in 0..Len(mailOut)
    BY <1>2, SMTT(20)
  <2>. HIDE DEF n
  <2>. QED
    BY <1>1, <1>2, <2>1, Rest, Zenon
<1>7. \A o \in OutId : /\ outKey[o] # NoKey <=> o < nextId
                       /\ outHtlc[o] # "none" <=> o < nextId
  BY Zenon DEF OutgoingOpen
<1>8. \A o \in OutId : outKey[o] # NoKey => outKey'[o] = outKey[o] /\ outHtlc'[o] = outHtlc[o]
  BY <1>2, <1>5, <1>7, SMTT(20)
<1>9. \A o \in OutId : /\ New(o) => opened[o] = added[o - nextId + 1] /\ keystoneBkt[o] = added[o - nextId + 1]
                       /\ o >= nextId + n => opened[o] = NoKey
  <2>1. \A o \in OutId : o >= nextId => opened[o] = IF o - nextId + 1 <= n THEN added[o - nextId + 1] ELSE NoKey
    BY <1>3, Zenon DEF KeystonesFit
  <2>2. \A o \in OutId : /\ New(o) => opened[o] = added[o - nextId + 1]
                         /\ o >= nextId + n => opened[o] = NoKey
    <3>1. \A o \in OutId : /\ New(o) => o >= nextId /\ o - nextId + 1 <= n
                           /\ o >= nextId + n => o >= nextId /\ ~(o - nextId + 1 <= n)
      BY <1>2, SMTT(20)
    <3>. QED
      BY <2>1, <3>1, Zenon
  <2>3. \A o \in OutId : New(o) => opened[o] # NoKey
    BY <1>4, <1>5, <2>2, SMTT(20)
  <2>. QED
    BY <2>2, <2>3, Zenon DEF CM!IInv, CM!MemoryIsDurable
<1>. HIDE DEF New
<1>10. ASSUME NEW k \in InKey, \A i \in 1..n : added[i] # k
       PROVE  Forwarded(k)' = Forwarded(k)
  <2>1. \A o \in OutId : outKey'[o] = k <=> outKey[o] = k
    BY <1>5, <1>8, <1>10, Zenon
  <2>. QED
    BY <2>1, Zenon DEF Forwarded
<1>11. ASSUME NEW k \in InKey
       PROVE  Queued(k)' => Queued(k) /\ \A i \in 1..n : added[i] # k
  <2>. SUFFICES ASSUME NEW j \in 1..Len(mailOut'), mailOut'[j] = k
                PROVE  Queued(k) /\ \A i \in 1..n : added[i] # k
    BY Zenon DEF Queued
  <2>1. j + n \in 1..Len(mailOut) /\ mailOut[j + n] = k
    BY <1>2, <1>6, SMTT(20)
  <2>2. \A i \in 1..n : i \in 1..Len(mailOut) /\ i # j + n
    BY <1>2, <1>6, SMTT(20)
  <2>. QED
    BY <1>3, <2>1, <2>2, Zenon DEF Queued
<1>12. TypeOK'
  <2>1. outKey' \in [OutId -> InKey \cup {NoKey}]
    <3>1. \A o \in OutId : outKey'[o] \in InKey \cup {NoKey}
      BY <1>4, <1>5, Zenon DEF TypeOK
    <3>. QED
      BY <1>1, <3>1, Zenon
  <2>2. outHtlc' \in [OutId -> {"none", "live", "settling", "revealed", "settle", "fail"}]
    BY <1>1, Zenon DEF TypeOK
  <2>3. added' \in Seq(InKey) /\ Len(added') = 0 /\ delivered' = 0 /\ delivered' \in 0..Len(mailOut') /\ keystones' \in 0..0
    BY <1>1, <1>2, <1>3, <1>6, SMTT(20)
  <2>. QED
    BY <1>1, <1>6, <2>1, <2>2, <2>3, SMTT(20) DEF TypeOK, chanIn, memIn
<1>13. AddsInTransit'
  <2>1. ASSUME NEW k \in InKey, Queued(k)' \/ k \in failures \/ Routing(k)
        PROVE  \A i \in 1..n : added[i] # k
    BY <1>4, <1>11, <2>1, Zenon
  <2>2. \A k \in InKey : Routing(k)' <=> Routing(k)
    BY <1>1, Zenon DEF Routing, memIn
  <2>3. /\ UNCHANGED <<pending, incoming, mailIn, failures>>
    BY <1>1, Zenon DEF circuits, chanIn
  <2>. QED
    BY <1>10, <1>11, <2>1, <2>2, <2>3, Zenon DEF AddsInTransit
<1>14. OutgoingFits'
  <2>1. ASSUME NEW i \in 1..Len(mailOut'), NEW j \in 1..Len(mailOut'), mailOut'[i] = mailOut'[j]
        PROVE  i = j
    <3>1. i + n \in 1..Len(mailOut) /\ j + n \in 1..Len(mailOut) /\ (i + n = j + n => i = j)
      BY <1>2, <1>6, SMTT(20)
    <3>2. mailOut'[i] = mailOut[i + n] /\ mailOut'[j] = mailOut[j + n]
      BY <1>6, Zenon
    <3>. QED
      BY <1>3, <2>1, <3>1, <3>2, Zenon
  <2>2. delivered' = Len(added') /\ Len(added') = 0 /\ nextId' + Len(added') <= MaxOut + 1
    BY <1>1, <1>2, <1>3, SMTT(20)
  <2>3. \A i \in 1..Len(added') : added'[i] = mailOut'[i]
    BY <2>2, SMTT(20)
  <2>4. opens' = CM!NoKeystones /\ trims' = {} /\ atOut' = "idle" /\ added' = <<>>
    BY <1>1, <1>3, Zenon DEF circuits
  <2>. QED
    BY <2>1, <2>2, <2>3, <2>4, Zenon DEF OutgoingFits
<1>15. KeystonesFit'
  <2>1. ASSUME NEW o \in OutId, keystoneBkt[o] # NoKey
        PROVE  o < nextId + n /\ outKey'[o] = keystoneBkt[o]
    <3>1. CASE o < nextId
      BY <1>2, <1>8, <2>1, <3>1, SMTT(20) DEF KeystonesFit
    <3>2. CASE o >= nextId
      <4>1. Queued(keystoneBkt[o]) /\ keystoneBkt[o] \in InKey
        BY <1>2, <2>1, <3>2, SMTT(20) DEF KeystonesFit, CM!IInv, CM!TypeOK
      <4>2. opened[o] = keystoneBkt[o] \/ opens[o] = keystoneBkt[o]
        BY <1>3, <4>1, QueuedKeystone, Zenon
      <4>3. opened[o] = keystoneBkt[o]
        BY <1>3, <2>1, <4>2, Zenon DEF CM!NoKeystones
      <4>4. New(o)
        BY <1>2, <1>9, <2>1, <3>2, <4>3, SMTT(20) DEF New
      <4>. QED
        BY <1>2, <1>5, <1>9, <4>4, Zenon DEF New
    <3>. QED
      BY <1>2, <3>1, <3>2, SMTT(20)
  <2>2. \A o \in OutId : o >= nextId + n => opened[o] = NoKey /\ ~(o - (nextId + n) + 1 <= 0)
    BY <1>2, <1>9, SMTT(20)
  <2>3. UNCHANGED <<keystoneBkt, opened>> /\ nextId' = nextId + n /\ keystones' = 0
    BY <1>1, Zenon DEF circuits
  <2>. QED
    BY <2>1, <2>2, <2>3, Zenon DEF KeystonesFit
<1>16. OutgoingOpen'
  <2>1. ASSUME NEW o \in OutId
        PROVE  /\ outKey'[o] # NoKey <=> o < nextId'
               /\ outHtlc'[o] # "none" <=> o < nextId'
               /\ outKey'[o] # NoKey => /\ incoming[outKey'[o]] # "new"
                                        /\ incoming[outKey'[o]] = "locked" => opened[o] = outKey'[o]
    <3>1. CASE New(o)
      BY <1>1, <1>2, <1>4, <1>5, <1>9, <3>1, SMTT(20) DEF New
    <3>2. CASE ~New(o)
      <4>1. o < nextId + n <=> o < nextId
        BY <1>2, <3>2, SMTT(20) DEF New
      <4>. QED
        BY <1>1, <1>5, <3>2, <4>1, SMTT(20) DEF OutgoingOpen
    <3>. QED
      BY <3>1, <3>2, Zenon
  <2>2. UNCHANGED <<incoming, opened>>
    BY <1>1, Zenon DEF circuits, chanIn
  <2>. QED
    BY <2>1, <2>2, Zenon DEF OutgoingOpen
<1>17. AnswersFit'
  <2>1. UNCHANGED <<mailIn, answers, incoming, responses, ackBatch, outAcked>>
    BY <1>1, Zenon DEF chanIn, memIn
  <2>2. ASSUME NEW k \in InKey, mailIn[k] # None
        PROVE  IsFor(mailIn[k], k)'
    <3>1. Forwarded(k)' = Forwarded(k) /\ IsFor(mailIn[k], k) /\ mailIn[k] \in Answers
      <4>1. \A i \in 1..n : added[i] # k
        BY <1>4, <2>2, Zenon
      <4>. QED
        BY <1>10, <2>2, <4>1, Zenon DEF AnswersFit, TypeOK
    <3>2. \A o \in Forwarded(k) : o \in OutId /\ outKey[o] # NoKey
      BY Zenon DEF Forwarded
    <3>3. mailIn[k].ref \in OutId \cup {CM!NoOut}
      BY <3>1, Zenon DEF Answers
    <3>. QED
      BY <1>8, <2>1, <3>1, <3>2, <3>3, Zenon DEF IsFor
  <2>3. \A r \in responses : r.out \in OutId /\ outKey'[r.out] = outKey[r.out] /\ outHtlc'[r.out] = outHtlc[r.out]
    <3>1. \A r \in responses : r.out \in OutId /\ outKey[r.out] # NoKey
      BY SMTT(20) DEF AnswersFit, TypeOK
    <3>. QED
      BY <1>8, <3>1, Zenon
  <2>4. \A o \in ackBatch \cup outAcked : outKey'[o] # NoKey /\ incoming[outKey'[o]] \in {"settle", "fail"}
    BY <1>8, SMTT(20) DEF AnswersFit, TypeOK, IsAnswered
  <2>. QED
    <3>1. \A k \in InKey : mailIn'[k] # None => IsFor(mailIn[k], k)'
      BY <2>1, <2>2, Zenon
    <3>2. \A o \in ackBatch' \cup outAcked' : outKey'[o] # NoKey /\ IsAnswered(outKey[o])'
      BY <2>1, <2>4, Zenon DEF IsAnswered
    <3>3. \A r \in responses' :
             /\ outKey'[r.out] # NoKey
             /\ r.type = "settle" => outHtlc'[r.out] \in {"settling", "revealed", "settle"}
             /\ r.type = "fail" => r.ref # CM!NoOut
             /\ r.ref # CM!NoOut => r.ref = r.out /\ outHtlc'[r.out] = r.type
      BY <2>1, <2>3, Zenon DEF AnswersFit
    <3>4. \A k \in InKey : answers'[k] # None =>
             /\ incoming'[k] = "locked" /\ mailIn'[k] # None /\ mailIn'[k].sent
             /\ mailIn'[k].type = answers'[k].type /\ mailIn'[k].ref = answers'[k].ref
      BY <2>1, Zenon DEF AnswersFit
    <3>. QED
      BY <2>1, <3>1, <3>2, <3>3, <3>4, Zenon DEF AnswersFit
<1>18. OfferedOnce'
  <2>1. ASSUME NEW o \in OutId, NEW i \in OutId, outKey'[o] = outKey'[i], outKey'[o] # NoKey, New(o)
        PROVE  o = i
    <3>1. New(i)
      <4>. SUFFICES ASSUME ~New(i)
                    PROVE  FALSE
        BY Zenon
      <4>1. outKey[i] = added[o - nextId + 1]
        BY <1>5, <2>1, Zenon
      <4>. QED
        <5>1. o - nextId + 1 \in 1..n
          BY <1>5, <2>1, Zenon
        <5>2. i \in Forwarded(added[o - nextId + 1])
          BY <4>1, Zenon DEF Forwarded
        <5>. QED
          BY <1>4, <5>1, <5>2, Zenon
    <3>2. /\ o - nextId + 1 \in 1..n /\ i - nextId + 1 \in 1..n
          /\ mailOut[o - nextId + 1] = mailOut[i - nextId + 1]
      BY <1>3, <1>5, <2>1, <3>1, Zenon
    <3>3. o - nextId + 1 = i - nextId + 1
      <4>1. o - nextId + 1 \in 1..Len(mailOut) /\ i - nextId + 1 \in 1..Len(mailOut)
        BY <1>2, <3>2, SMTT(20)
      <4>. QED
        BY <1>3, <3>2, <4>1, Zenon
    <3>. QED
      BY <1>2, <3>3, SMTT(20)
  <2>2. ASSUME NEW o \in OutId, NEW i \in OutId, outKey'[o] = outKey'[i], outKey'[o] # NoKey, ~New(o), ~New(i)
        PROVE  o = i
    BY <1>5, <2>2, Zenon DEF OfferedOnce
  <2>. QED
    BY <2>1, <2>2, Zenon DEF OfferedOnce
<1>19. AnswersAgree'
  <2>1. ASSUME NEW k \in InKey, IsAnswered(k)
        PROVE  /\ Forwarded(k)' = Forwarded(k)
               /\ \A o \in Forwarded(k) : outHtlc'[o] = outHtlc[o]
    BY <1>4, <1>8, <1>10, <2>1, Zenon DEF IsAnswered, Forwarded
  <2>2. incoming' = incoming
    BY <1>1, Zenon DEF chanIn
  <2>. QED
    BY <2>1, <2>2, SMTT(20) DEF AnswersAgree, SettledIsPaid, IsAnswered
<1>20. IncomingFits'
  BY <1>1, IncomingFrame, Zenon DEF circuits
<1>. QED
  BY <1>12, <1>13, <1>14, <1>15, <1>16, <1>17, <1>18, <1>19, <1>20, Zenon

\* An outgoing HTLC moves on, and responses for it are sent: what was said of it before
\* stays true.
LEMMA HtlcsMove ==
  ASSUME LinksFit, UNCHANGED <<outKey, incoming>>,
         \A o \in OutId : outHtlc'[o] = outHtlc[o] \/
            /\ outHtlc[o] \in {"live", "settling", "revealed"} /\ outHtlc'[o] # "none"
            /\ outHtlc[o] # "live" => outHtlc'[o] \in {"settling", "revealed", "settle"},
         \A k \in InKey : \/ mailIn'[k] = mailIn[k] /\ answers'[k] = answers[k]
                          \/ mailIn'[k] = None /\ answers'[k] = None,
         ackBatch' \subseteq ackBatch, outAcked' = outAcked,
         \A r \in responses' : r \in responses \/
            /\ r.out \in OutId /\ outHtlc'[r.out] # "none" /\ r.type \in {"settle", "fail"}
            /\ \/ r.ref = r.out /\ r.type = outHtlc'[r.out]
               \/ r.ref = CM!NoOut /\ r.type = "settle" /\ outHtlc'[r.out] = "settling"
  PROVE  AnswersFit' /\ AnswersAgree' /\ OfferedOnce'
<1>. USE DEF LinksFit
<1>1. \A o \in OutId : /\ outHtlc[o] \in {"settle", "fail"} => outHtlc'[o] = outHtlc[o]
                       /\ outHtlc[o] \in {"settling", "revealed", "settle"} => outHtlc'[o] \in {"settling", "revealed", "settle"}
                       /\ outHtlc'[o] # "none" => outHtlc[o] # "none"
  BY Zenon
<1>2. \A k : Forwarded(k)' = Forwarded(k)
  BY Zenon DEF Forwarded
<1>3. ASSUME NEW k \in InKey, mailIn[k] # None
      PROVE  IsFor(mailIn[k], k)' \/ mailIn'[k] # mailIn[k]
  <2>1. IsFor(mailIn[k], k) /\ mailIn[k].ref \in OutId \cup {CM!NoOut} /\ Forwarded(k) \subseteq OutId
    BY <1>3, Zenon DEF AnswersFit, TypeOK, Answers, Forwarded
  <2>. QED
    BY <1>1, <1>2, <2>1, SMTT(20) DEF IsFor
<1>4. \A k \in InKey : mailIn'[k] # None => IsFor(mailIn[k], k)'
  BY <1>3, Zenon
<1>5. ASSUME NEW k \in InKey, answers'[k] # None
      PROVE  /\ incoming'[k] = "locked" /\ mailIn'[k] # None /\ mailIn'[k].sent
             /\ mailIn'[k].type = answers'[k].type /\ mailIn'[k].ref = answers'[k].ref
  <2>1. mailIn'[k] = mailIn[k] /\ answers'[k] = answers[k] /\ incoming' = incoming
    BY <1>5, Zenon
  <2>2. /\ incoming[k] = "locked" /\ mailIn[k] # None /\ mailIn[k].sent
        /\ mailIn[k].type = answers[k].type /\ mailIn[k].ref = answers[k].ref
    BY <1>5, <2>1, Zenon DEF AnswersFit
  <2>. QED
    BY <2>1, <2>2, Zenon
<1>6. ASSUME NEW r \in responses'
      PROVE  /\ outKey'[r.out] # NoKey
             /\ r.type = "settle" => outHtlc'[r.out] \in {"settling", "revealed", "settle"}
             /\ r.type = "fail" => r.ref # CM!NoOut
             /\ r.ref # CM!NoOut => r.ref = r.out /\ outHtlc'[r.out] = r.type
  <2>1. CASE r \in responses
    <3>1. r.out \in OutId /\ r.type \in {"settle", "fail"}
      BY <2>1, Zenon DEF TypeOK
    <3>. QED
      BY <1>1, <2>1, <3>1, SMTT(20) DEF AnswersFit
  <2>2. CASE r \notin responses
    <3>1. /\ r.out \in OutId /\ outHtlc'[r.out] # "none" /\ r.type \in {"settle", "fail"}
          /\ \/ r.ref = r.out /\ r.type = outHtlc'[r.out]
             \/ r.ref = CM!NoOut /\ r.type = "settle" /\ outHtlc'[r.out] = "settling"
      BY <2>2, Zenon
    <3>2. outKey[r.out] # NoKey
      BY <1>1, <3>1, Zenon DEF OutgoingOpen
    <3>3. r.out # CM!NoOut
      BY <3>1, SMTT(20) DEF CM!OutId, CM!NoOut
    <3>. QED
      BY <3>1, <3>2, <3>3, Zenon
  <2>. QED
    BY <2>1, <2>2, Zenon
<1>7. \A o \in ackBatch' \cup outAcked' : outKey'[o] # NoKey /\ IsAnswered(outKey[o])'
  BY Zenon DEF AnswersFit, IsAnswered
<1>8. AnswersFit'
  BY <1>4, <1>5, <1>6, <1>7, Zenon DEF AnswersFit
<1>9. AnswersAgree'
  <2>1. \A k \in InKey : Forwarded(k) \subseteq OutId
    BY Zenon DEF Forwarded
  <2>2. \A o \in OutId : outHtlc[o] = "fail" => outHtlc'[o] = "fail"
    BY <1>1, Zenon
  <2>3. SettledIsPaid'
    BY <1>1, <1>2, <2>1, Zenon DEF AnswersAgree, SettledIsPaid
  <2>. QED
    BY <1>2, <2>1, <2>2, <2>3, Zenon DEF AnswersAgree
<1>10. OfferedOnce'
  BY Zenon DEF OfferedOnce
<1>. QED
  BY <1>8, <1>9, <1>10, Zenon

\* The HTLCs that are there stay, whatever becomes of them.
LEMMA HtlcsStay ==
  ASSUME OutgoingOpen, UNCHANGED <<outKey, nextId, incoming>>,
         \A o \in OutId : outHtlc'[o] # "none" <=> outHtlc[o] # "none",
         \A o \in OutId : outKey[o] # NoKey /\ incoming[outKey[o]] = "locked" => opened'[o] = opened[o]
  PROVE  OutgoingOpen'
  BY Zenon DEF OutgoingOpen

\* A settle is passed on as soon as it is received.
LEMMA ReceiveSettleStep ==
  ASSUME IInv, NEW o \in OutId, ReceiveSettle(o)
  PROVE  LinksFit'
<1>. USE DEF IInv, LinksFit, mapVars, circuits, chanIn, memIn
<1>. DEFINE r == [out |-> o, type |-> "settle", ref |-> CM!NoOut, from |-> "link"]
<1>1. /\ outHtlc[o] \in {"live", "revealed"} /\ outHtlc' = [outHtlc EXCEPT ![o] = "settling"]
      /\ responses' = responses \cup {r}
      /\ UNCHANGED <<mapVars, chanIn, memIn, mailIn, failures, ackBatch, outKey, outAcked, memOut, mailOut, faults>>
  BY Zenon DEF ReceiveSettle
<1>2. /\ outHtlc' \in [OutId -> {"none", "live", "settling", "revealed", "settle", "fail"}]
      /\ outHtlc'[o] = "settling" /\ \A i \in OutId : i # o => outHtlc'[i] = outHtlc[i]
  BY <1>1, Zenon DEF TypeOK
<1>3. r.out = o /\ r.type = "settle" /\ r.ref = CM!NoOut
  BY Zenon
<1>4. TypeOK'
  <2>1. responses' \in SUBSET [out : OutId, type : {"settle", "fail"}, ref : OutId \cup {CM!NoOut}, from : {"link", "switch"}]
    BY <1>1, SMTT(20) DEF TypeOK
  <2>. HIDE DEF r
  <2>. QED
    BY <1>1, <1>2, <2>1, SMTT(20) DEF TypeOK, memOut
<1>. HIDE DEF r
<1>5. IncomingFits' /\ OutgoingFits' /\ KeystonesFit'
  BY <1>1, IncomingFrame, OutgoingFrame, KeystonesFrame, Zenon
<1>6. AddsInTransit'
  BY <1>1, AddsFrame, Zenon DEF Routing
<1>7. AnswersFit' /\ AnswersAgree' /\ OfferedOnce'
  <2>1. \A s \in responses' : s \in responses \/
            /\ s.out \in OutId /\ outHtlc'[s.out] # "none" /\ s.type \in {"settle", "fail"}
            /\ \/ s.ref = s.out /\ s.type = outHtlc'[s.out]
               \/ s.ref = CM!NoOut /\ s.type = "settle" /\ outHtlc'[s.out] = "settling"
    BY <1>1, <1>2, <1>3, Zenon
  <2>2. \A i \in OutId : outHtlc'[i] = outHtlc[i] \/
            /\ outHtlc[i] \in {"live", "settling", "revealed"} /\ outHtlc'[i] # "none"
            /\ outHtlc[i] # "live" => outHtlc'[i] \in {"settling", "revealed", "settle"}
    BY <1>1, <1>2, Zenon
  <2>. QED
    BY <1>1, <2>1, <2>2, HtlcsMove, Zenon
<1>8. OutgoingOpen'
  BY <1>1, <1>2, HtlcsStay, Zenon
<1>. QED
  BY <1>4, <1>5, <1>6, <1>7, <1>8, Zenon

\* A settle or fail is passed on again when it is locked in.
LEMMA LockInResponseStep ==
  ASSUME IInv, NEW o \in OutId, LockInResponse(o)
  PROVE  LinksFit'
<1>. USE DEF IInv, LinksFit, mapVars, circuits, chanIn, memIn
<1>. DEFINE r == [out |-> o, type |-> outHtlc'[o], ref |-> o, from |-> "link"]
<1>1. /\ \/ outHtlc[o] = "settling" /\ outHtlc' = [outHtlc EXCEPT ![o] = "settle"]
         \/ outHtlc[o] = "live" /\ outHtlc' = [outHtlc EXCEPT ![o] = "fail"]
      /\ responses' = responses \cup {r}
      /\ UNCHANGED <<mapVars, chanIn, memIn, mailIn, failures, ackBatch, outKey, outAcked, memOut, mailOut, faults>>
  BY Zenon DEF LockInResponse, Response
<1>2. /\ outHtlc' \in [OutId -> {"none", "live", "settling", "revealed", "settle", "fail"}]
      /\ \/ outHtlc[o] = "settling" /\ outHtlc'[o] = "settle"
         \/ outHtlc[o] = "live" /\ outHtlc'[o] = "fail"
      /\ \A i \in OutId : i # o => outHtlc'[i] = outHtlc[i]
  BY <1>1, Zenon DEF TypeOK
<1>3. r.out = o /\ r.type = outHtlc'[o] /\ r.ref = o
  BY Zenon
<1>4. TypeOK'
  <2>1. responses' \in SUBSET [out : OutId, type : {"settle", "fail"}, ref : OutId \cup {CM!NoOut}, from : {"link", "switch"}]
    BY <1>1, <1>2, SMTT(20) DEF TypeOK
  <2>. HIDE DEF r
  <2>. QED
    BY <1>1, <1>2, <2>1, SMTT(20) DEF TypeOK, memOut
<1>. HIDE DEF r
<1>5. IncomingFits' /\ OutgoingFits' /\ KeystonesFit'
  BY <1>1, IncomingFrame, OutgoingFrame, KeystonesFrame, Zenon
<1>6. AddsInTransit'
  BY <1>1, AddsFrame, Zenon DEF Routing
<1>7. AnswersFit' /\ AnswersAgree' /\ OfferedOnce'
  <2>1. \A s \in responses' : s \in responses \/
            /\ s.out \in OutId /\ outHtlc'[s.out] # "none" /\ s.type \in {"settle", "fail"}
            /\ \/ s.ref = s.out /\ s.type = outHtlc'[s.out]
               \/ s.ref = CM!NoOut /\ s.type = "settle" /\ outHtlc'[s.out] = "settling"
    BY <1>1, <1>2, <1>3, Zenon
  <2>2. \A i \in OutId : outHtlc'[i] = outHtlc[i] \/
            /\ outHtlc[i] \in {"live", "settling", "revealed"} /\ outHtlc'[i] # "none"
            /\ outHtlc[i] # "live" => outHtlc'[i] \in {"settling", "revealed", "settle"}
    BY <1>1, <1>2, Zenon
  <2>. QED
    BY <1>1, <2>1, <2>2, HtlcsMove, Zenon
<1>8. OutgoingOpen'
  BY <1>1, <1>2, HtlcsStay, Zenon
<1>. QED
  BY <1>4, <1>5, <1>6, <1>7, <1>8, Zenon

\* A settle that was not locked in has revealed the preimage.
LEMMA Revealed ==
  ASSUME LinksFit,
         outHtlc' = [o \in OutId |-> IF outHtlc[o] = "settling" THEN "revealed" ELSE outHtlc[o]]
  PROVE  /\ outHtlc' \in [OutId -> {"none", "live", "settling", "revealed", "settle", "fail"}]
         /\ \A o \in OutId : outHtlc'[o] = outHtlc[o] \/
               /\ outHtlc[o] \in {"live", "settling", "revealed"} /\ outHtlc'[o] # "none"
               /\ outHtlc[o] # "live" => outHtlc'[o] \in {"settling", "revealed", "settle"}
         /\ \A o \in OutId : outHtlc'[o] # "none" <=> outHtlc[o] # "none"
         /\ \A o \in OutId : outHtlc[o] \in {"settle", "fail"} => outHtlc'[o] = outHtlc[o]
  BY Zenon DEF LinksFit, TypeOK

\* The adds stay in the mailbox, for the next link.
LEMMA ExitOutStep ==
  ASSUME IInv, ExitOut
  PROVE  LinksFit'
<1>. USE DEF IInv, LinksFit, mapVars, circuits, chanIn, memIn, switch
<1>1. /\ linkOut = "stopping" /\ atOut = "idle" /\ linkOut' = "down"
      /\ outHtlc' = [o \in OutId |-> IF outHtlc[o] = "settling" THEN "revealed" ELSE outHtlc[o]]
      /\ delivered' = 0 /\ added' = <<>> /\ keystones' = 0
      /\ UNCHANGED <<mapVars, chanIn, memIn, mailIn, switch, outKey, outAcked, atOut, mailOut, faults>>
  BY Zenon DEF ExitOut
<1>2. /\ added' \in Seq(InKey) /\ Len(added') = 0 /\ mailOut \in Seq(InKey)
      /\ keystones' \in 0..0 /\ delivered' \in 0..Len(mailOut)
  BY <1>1, SMTT(20) DEF TypeOK
<1>3. TypeOK'
  BY <1>1, <1>2, Revealed, Zenon DEF TypeOK
<1>4. OutgoingFits'
  <2>1. opens = CM!NoKeystones /\ trims = {} /\ nextId + 0 <= MaxOut + 1
    BY <1>1, SMTT(20) DEF OutgoingFits, CM!IInv, CM!TypeOK
  <2>2. \A i \in 1..Len(added') : added'[i] = mailOut[i]
    BY <1>2, SMTT(20)
  <2>. QED
    BY <1>1, <1>2, <2>1, <2>2, SMTT(20) DEF OutgoingFits
<1>5. KeystonesFit'
  BY <1>1, Zenon DEF KeystonesFit, Queued
<1>6. AddsInTransit'
  BY <1>1, AddsFrame, Zenon DEF Routing
<1>7. IncomingFits'
  BY <1>1, IncomingFrame, Zenon
<1>8. AnswersFit' /\ AnswersAgree' /\ OfferedOnce'
  BY <1>1, Revealed, HtlcsMove, Zenon
<1>9. OutgoingOpen'
  BY <1>1, Revealed, HtlcsStay, Zenon
<1>. QED
  BY <1>3, <1>4, <1>5, <1>6, <1>7, <1>8, <1>9, Zenon

\* All keystones that are not signed for are trimmed, and only those.
LEMMA StartOutStep ==
  ASSUME IInv, StartOut
  PROVE  LinksFit'
<1>. USE DEF IInv, LinksFit, chanOut
<1>1. /\ linkOut = "down" /\ linkOut' = "trimming"
      /\ UNCHANGED <<chanIn, memIn, mailIn, switch, chanOut, atOut, delivered, added, keystones, mailOut, faults>>
      /\ opened' = CM!Cut(opened, CM!Trimmed(opened, nextId))
      /\ trims' = CM!Trimmed(opened, nextId)
      /\ UNCHANGED <<pending, keystoneBkt, commits, opens, deletes, nextId>>
  BY Zenon DEF StartOut, CM!TrimMemory, CM!disk
<1>2. \A o \in OutId : o \in Int /\ nextId \in Int
  BY SMTT(20) DEF CM!OutId, CM!IInv, CM!TypeOK
<1>3. \A o \in OutId : /\ o < nextId => opened'[o] = opened[o]
                       /\ o >= nextId => opened'[o] = NoKey
  <2>1. \A o \in OutId : o >= nextId /\ opened[o] # NoKey => o \in CM!Trimmed(opened, nextId)
    BY Zenon DEF CM!Trimmed, CM!IInv, CM!NoDisjointSegments
  <2>2. \A o \in OutId : o < nextId => o \notin CM!Trimmed(opened, nextId)
    BY <1>2, SMTT(20) DEF CM!Trimmed
  <2>. QED
    BY <1>1, <2>1, <2>2, Zenon DEF CM!Cut
<1>4. TypeOK'
  BY <1>1, Zenon DEF TypeOK, chanIn, memIn, switch
<1>5. added = <<>> /\ atOut = "idle" /\ keystones = 0
  <2>1. added = <<>> /\ atOut = "idle" /\ keystones \in 0..Len(added)
    BY <1>1, Zenon DEF OutgoingFits, TypeOK
  <2>. QED
    BY <2>1, SMTT(20)
<1>6. OutgoingFits'
  BY <1>1, <1>5, SMTT(20) DEF OutgoingFits
<1>7. KeystonesFit'
  <2>1. \A o \in OutId : o >= nextId => ~(o - nextId + 1 <= 0)
    BY <1>2, SMTT(20)
  <2>. QED
    BY <1>1, <1>3, <1>5, <2>1, Zenon DEF KeystonesFit, Queued
<1>8. AddsInTransit'
  BY <1>1, AddsFrame, Zenon DEF Routing, chanIn, memIn, switch
<1>9. OutgoingOpen'
  <2>1. \A o \in OutId : outKey[o] # NoKey => opened'[o] = opened[o]
    BY <1>3, Zenon DEF OutgoingOpen
  <2>. QED
    BY <1>1, <2>1, HtlcsStay, Zenon DEF chanIn
<1>. QED
  BY <1>1, <1>4, <1>6, <1>7, <1>8, <1>9, IncomingSideFrame, Zenon DEF switch

\* The responses that are not acked are those on record.
LEMMA UnackedFacts ==
  ASSUME LinksFit, NEW from \in {"link", "switch"}, NEW r \in Unacked(from)
  PROVE  /\ r \in [out : OutId, type : {"settle", "fail"}, ref : OutId \cup {CM!NoOut}, from : {"link", "switch"}]
         /\ r.out \in OutId /\ outHtlc[r.out] # "none" /\ r.type \in {"settle", "fail"}
         /\ r.ref = r.out /\ r.type = outHtlc[r.out] /\ outHtlc[r.out] \in {"settle", "fail"}
<1>1. PICK o \in OutId : outHtlc[o] \in {"settle", "fail"} /\ r = [out |-> o, type |-> outHtlc[o], ref |-> o, from |-> from]
  BY Zenon DEF Unacked, Response
<1>. QED
  BY <1>1, Zenon

\* The link forwards the responses on record again.
LEMMA RunOutStep ==
  ASSUME IInv, RunOut
  PROVE  LinksFit'
<1>. USE DEF IInv, LinksFit, chanOut
<1>1. /\ linkOut = "trimming" /\ linkOut' = "up" /\ responses' = responses \cup Unacked("link")
      /\ UNCHANGED <<chanIn, memIn, mailIn, failures, ackBatch, chanOut, atOut, delivered, added, keystones, mailOut, faults>>
      /\ keystoneBkt' = CM!Cut(keystoneBkt, trims) /\ trims' = {}
      /\ UNCHANGED <<pending, opened, commits, opens, deletes, nextId>>
  BY Zenon DEF RunOut, CM!TrimDisk, CM!memory
<1>2. TypeOK'
  BY <1>1, UnackedFacts, SMTT(20) DEF TypeOK, chanIn, memIn
<1>3. OutgoingFits'
  BY <1>1, Zenon DEF OutgoingFits
<1>4. KeystonesFit'
  <2>1. \A o \in OutId : keystoneBkt'[o] \in {NoKey, keystoneBkt[o]}
    BY <1>1, Zenon DEF CM!Cut
  <2>. QED
    BY <1>1, <2>1, Zenon DEF KeystonesFit, Queued
<1>5. AddsInTransit'
  BY <1>1, AddsFrame, Zenon DEF Routing, chanIn, memIn
<1>6. IncomingFits' /\ OutgoingOpen'
  BY <1>1, IncomingFrame, OpenFrame, Zenon DEF chanIn
<1>7. AnswersFit' /\ AnswersAgree' /\ OfferedOnce'
  <2>1. \A r \in responses' : r \in responses \/
            /\ r.out \in OutId /\ outHtlc'[r.out] # "none" /\ r.type \in {"settle", "fail"}
            /\ r.ref = r.out /\ r.type = outHtlc'[r.out]
    BY <1>1, UnackedFacts, Zenon
  <2>. QED
    BY <1>1, <2>1, HtlcsMove, Zenon DEF chanIn, memIn
<1>. QED
  BY <1>2, <1>3, <1>4, <1>5, <1>6, <1>7, Zenon

=============================================================================
