------------------------ MODULE HtlcForwardingProofs ------------------------
(***************************************************************************)
(* The links and the switch use the circuit map the way it asks them to,   *)
(* and whatever is stopped, retried or lost, an incoming HTLC is answered  *)
(* as the outgoing one was: for every set of HTLCs, every number of        *)
(* outgoing ids and any number of stops, crashes and faults.               *)
(*                                                                         *)
(* The proofs take ExpiresOpen to be FALSE: no add is failed back by its   *)
(* mailbox while its keystone is in the database.                          *)
(***************************************************************************)
EXTENDS OutgoingLinkProofs

USE HtlcForwardingAssumption DEF OutId

-----------------------------------------------------------------------------
(* The switch and the couriers.                                            *)

\* A response that is dropped says nothing.
LEMMA DropResponseStep ==
  ASSUME IInv, NEW r \in responses, DropResponse(r)
  PROVE  LinksFit'
<1>. USE DEF IInv, LinksFit, DropResponse, mapVars, circuits, chanIn, memIn, chanOut
<1>1. TypeOK'
  BY SMTT(20) DEF TypeOK, memOut
<1>2. AddsInTransit'
  BY AddsFrame, Zenon DEF Routing
<1>. QED
  BY <1>1, <1>2, IncomingFrame, OutgoingSideFrame, OpenFrame, AnswersFrame, AgreeFrame, SMTT(20)

\* The mailbox takes an answer for an HTLC that is not in transit and has a circuit.
LEMMA DeliverKeeps ==
  ASSUME IInv, NEW k \in InKey, NEW a, Deliver(k, a), pending[k] # "none",
         ~Queued(k), k \notin failures', ~Routing(k), failures' \subseteq failures,
         UNCHANGED <<pending, commits, deletes, chanIn, memIn, outKey, mailOut>>
  PROVE  AddsInTransit' /\ IncomingFits'
<1>. USE DEF IInv, LinksFit
<1>1. \A j \in InKey : j # k => mailIn'[j] = mailIn[j]
  BY Zenon DEF Deliver, TypeOK
<1>2. AddsInTransit'
  <2>1. \A j \in InKey : /\ Queued(j)' <=> Queued(j)
                         /\ Forwarded(j)' = Forwarded(j)
                         /\ Routing(j)' <=> Routing(j)
    BY SMTT(20) DEF Queued, Forwarded, Routing, memIn
  <2>. QED
    BY <1>1, <2>1, SMTT(20) DEF AddsInTransit, chanIn
<1>3. IncomingFits'
  BY <1>1, SMTT(20) DEF IncomingFits, IsAnswered, chanIn, memIn, TypeOK
<1>. QED
  BY <1>2, <1>3, Zenon

\* A response goes to the HTLC it is for; one without a circuit is for an HTLC that is
\* answered.
LEMMA HandleResponseStep ==
  ASSUME IInv, NEW r \in responses, HandleResponse(r)
  PROVE  LinksFit'
<1>. USE DEF IInv, LinksFit, chanIn, memIn, chanOut
<1>. DEFINE k == opened[r.out]
<1>1. /\ r.out \in OutId /\ r.type \in {"settle", "fail"} /\ r.ref \in OutId \cup {CM!NoOut}
      /\ outKey[r.out] \in InKey
      /\ r.type = "settle" => outHtlc[r.out] \in {"settling", "revealed", "settle"}
      /\ r.type = "fail" => r.ref # CM!NoOut
      /\ r.ref # CM!NoOut => r.ref = r.out /\ outHtlc[r.out] = r.type
  BY SMTT(20) DEF TypeOK, AnswersFit
<1>2. /\ responses' = responses \ {r}
      /\ UNCHANGED <<chanIn, memIn, failures, chanOut, memOut, mailOut, faults>>
  BY Zenon DEF HandleResponse
<1>3. CASE /\ CM!CloseResult(r.out) = "ok" /\ CM!MarkClosed(opened[r.out])
           /\ Deliver(opened[r.out], Answer(r.type, r.ref)) /\ UNCHANGED ackBatch
  <2>1. k # NoKey
    BY <1>3, Zenon DEF CM!CloseResult
  <2>2. k \in InKey /\ keystoneBkt[r.out] = k /\ pending[k] # "none"
    BY <1>1, <2>1, SMTT(20) DEF CM!IInv, CM!TypeOK, CM!MemoryIsDurable, CM!IndexesAgree
  <2>3. outKey[r.out] = k
    BY <1>1, <2>1, <2>2, Zenon DEF OutgoingOpen, KeystonesFit
  <2>4. UNCHANGED <<pending, opened, keystoneBkt, commits, opens, deletes, trims, nextId>>
    BY <1>3, Zenon DEF CM!MarkClosed, CM!disk, CM!calls
  <2>. HIDE DEF k
  <2>5. r.out \in Forwarded(k)
    BY <1>1, <2>3, Zenon DEF Forwarded
  <2>6. /\ Answer(r.type, r.ref).type = r.type /\ Answer(r.type, r.ref).ref = r.ref
        /\ Answer(r.type, r.ref) \in Answers
    BY <1>1, Zenon DEF Answer, Answers, AnswerTypes
  <2>7. IsFor(Answer(r.type, r.ref), k)
    BY <1>1, <2>3, <2>5, <2>6, SMTT(20) DEF IsFor
  <2>8. Deliver(k, Answer(r.type, r.ref))
    BY <1>3, SMTT(20) DEF k
  <2>9. AnswersFit' /\ mailIn' \in [InKey -> Answers]
    BY <1>2, <1>3, <2>2, <2>6, <2>7, <2>8, DeliverFits, SMTT(20) DEF AnswersFit
  <2>10. TypeOK'
    BY <1>2, <1>3, <2>9, SMTT(20) DEF TypeOK, memOut
  <2>11. AddsInTransit' /\ IncomingFits'
    <3>1. ~Queued(k) /\ k \notin failures /\ ~Routing(k)
      BY <2>2, <2>5, Zenon DEF AddsInTransit
    <3>. QED
      BY <1>2, <2>2, <2>4, <2>8, <3>1, DeliverKeeps, Zenon
  <2>. QED
    BY <1>2, <2>4, <2>9, <2>10, <2>11, OutgoingFrame, KeystonesFrame, OpenFrame, AgreeFrame, Zenon
<1>4. CASE UNCHANGED <<mapVars, mailIn, ackBatch>>
  <2>1. TypeOK'
    BY <1>2, <1>4, SMTT(20) DEF TypeOK, memOut
  <2>2. AddsInTransit'
    BY <1>2, <1>4, AddsFrame, Zenon DEF Routing, mapVars, circuits
  <2>. QED
    BY <1>2, <1>4, <2>1, <2>2, IncomingFrame, OutgoingSideFrame, OpenFrame, AnswersFrame, AgreeFrame, SMTT(20) DEF mapVars, circuits
<1>5. CASE /\ CM!CloseResult(r.out) = "unknown"
           /\ ackBatch' = ackBatch \cup ({r.ref} \ {CM!NoOut})
           /\ UNCHANGED <<mapVars, mailIn>>
  <2>1. opened[r.out] = NoKey
    BY <1>5, Zenon DEF CM!CloseResult
  <2>2. IsAnswered(outKey[r.out])
    BY <1>1, <2>1, SMTT(20) DEF OutgoingOpen, IsAnswered, TypeOK
  <2>3. TypeOK'
    <3>1. ackBatch' \in SUBSET OutId
      BY <1>1, <1>5, Zenon DEF TypeOK
    <3>. QED
      BY <1>2, <1>5, <3>1, SMTT(20) DEF TypeOK, memOut
  <2>4. AddsInTransit'
    BY <1>2, <1>5, AddsFrame, Zenon DEF Routing, mapVars, circuits
  <2>5. AnswersFit'
    <3>1. \A o \in ackBatch' \cup outAcked' : outKey[o] # NoKey /\ IsAnswered(outKey[o])
      BY <1>1, <1>2, <1>5, <2>2, SMTT(20) DEF AnswersFit
    <3>. QED
      BY <1>2, <1>5, <3>1, AnswersKept, SMTT(20)
  <2>. QED
    BY <1>2, <1>5, <2>3, <2>4, <2>5, IncomingFrame, OutgoingSideFrame, OpenFrame, AgreeFrame, Zenon DEF mapVars, circuits
<1>. QED
  BY <1>3, <1>4, <1>5, Zenon DEF HandleResponse

\* An add that was failed back was not offered to the outgoing peer.
LEMMA HandleFailureStep ==
  ASSUME IInv, NEW k \in InKey, HandleFailure(k)
  PROVE  LinksFit'
<1>. USE DEF IInv, LinksFit, chanIn, memIn, chanOut
<1>1. /\ k \in failures /\ failures' = failures \ {k}
      /\ UNCHANGED <<chanIn, memIn, responses, ackBatch, chanOut, memOut, mailOut, faults>>
  BY Zenon DEF HandleFailure
<1>2. Forwarded(k) = {} /\ pending[k] = "mem" /\ ~Queued(k) /\ ~Routing(k)
  BY <1>1, Zenon DEF AddsInTransit
<1>3. CASE CM!MarkClosed(k) /\ Deliver(k, Answer("fail", CM!NoOut))
  <2>1. UNCHANGED <<pending, opened, keystoneBkt, commits, opens, deletes, trims, nextId>>
    BY <1>3, SMTT(20) DEF CM!MarkClosed, CM!disk, CM!calls
  <2>2. AnswersFit' /\ mailIn' \in [InKey -> Answers]
    BY <1>1, <1>2, <1>3, FailFits, DeliverFits, SMTT(20) DEF AnswersFit
  <2>3. TypeOK'
    BY <1>1, <1>3, <2>2, SMTT(20) DEF TypeOK, memOut
  <2>4. AddsInTransit' /\ IncomingFits'
    BY <1>1, <1>2, <1>3, <2>1, DeliverKeeps, Zenon
  <2>. QED
    BY <1>1, <2>1, <2>2, <2>3, <2>4, OutgoingFrame, KeystonesFrame, OpenFrame, AgreeFrame, SMTT(20)
<1>4. CASE UNCHANGED <<mapVars, mailIn>>
  <2>1. TypeOK'
    BY <1>1, <1>4, SMTT(20) DEF TypeOK, memOut
  <2>2. AddsInTransit'
    BY <1>1, <1>4, AddsFrame, Zenon DEF Routing, mapVars, circuits
  <2>. QED
    BY <1>1, <1>4, <2>1, <2>2, IncomingFrame, OutgoingSideFrame, OpenFrame, AnswersFrame, AgreeFrame, Zenon DEF mapVars, circuits
<1>. QED
  BY <1>3, <1>4, Zenon DEF HandleFailure

\* What the ticker acks was answered.
LEMMA AckTickStep ==
  ASSUME IInv, AckTick
  PROVE  LinksFit'
<1>. USE DEF IInv, LinksFit, AckTick, mapVars, circuits, chanIn, memIn
<1>1. TypeOK'
  BY SMTT(20) DEF TypeOK, memOut
<1>2. AddsInTransit'
  BY AddsFrame, Zenon DEF Routing
<1>. QED
  BY <1>1, <1>2, IncomingFrame, OutgoingSideFrame, OpenFrame, AnswersFrame, AgreeFrame, Zenon

\* An add whose deadline passes, without a keystone, was not offered to the outgoing
\* peer.
LEMMA ExpireStep ==
  ASSUME IInv, Expire, ExpiresOpen = FALSE
  PROVE  LinksFit'
  BY FailAddStep, Zenon DEF Expire

\* A crash leaves what is on disk, where every outgoing HTLC without an answer has its
\* keystone and no other add has one after the trim.
LEMMA RestartStep ==
  ASSUME IInv, Restart, CM!IInv'
  PROVE  LinksFit'
<1>. USE DEF IInv, LinksFit, chanIn
<1>1. /\ linkIn' = "down" /\ atIn' = Idle /\ answers' = NoAnswers /\ unresolved' = {}
      /\ mailIn' = NoAnswers
      /\ outHtlc' = [o \in OutId |-> IF outHtlc[o] = "settling" THEN "revealed" ELSE outHtlc[o]]
      /\ responses' = Unacked("switch") /\ failures' = {} /\ ackBatch' = {}
      /\ linkOut' = "down" /\ atOut' = "idle" /\ mailOut' = <<>> /\ delivered' = 0
      /\ added' = <<>> /\ keystones' = 0
      /\ UNCHANGED <<chanIn, outKey, outAcked>>
  BY Zenon DEF Restart
<1>2. /\ opened' = CM!Cut(CM!RestoredOpened, CM!Trimmed(CM!RestoredOpened, nextId))
      /\ commits' = {} /\ opens' = CM!NoKeystones /\ deletes' = {} /\ trims' = {}
      /\ keystoneBkt' = CM!Cut(keystoneBkt, CM!Trimmed(CM!RestoredOpened, nextId))
      /\ nextId' = nextId
  BY Zenon DEF Restart, CM!NewCircuitMap
<1>3. \A o \in OutId : o \in Int /\ nextId \in Int
  BY SMTT(20) DEF CM!OutId, CM!IInv, CM!TypeOK
<1>4. \A o \in OutId : o < nextId => o \notin CM!Trimmed(CM!RestoredOpened, nextId)
  BY <1>3, SMTT(20) DEF CM!Trimmed
<1>5. \A o \in OutId : o >= nextId => opened'[o] = NoKey
  <2>. SUFFICES ASSUME NEW o \in OutId, o >= nextId, opened'[o] # NoKey
                PROVE  FALSE
    BY SMTT(20)
  <2>1. nextId \in OutId /\ nextId \in nextId..o
    BY SMTT(20) DEF CM!OutId, CM!IInv, CM!TypeOK
  <2>2. opened'[nextId] # NoKey
    BY <1>2, <2>1, Zenon DEF CM!IInv, CM!NoDisjointSegments
  <2>3. CM!RestoredOpened[nextId] # NoKey => nextId \in CM!Trimmed(CM!RestoredOpened, nextId)
    BY <1>3, <2>1, SMTT(20) DEF CM!Trimmed
  <2>. QED
    BY <1>2, <2>1, <2>2, <2>3, Zenon DEF CM!Cut
<1>6. NoAnswers \in [InKey -> Answers] /\ \A j \in InKey : NoAnswers[j] = None
  BY Zenon DEF NoAnswers, None, Answers, AnswerTypes
<1>7. TypeOK'
  <2>1. responses' \in SUBSET [out : OutId, type : {"settle", "fail"}, ref : OutId \cup {CM!NoOut}, from : {"link", "switch"}]
    BY <1>1, UnackedFacts, SMTT(20)
  <2>2. /\ mailOut' \in Seq(InKey) /\ added' \in Seq(InKey)
        /\ keystones' \in 0..Len(added') /\ delivered' \in Len(added')..Len(mailOut')
    BY <1>1, SMTT(20)
  <2>3. outHtlc' \in [OutId -> {"none", "live", "settling", "revealed", "settle", "fail"}]
    BY <1>1, Revealed, SMTT(20)
  <2>. QED
    BY <1>1, <1>6, <2>1, <2>2, <2>3, Zenon DEF TypeOK, Idle
<1>8. AddsInTransit'
  <2>1. \A j \in InKey : ~Queued(j)' /\ ~Routing(j)'
    <3>1. Len(mailOut') = 0 /\ atIn'.at = "idle"
      BY <1>1, Zenon DEF Idle
    <3>2. 1..Len(mailOut') = {}
      BY <3>1, SMTT(20)
    <3>. QED
      BY <3>1, <3>2, Zenon DEF Queued, Routing
  <2>. QED
    BY <1>1, <2>1, SMTT(20) DEF AddsInTransit
<1>9. IncomingFits'
  BY <1>1, <1>2, SMTT(20) DEF IncomingFits, IsAnswered, Idle
<1>10. OutgoingFits'
  <2>1. nextId' + Len(added') <= MaxOut + 1 /\ Len(added') = 0 /\ Len(mailOut') = 0
    BY <1>1, <1>2, SMTT(20) DEF CM!IInv, CM!TypeOK
  <2>. QED
    BY <1>1, <1>2, <2>1, SMTT(20) DEF OutgoingFits
<1>11. KeystonesFit'
  <2>1. \A o \in OutId : keystoneBkt'[o] # NoKey => opened'[o] = keystoneBkt'[o]
    BY <1>2, Zenon DEF CM!IInv, CM!KeystonesAccounted, CM!NoKeystones
  <2>2. \A o \in OutId : keystoneBkt'[o] \in {NoKey, keystoneBkt[o]}
    BY <1>2, Zenon DEF CM!Cut
  <2>. QED
    BY <1>1, <1>2, <1>3, <1>5, <2>1, <2>2, SMTT(20) DEF KeystonesFit
<1>12. OutgoingOpen'
  <2>1. ASSUME NEW o \in OutId, outKey[o] # NoKey, incoming[outKey[o]] = "locked"
        PROVE  opened'[o] = opened[o]
    <3>1. o < nextId /\ opened[o] = outKey[o]
      BY <2>1, Zenon DEF OutgoingOpen
    <3>2. keystoneBkt[o] = outKey[o] /\ outKey[o] \in circuitBkt
      BY <2>1, <3>1, SMTT(20) DEF CM!IInv, CM!MemoryIsDurable, CM!NoStrayKeystone
    <3>3. CM!RestoredOpened[o] = outKey[o]
      BY <3>2, Zenon DEF CM!RestoredOpened
    <3>. QED
      BY <1>2, <1>4, <3>1, <3>3, Zenon DEF CM!Cut
  <2>. QED
    BY <1>1, <1>2, <2>1, Revealed, HtlcsStay, Zenon
<1>13. AnswersFit' /\ AnswersAgree' /\ OfferedOnce'
  <2>1. \A r \in responses' :
            /\ r.out \in OutId /\ outHtlc'[r.out] # "none" /\ r.type \in {"settle", "fail"}
            /\ r.ref = r.out /\ r.type = outHtlc'[r.out]
    BY <1>1, Revealed, UnackedFacts, Zenon
  <2>. QED
    BY <1>1, <1>6, <2>1, Revealed, HtlcsMove, SMTT(20)
<1>. QED
  BY <1>7, <1>8, <1>9, <1>10, <1>11, <1>12, <1>13, Zenon

-----------------------------------------------------------------------------
(* The circuit map is used as its client rules ask.                        *)

\* The incoming link commits a circuit when it is deleting none.
LEMMA CommitIsAllowed ==
  ASSUME IInv, NEW k \in InKey, CommitCircuits(k)
  PROVE  [CM!Next]_(CM!vars)
<1>1. deletes = {}
  BY Zenon DEF CommitCircuits, IInv, LinksFit, IncomingFits
<1>2. CM!MayCommit(k)
  BY <1>1, Zenon DEF CM!MayCommit
<1>3. CM!CommitMemory(k) \/ UNCHANGED mapVars
  BY Zenon DEF CommitCircuits
<1>. QED
  BY <1>2, <1>3, Zenon DEF CM!Next, CM!vars, mapVars, circuits

\* The circuits that the incoming link deletes are those of answered HTLCs: they are
\* committed, and the outgoing link is done with them.
LEMMA DeleteIsAllowed ==
  ASSUME IInv, DeleteCircuits
  PROVE  [CM!Next]_(CM!vars)
<1>. USE DEF IInv, LinksFit
<1>1. atIn.at \in {"delete", "clean"} /\ CM!DeleteMemory(atIn.for) /\ atIn.for \in SUBSET InKey
  BY SMTT(20) DEF DeleteCircuits, TypeOK
<1>2. ASSUME NEW k \in atIn.for
      PROVE  /\ k \notin commits
             /\ ~CM!Bound(k, opens)
             /\ \A o \in trims : keystoneBkt[o] # k
             /\ outgoing[k] = CM!NoOut \/ outgoing[k] < nextId
  <2>1. k \in InKey /\ IsAnswered(k)
    BY <1>1, SMTT(20) DEF IncomingFits
  <2>2. k \notin commits
    BY <1>1, SMTT(20) DEF IncomingFits
  <2>3. \A o \in OutId : keystoneBkt[o] = k => o < nextId
    BY <2>1, AnsweredIsSigned, Zenon
  <2>4. \A o \in OutId : opens[o] # k
    BY <2>1, <2>3, SMTT(20) DEF CM!IInv, CM!CallsFit, CM!Ids, CM!TypeOK, CM!OutId
  <2>5. \A o \in trims : keystoneBkt[o] # k
    BY <2>3, SMTT(20) DEF CM!IInv, CM!CallsFit, CM!TypeOK, CM!OutId
  <2>6. outgoing[k] = CM!NoOut \/ outgoing[k] < nextId
    BY <2>1, <2>3, SMTT(20) DEF CM!IInv, CM!IndexesAgree, CM!MemoryIsDurable, CM!TypeOK
  <2>. QED
    BY <2>2, <2>4, <2>5, <2>6, SMTT(20) DEF CM!Bound
<1>3. CM!MayDelete(atIn.for)
  BY <1>2, Zenon DEF CM!MayDelete
<1>. QED
  BY <1>1, <1>3, Zenon DEF CM!Next

\* The outgoing link opens the next ids of its channel, for adds without a keystone.
LEMMA OpenIsAllowed ==
  ASSUME IInv, OpenCircuits
  PROVE  [CM!Next]_(CM!vars)
<1>. USE DEF IInv, LinksFit
<1>. DEFINE ks == KeystoneBatch
<1>1. linkOut = "up" /\ atOut = "idle"
  BY Zenon DEF OpenCircuits, ReadyOut
<1>2. CASE keystones < Len(added) /\ CM!OpenDisk(ks)
  <2>1. /\ added \in Seq(InKey) /\ Len(added) \in Nat /\ keystones \in Nat /\ nextId \in Nat
        /\ Len(added) <= Len(mailOut) /\ Len(mailOut) \in Nat
        /\ \A o \in OutId : o \in Nat
        /\ \A i \in 1..Len(added) : added[i] \in InKey
    BY SMTT(20) DEF TypeOK, OutgoingFits, CM!IInv, CM!TypeOK, CM!OutId
  <2>2. \A i, j \in 1..Len(added) : added[i] = added[j] => i = j
    <3>1. \A i \in 1..Len(added) : i \in 1..Len(mailOut) /\ added[i] = mailOut[i]
      BY <2>1, SMTT(20) DEF OutgoingFits
    <3>. QED
      BY <3>1, Zenon DEF OutgoingFits
  <2>3. ks # CM!NoKeystones
    <3>1. nextId + keystones \in OutId /\ (nextId + keystones) - nextId + 1 = keystones + 1 /\ keystones + 1 \in 1..Len(added)
      BY <1>2, <2>1, SMTT(20) DEF OutgoingFits, CM!OutId
    <3>2. ks[nextId + keystones] = added[keystones + 1]
      BY <3>1, SMTT(20) DEF KeystoneBatch
    <3>. QED
      BY <2>1, <3>1, <3>2, Zenon DEF CM!NoKeystones
  <2>4. opens = CM!NoKeystones /\ trims = {}
    BY <1>1, Zenon DEF OutgoingFits
  <2>5. ks \in [OutId -> InKey \cup {NoKey}]
    BY <2>1, SMTT(20) DEF KeystoneBatch
  <2>. HIDE DEF ks
  <2>6. ASSUME NEW o \in CM!Ids(ks)
        PROVE  /\ o >= nextId
               /\ \A i \in nextId..o : opened[i] # NoKey \/ i \in CM!Ids(ks)
               /\ outgoing[ks[o]] = CM!NoOut /\ ks[o] \notin commits
               /\ \A i \in CM!Ids(ks) : ks[i] = ks[o] => i = o
               /\ \A r \in deletes : r.out # o
    <3>1. \A i \in CM!Ids(ks) :
             /\ i \in OutId /\ i >= nextId /\ i - nextId + 1 \in 1..Len(added) /\ ~(i - nextId + 1 <= keystones)
             /\ ks[i] = added[i - nextId + 1] /\ ks[i] \in InKey /\ Queued(ks[i])
      BY BatchFacts, Zenon DEF CM!Ids, ks
    <3>2. \A i \in nextId..o : opened[i] # NoKey \/ i \in CM!Ids(ks)
      <4>. SUFFICES ASSUME NEW i \in nextId..o, ks[i] = NoKey
                    PROVE  opened[i] # NoKey
        BY <2>1, <3>1, SMTT(20) DEF CM!Ids, CM!OutId
      <4>1. i \in OutId /\ i >= nextId /\ i - nextId + 1 \in 1..Len(added)
        BY <2>1, <3>1, SMTT(20) DEF CM!OutId
      <4>2. i - nextId + 1 <= keystones
        BY <2>1, <4>1, BatchFacts, SMTT(20) DEF ks
      <4>3. opened[i] = added[i - nextId + 1]
        BY <1>1, <4>1, <4>2, Zenon DEF KeystonesFit
      <4>. QED
        BY <2>1, <4>1, <4>3, Zenon
    <3>3. outgoing[ks[o]] = CM!NoOut
      <4>. SUFFICES ASSUME outgoing[ks[o]] # CM!NoOut
                    PROVE  FALSE
        BY SMTT(20)
      <4>. DEFINE p == outgoing[ks[o]]
      <4>1. p \in OutId /\ opened[p] = ks[o] /\ keystoneBkt[p] = ks[o]
        BY <3>1, SMTT(20) DEF CM!IInv, CM!TypeOK, CM!IndexesAgree, CM!MemoryIsDurable
      <4>. HIDE DEF p
      <4>2. p >= nextId
        BY <3>1, <4>1, QueuedKeystone, Zenon
      <4>3. p - nextId + 1 <= keystones /\ added[p - nextId + 1] = ks[o]
        BY <1>1, <3>1, <4>1, <4>2, Zenon DEF KeystonesFit
      <4>4. p - nextId + 1 \in 1..Len(added) /\ p - nextId + 1 # o - nextId + 1
        BY <1>2, <2>1, <3>1, <4>1, <4>2, <4>3, SMTT(20)
      <4>. QED
        BY <2>2, <3>1, <4>3, <4>4, SMTT(20)
    <3>4. ks[o] \notin commits
      <4>1. \A k \in commits : Routing(k)
        BY SMTT(20) DEF IncomingFits, Routing
      <4>. QED
        BY <3>1, <4>1, Zenon DEF AddsInTransit
    <3>5. ASSUME NEW i \in CM!Ids(ks), ks[i] = ks[o]
          PROVE  i = o
      <4>1. i - nextId + 1 = o - nextId + 1
        BY <2>2, <3>1, <3>5, Zenon
      <4>. QED
        BY <2>1, <3>1, <4>1, SMTT(20)
    <3>6. \A r \in deletes : r.out # o
      BY <2>1, <3>1, SMTT(20) DEF CM!IInv, CM!CallsFit, CM!OutId, CM!NoOut
    <3>. QED
      BY <3>1, <3>2, <3>3, <3>4, <3>5, <3>6, Zenon
  <2>7. CM!MayOpen(ks)
    BY <2>3, <2>4, <2>6, Zenon DEF CM!MayOpen
  <2>. QED
    BY <1>2, <2>5, <2>7, Zenon DEF CM!Next
<1>3. CASE UNCHANGED mapVars
  BY <1>3, Zenon DEF CM!vars, mapVars, circuits
<1>. QED
  BY <1>2, <1>3, Zenon DEF OpenCircuits

\* The outgoing link signs for HTLCs whose keystones are open.
LEMMA SignIsAllowed ==
  ASSUME IInv, SignOut
  PROVE  [CM!Next]_(CM!vars)
<1>. USE DEF IInv, LinksFit
<1>1. /\ atOut = "signing" /\ nextId' = nextId + Len(added) /\ UNCHANGED circuits
  BY Zenon DEF SignOut
<1>2. /\ keystones = Len(added) /\ linkOut # "down" /\ opens = CM!NoKeystones /\ trims = {}
      /\ nextId + Len(added) <= MaxOut + 1 /\ added # <<>>
  BY <1>1, SMTT(20) DEF OutgoingFits
<1>3. added \in Seq(InKey) /\ Len(added) \in Nat \ {0} /\ nextId \in Nat
  BY <1>2, SMTT(20) DEF TypeOK, CM!IInv, CM!TypeOK
<1>4. \A o \in nextId..((nextId + Len(added)) - 1) : opened[o] # NoKey
  <2>. SUFFICES ASSUME NEW o \in nextId..((nextId + Len(added)) - 1)
                PROVE  opened[o] # NoKey
    BY SMTT(20)
  <2>1. o \in OutId /\ o >= nextId /\ o - nextId + 1 \in 1..Len(added)
    BY <1>2, <1>3, SMTT(20) DEF CM!OutId
  <2>2. o - nextId + 1 <= keystones
    BY <1>2, <2>1, SMTT(20)
  <2>3. opened[o] = added[o - nextId + 1]
    BY <1>2, <2>1, <2>2, SMTT(20) DEF KeystonesFit
  <2>4. added[o - nextId + 1] \in InKey
    BY <1>3, <2>1, SMTT(20)
  <2>. QED
    BY <2>3, <2>4, Zenon
<1>5. nextId + Len(added) \in (nextId + 1)..(MaxOut + 1) /\ nextId + Len(added) \in 1..(MaxOut + 1)
  BY <1>2, <1>3, SMTT(20)
<1>6. CM!Sign(nextId + Len(added))
  <2>1. CM!MaySign(nextId + Len(added))
    BY <1>2, <1>4, <1>5, Zenon DEF CM!MaySign
  <2>2. UNCHANGED <<CM!memory, CM!disk, CM!calls>>
    BY <1>1, Zenon DEF circuits, CM!memory, CM!disk, CM!calls
  <2>. QED
    BY <1>1, <2>1, <2>2, Zenon DEF CM!Sign
<1>. QED
  BY <1>5, <1>6, Zenon DEF CM!Next

\* Start trims when no keystones are being opened, and RunOut finishes the trim.
LEMMA TrimIsAllowed ==
  ASSUME IInv, StartOut \/ RunOut
  PROVE  [CM!Next]_(CM!vars)
<1>. USE DEF IInv, LinksFit
<1>1. CASE StartOut
  <2>1. linkOut = "down" /\ CM!TrimMemory(nextId)
    BY <1>1, Zenon DEF StartOut
  <2>2. opens = CM!NoKeystones /\ trims = {}
    BY <2>1, SMTT(20) DEF OutgoingFits
  <2>. QED
    BY <2>1, <2>2, Zenon DEF CM!Next
<1>2. CASE RunOut
  <2>1. CM!TrimDisk
    BY <1>2, Zenon DEF RunOut
  <2>2. CASE trims # {}
    BY <2>1, <2>2, Zenon DEF CM!Next
  <2>3. CASE trims = {}
    <3>1. CM!Cut(keystoneBkt, {}) = keystoneBkt
      BY Zenon DEF CM!Cut, CM!IInv, CM!TypeOK
    <3>. QED
      BY <2>1, <2>3, <3>1, Zenon DEF CM!TrimDisk, CM!vars, CM!memory
  <2>. QED
    BY <2>2, <2>3, Zenon
<1>. QED
  BY <1>1, <1>2, SMTT(20)

\* Every step of the links and the switch is a step of the circuit map, or leaves it
\* alone.
LEMMA MapStep ==
  ASSUME IInv, [Next]_vars
  PROVE  [CM!Next]_(CM!vars)
<1>1. CASE UNCHANGED mapVars
  BY <1>1, Zenon DEF mapVars, circuits, CM!vars
<1>2. ASSUME NEW k \in InKey, WriteCircuit(k)
      PROVE  [CM!Next]_(CM!vars)
  BY <1>2, Zenon DEF WriteCircuit, CM!Next
<1>3. CASE AckDownStreamPackets
  <2>1. atIn.for \in SUBSET InKey
    BY Zenon DEF IInv, LinksFit, TypeOK
  <2>. QED
    BY <1>3, <2>1, Zenon DEF AckDownStreamPackets, CM!Next
<1>4. CASE DeleteFails
  BY <1>4, Zenon DEF DeleteFails, CM!Next
<1>5. CASE IndexCircuits \/ Restart
  BY <1>5, Zenon DEF IndexCircuits, Restart, CM!Next
<1>6. ASSUME NEW r \in responses, HandleResponse(r), ~UNCHANGED mapVars
      PROVE  [CM!Next]_(CM!vars)
  <2>1. r.out \in OutId
    BY Zenon DEF IInv, LinksFit, TypeOK
  <2>. QED
    BY <1>6, <2>1, Zenon DEF HandleResponse, CM!Next
<1>7. ASSUME NEW k \in InKey, HandleFailure(k), ~UNCHANGED mapVars
      PROVE  [CM!Next]_(CM!vars)
  BY <1>7, Zenon DEF HandleFailure, CM!Next
<1>8. ASSUME Next, ~UNCHANGED mapVars
      PROVE  \/ \E k \in InKey : CommitCircuits(k) \/ WriteCircuit(k) \/ HandleFailure(k)
             \/ DeleteCircuits \/ AckDownStreamPackets \/ DeleteFails
             \/ OpenCircuits \/ IndexCircuits \/ SignOut \/ StartOut \/ RunOut
             \/ \E r \in responses : HandleResponse(r)
             \/ Restart
  BY <1>8, Zenon DEF Next, LockIn, ResolveFwdPkg, HasPacket, RouteAbort, HandleAdd, HandleAnswer,
     Compact, SignAdds, SignIn, RevokeIn, StopIn, ExitIn, StartIn, HandleDownstreamAdd, NoWindow,
     ReceiveSettle, LockInResponse, StopOut, ExitOut, DropResponse, AckTick, Expire
<1>. QED
  BY <1>1, <1>2, <1>3, <1>4, <1>5, <1>6, <1>7, <1>8, CommitIsAllowed, DeleteIsAllowed,
     OpenIsAllowed, SignIsAllowed, TrimIsAllowed, Zenon DEF vars

-----------------------------------------------------------------------------
(* The circuit map.                                                        *)

P == INSTANCE CircuitMapProofs

\* The invariant of the circuit map, as the module of its proofs states it.
LEMMA SameInvariant == P!IInv <=> CM!IInv
<1>. USE DEF P!OutId, CM!OutId, P!NoOut, CM!NoOut, P!Ids, CM!Ids, P!NoKeystones, CM!NoKeystones,
         P!Removed, CM!Removed
<1>1. P!TypeOK <=> CM!TypeOK
  BY Zenon DEF P!TypeOK, CM!TypeOK
<1>2. P!IndexesAgree <=> CM!IndexesAgree
  BY Zenon DEF P!IndexesAgree, CM!IndexesAgree
<1>3. P!MemoryIsDurable <=> CM!MemoryIsDurable
  BY Zenon DEF P!MemoryIsDurable, CM!MemoryIsDurable
<1>4. P!NoStrayKeystone <=> CM!NoStrayKeystone
  BY Zenon DEF P!NoStrayKeystone, CM!NoStrayKeystone
<1>5. P!OneKeystonePerCircuit <=> CM!OneKeystonePerCircuit
  BY Zenon DEF P!OneKeystonePerCircuit, CM!OneKeystonePerCircuit
<1>6. P!NoDisjointSegments <=> CM!NoDisjointSegments
  BY Zenon DEF P!NoDisjointSegments, CM!NoDisjointSegments
<1>7. P!CallsFit <=> CM!CallsFit
  BY Zenon DEF P!CallsFit, CM!CallsFit
<1>8. P!KeystonesAccounted <=> CM!KeystonesAccounted
  BY Zenon DEF P!KeystonesAccounted, CM!KeystonesAccounted
<1>. QED
  BY <1>1, <1>2, <1>3, <1>4, <1>5, <1>6, <1>7, <1>8, Zenon DEF P!IInv, CM!IInv

\* NewCircuitMap, as that module states it.
LEMMA SameRestart == P!NewCircuitMap <=> CM!NewCircuitMap
  BY Zenon DEF P!NewCircuitMap, CM!NewCircuitMap, P!OutId, CM!OutId, P!NoOut, CM!NoOut, P!NoKeystones,
         CM!NoKeystones, P!Trimmed, CM!Trimmed, P!RestoredOpened, CM!RestoredOpened, P!Cut, CM!Cut,
         P!Unbound, CM!Unbound, P!RestoredOutgoing, CM!RestoredOutgoing, P!Bound, CM!Bound

\* The steps of the circuit map, as that module states them.
LEMMA SameSteps == [CM!Next]_CM!vars => [P!Next]_P!vars
<1>. USE DEF P!OutId, CM!OutId, P!NoOut, CM!NoOut, P!Ids, CM!Ids, P!NoKeystones, CM!NoKeystones,
         P!Bound, CM!Bound, P!Known, CM!Known, P!memory, CM!memory, P!disk, CM!disk, P!calls, CM!calls
<1>1. ASSUME NEW k \in InKey, CM!MayCommit(k), CM!CommitMemory(k)
      PROVE  P!MayCommit(k) /\ P!CommitMemory(k)
  BY <1>1, Zenon DEF P!MayCommit, CM!MayCommit, P!CommitMemory, CM!CommitMemory, P!CommitAction,
         CM!CommitAction
<1>2. ASSUME NEW k \in InKey
      PROVE  /\ CM!CommitDisk(k) => P!CommitDisk(k)
             /\ CM!CommitFails(k) => P!CommitFails(k)
             /\ CM!FailResult(k) = "ok" /\ CM!MarkClosed(k) =>
                   P!FailResult(k) = "ok" /\ P!MarkClosed(k)
  BY Zenon DEF P!CommitDisk, CM!CommitDisk, P!CommitFails, CM!CommitFails, P!FailResult,
         CM!FailResult, P!MarkClosed, CM!MarkClosed
<1>3. ASSUME NEW ks \in [CM!OutId -> InKey \cup {NoKey}], CM!MayOpen(ks), CM!OpenDisk(ks)
      PROVE  P!MayOpen(ks) /\ P!OpenDisk(ks)
  BY <1>3, Zenon DEF P!MayOpen, CM!MayOpen, P!OpenDisk, CM!OpenDisk, P!OpenAccepted,
         CM!OpenAccepted, P!Written, CM!Written
<1>4. CM!OpenMemory => P!OpenMemory
  BY Zenon DEF P!OpenMemory, CM!OpenMemory
<1>5. ASSUME NEW n \in 1..(MaxOut + 1), CM!Sign(n)
      PROVE  P!Sign(n)
  BY <1>5, Zenon DEF P!Sign, CM!Sign, P!MaySign, CM!MaySign
<1>6. ASSUME NEW o \in CM!OutId, CM!CloseResult(o) = "ok", CM!MarkClosed(opened[o])
      PROVE  P!CloseResult(o) = "ok" /\ P!MarkClosed(opened[o])
  BY <1>6, Zenon DEF P!CloseResult, CM!CloseResult, P!MarkClosed, CM!MarkClosed
<1>7. ASSUME NEW K \in SUBSET InKey
      PROVE  /\ CM!MayDelete(K) /\ CM!DeleteMemory(K) => P!MayDelete(K) /\ P!DeleteMemory(K)
             /\ CM!DeleteDisk(K) => P!DeleteDisk(K)
  BY Zenon DEF P!MayDelete, CM!MayDelete, P!DeleteMemory, CM!DeleteMemory, P!DeleteDisk,
         CM!DeleteDisk, P!RemovedCircuit, CM!RemovedCircuit
<1>8. ASSUME NEW r \in deletes, CM!DeleteFails(r)
      PROVE  P!DeleteFails(r)
  BY <1>8, Zenon DEF P!DeleteFails, CM!DeleteFails
<1>9. /\ CM!TrimMemory(nextId) => P!TrimMemory(nextId)
      /\ CM!TrimDisk => P!TrimDisk
  BY Zenon DEF P!TrimMemory, CM!TrimMemory, P!TrimDisk, CM!TrimDisk, P!Trimmed, CM!Trimmed, P!Cut,
         CM!Cut, P!Unbound, CM!Unbound
<1>10. UNCHANGED CM!vars => UNCHANGED P!vars
  BY Zenon DEF P!vars, CM!vars
<1>. QED
  BY <1>1, <1>2, <1>3, <1>4, <1>5, <1>6, <1>7, <1>8, <1>9, <1>10, SameRestart, Zenon
     DEF P!Next, CM!Next

\* A step that the circuit map allows keeps the map's invariant.
LEMMA CircuitStep ==
  ASSUME CM!IInv, [CM!Next]_CM!vars
  PROVE  CM!IInv'
<1>1. P!IInv'
  BY SameInvariant, SameSteps, P!NextIInv, HtlcForwardingAssumption, SMTT(20)
<1>2. P!IInv' <=> CM!IInv'
  BY SameInvariant, PTL
<1>. QED
  BY <1>1, <1>2, Zenon

-----------------------------------------------------------------------------
(* The links and the switch.                                               *)

\* The channels, the links and the circuit map start empty.
LEMMA InitIInv == Init => IInv
<1>. SUFFICES ASSUME Init
              PROVE  IInv
  BY SMTT(20)
<1>1. CM!IInv
  <2>1. P!Init
    BY Zenon DEF Init, CM!Init, P!Init, CM!OutId, P!OutId, CM!NoOut, P!NoOut, CM!NoCircuits,
       P!NoCircuits, CM!NoKeystones, P!NoKeystones
  <2>. QED
    BY <2>1, P!InitIInv, SameInvariant, HtlcForwardingAssumption, SMTT(20)
<1>2. /\ nextId = 0 /\ opens = CM!NoKeystones /\ trims = {} /\ commits = {} /\ deletes = {}
      /\ keystoneBkt = CM!NoKeystones /\ opened = CM!NoKeystones
      /\ \A o \in CM!OutId : ~(o < 0) /\ o \in Nat /\ ~(o - 0 + 1 <= 0)
  BY HtlcForwardingAssumption, SMTT(20) DEF Init, CM!Init, CM!OutId
<1>3. NoAnswers \in [InKey -> Answers] /\ \A j \in InKey : NoAnswers[j] = None
  BY SMTT(20) DEF NoAnswers, None, Answers, AnswerTypes
<1>4. /\ mailOut = <<>> /\ added = <<>> /\ Len(mailOut) = 0 /\ Len(added) = 0 /\ 1..0 = {}
      /\ mailOut \in Seq(InKey)
  BY SMTT(20) DEF Init
<1>5. TypeOK
  <2>1. /\ atIn \in [at : {"idle"}, for : SUBSET InKey] /\ atIn.at = "idle"
        /\ keystones \in 0..Len(added) /\ delivered \in Len(added)..Len(mailOut)
    BY <1>4, SMTT(20) DEF Init, Idle
  <2>2. /\ outKey \in [OutId -> InKey \cup {NoKey}]
        /\ outHtlc \in [OutId -> {"none", "live", "settling", "revealed", "settle", "fail"}]
        /\ incoming \in [InKey -> {"new", "locked", "settle", "fail"}]
    BY Zenon DEF Init
  <2>3. answers \in [InKey -> Answers] /\ mailIn \in [InKey -> Answers] /\ added \in Seq(InKey)
    BY <1>3, <1>4, Zenon DEF Init
  <2>. QED
    BY <1>4, <2>1, <2>2, <2>3, Zenon DEF Init, TypeOK
<1>6. AddsInTransit
  <2>1. \A j \in InKey : ~Queued(j) /\ ~Routing(j)
    BY <1>4, SMTT(20) DEF Init, Queued, Routing, Idle
  <2>. QED
    BY <2>1, Zenon DEF Init, AddsInTransit
<1>7. IncomingFits
  BY <1>2, SMTT(20) DEF Init, IncomingFits, Idle
<1>8. OutgoingFits
  BY <1>2, <1>4, HtlcForwardingAssumption, SMTT(20) DEF Init, OutgoingFits
<1>9. KeystonesFit
  BY <1>2, Zenon DEF Init, KeystonesFit, CM!NoKeystones
<1>10. OutgoingOpen
  BY <1>2, Zenon DEF Init, OutgoingOpen
<1>11. AnswersFit
  BY <1>3, SMTT(20) DEF Init, AnswersFit
<1>12. OfferedOnce /\ AnswersAgree
  BY SMTT(20) DEF Init, OfferedOnce, AnswersAgree, SettledIsPaid
<1>. QED
  BY <1>1, <1>5, <1>6, <1>7, <1>8, <1>9, <1>10, <1>11, <1>12, SMTT(20) DEF IInv, LinksFit

\* Every step keeps the invariant.
LEMMA NextIInv ==
  ASSUME IInv, [Next]_vars, ExpiresOpen = FALSE
  PROVE  IInv'
<1>1. CM!IInv'
  BY MapStep, CircuitStep, SMTT(20) DEF IInv
<1>2. CASE UNCHANGED vars
  <2>. USE <1>2 DEF IInv, LinksFit, vars, mapVars, circuits, chanIn, memIn, switch, chanOut, memOut
  <2>1. TypeOK'
    BY SMTT(20) DEF TypeOK
  <2>2. AddsInTransit'
    BY AddsFrame, Zenon DEF Routing
  <2>3. IncomingFits' /\ OutgoingFits' /\ KeystonesFit' /\ OutgoingOpen'
    BY IncomingFrame, OutgoingFrame, KeystonesFrame, OpenFrame, Zenon
  <2>. QED
    BY <1>1, <2>1, <2>2, <2>3, AnswersFrame, AgreeFrame, SMTT(20)
<1>3. ASSUME NEW k \in InKey,
             \/ LockIn(k) \/ ResolveFwdPkg(k) \/ HasPacket(k) \/ CommitCircuits(k)
             \/ WriteCircuit(k) \/ RouteAbort(k) \/ HandleAdd(k) \/ HandleAnswer(k)
             \/ Compact(k) \/ HandleFailure(k)
      PROVE  LinksFit'
  BY <1>3, LockInStep, ResolveFwdPkgStep, HasPacketStep, CommitCircuitsStep, WriteCircuitStep,
     RouteAbortStep, HandleAddStep, HandleAnswerStep, CompactStep, HandleFailureStep, Zenon
<1>4. ASSUME SignAdds \/ SignIn \/ DeleteCircuits \/ AckDownStreamPackets \/ DeleteFails \/ RevokeIn
             \/ StopIn \/ ExitIn \/ StartIn
      PROVE  LinksFit'
  BY <1>4, SignAddsStep, SignInStep, DeleteCircuitsStep, AckDownStreamPacketsStep, DeleteFailsStep,
     RevokeInStep, StopInStep, ExitInStep, StartInStep, Zenon
<1>5. ASSUME HandleDownstreamAdd \/ OpenCircuits \/ IndexCircuits \/ SignOut \/ NoWindow
             \/ StopOut \/ ExitOut \/ StartOut \/ RunOut
      PROVE  LinksFit'
  BY <1>5, HandleDownstreamAddStep, OpenCircuitsStep, IndexCircuitsStep, SignOutStep, NoWindowStep,
     StopOutStep, ExitOutStep, StartOutStep, RunOutStep, Zenon
<1>6. ASSUME NEW o \in OutId, ReceiveSettle(o) \/ LockInResponse(o)
      PROVE  LinksFit'
  BY <1>6, ReceiveSettleStep, LockInResponseStep, Zenon
<1>7. ASSUME NEW r \in responses, DropResponse(r) \/ HandleResponse(r)
      PROVE  LinksFit'
  BY <1>7, DropResponseStep, HandleResponseStep, Zenon
<1>8. ASSUME AckTick \/ Expire \/ Restart
      PROVE  LinksFit'
  BY <1>1, <1>8, AckTickStep, ExpireStep, RestartStep, Zenon
<1>. QED
  BY <1>1, <1>2, <1>3, <1>4, <1>5, <1>6, <1>7, <1>8, Zenon DEF Next, IInv

\* The invariant is one: every reachable state has the adds, the answers and the
\* keystones where it says.
THEOREM InvariantTheorem ==
  ASSUME ExpiresOpen = FALSE
  PROVE  Spec => []IInv
  BY InitIInv, NextIInv, PTL DEF Spec

\* An incoming HTLC is offered to the outgoing peer once, however often resolveFwdPkgs
\* forwards its add again.
THEOREM OfferedOnceTheorem ==
  ASSUME ExpiresOpen = FALSE
  PROVE  Spec => []OfferedOnce
<1>1. IInv => OfferedOnce
  BY SMTT(20) DEF IInv, LinksFit
<1>. QED
  BY <1>1, InvariantTheorem, PTL

\* An incoming HTLC is settled only if the outgoing peer revealed the preimage, and is
\* failed only if no outgoing HTLC can still be settled, whichever response, failure or
\* resent add the links and the switch handle first.
THEOREM AnswersAgreeTheorem ==
  ASSUME ExpiresOpen = FALSE
  PROVE  Spec => []AnswersAgree
<1>1. IInv => AnswersAgree
  BY SMTT(20) DEF IInv, LinksFit
<1>. QED
  BY <1>1, InvariantTheorem, PTL

\* What the first half says by itself: SettleHTLC is called on the incoming channel only
\* with a preimage that the outgoing peer has revealed.
THEOREM SettledIsPaidTheorem ==
  ASSUME ExpiresOpen = FALSE
  PROVE  Spec => []SettledIsPaid
<1>1. AnswersAgree => SettledIsPaid
  BY SMTT(20) DEF AnswersAgree
<1>. QED
  BY <1>1, AnswersAgreeTheorem, PTL

\* An outgoing HTLC has its circuit and its keystone in the database until updateCommitTx
\* has signed for the removal of the incoming one.
THEOREM CircuitOutlivesTheorem ==
  ASSUME ExpiresOpen = FALSE
  PROVE  Spec => []CircuitOutlivesHtlc
<1>1. IInv => CircuitOutlivesHtlc
  BY SMTT(20) DEF IInv, LinksFit, OutgoingOpen, CircuitOutlivesHtlc, CM!IInv, CM!MemoryIsDurable, CM!NoStrayKeystone
<1>. QED
  BY <1>1, InvariantTheorem, PTL

\* A response is acked in the SettleFailFilter only once the incoming HTLC has its answer
\* signed, be it by updateCommitTx, by cleanupSpuriousResponse or by the ack ticker.
THEOREM AckedTheorem ==
  ASSUME ExpiresOpen = FALSE
  PROVE  Spec => []AckedIsAnswered
<1>1. IInv => AckedIsAnswered
  BY SMTT(20) DEF IInv, LinksFit, AnswersFit, AckedIsAnswered, IsAnswered
<1>. QED
  BY <1>1, InvariantTheorem, PTL

\* The links and the switch implement the client of the circuit map: each of their calls
\* is one that the client rules of CircuitMap allow.
THEOREM RefinementTheorem ==
  ASSUME ExpiresOpen = FALSE
  PROVE  Spec => UsesCircuitMap
<1>1. Init => CM!Init
  BY SMTT(20) DEF Init
<1>2. IInv /\ [Next]_vars => [CM!Next]_(CM!vars)
  BY MapStep, SMTT(20)
<1>. QED
  BY <1>1, <1>2, InvariantTheorem, PTL DEF Spec, UsesCircuitMap, CM!Spec

\* CommitCircuits fails an add back only if no HTLC was offered for it, or the one that
\* was is failed: the comment at its "safe to send back a failure" is right as long as
\* no mailbox fails an add whose keystone is stored.
THEOREM FailIsSafeTheorem ==
  ASSUME ExpiresOpen = FALSE
  PROVE  Spec => []FailIsSafe
<1>1. ASSUME IInv, NEW k \in InKey, atIn = [at |-> "commit", for |-> {k}], CM!CommitAction(k) = "fail"
      PROVE  Forwarded(k) = {}
  <2>1. pending[k] = "disk" /\ outgoing[k] = CM!NoOut
    BY <1>1, Zenon DEF IInv, CM!CommitAction, CM!IInv, CM!TypeOK
  <2>2. incoming[k] = "locked"
    BY <1>1, SMTT(20) DEF IInv, LinksFit, IncomingFits
  <2>. QED
    BY <1>1, <2>1, <2>2, NotForwarded, SMTT(20)
<1>2. IInv => FailIsSafe
  BY <1>1, SMTT(20) DEF FailIsSafe
<1>. QED
  BY <1>2, InvariantTheorem, PTL
=============================================================================
