------------------------- MODULE IncomingLinkProofs -------------------------
(***************************************************************************)
(* What each step of the incoming link does to the inductive invariant of  *)
(* HtlcForwarding: from the commitment that locks an add in to the removal *)
(* of its forwarding package.                                              *)
(***************************************************************************)
EXTENDS HtlcForwarding, TLAPS

USE HtlcForwardingAssumption DEF OutId

-----------------------------------------------------------------------------
(* The mailbox of the outgoing link.                                       *)

\* What is left of a sequence without its first n elements.
LEMMA Rest ==
  ASSUME NEW S, NEW s \in Seq(S), NEW n \in 0..Len(s)
  PROVE  LET t == SubSeq(s, n + 1, Len(s))
         IN  /\ t \in Seq(S) /\ Len(t) = Len(s) - n
             /\ \A i \in 1..(Len(s) - n) : t[i] = s[i + n]
  BY SMTT(20)

\* What two sequences make when one follows the other.
LEMMA Joined ==
  ASSUME NEW S, NEW a \in Seq(S), NEW b \in Seq(S)
  PROVE  /\ a \o b \in Seq(S) /\ Len(a \o b) = Len(a) + Len(b)
         /\ \A i \in 1..(Len(a) + Len(b)) : (a \o b)[i] = IF i <= Len(a) THEN a[i] ELSE b[i - Len(a)]
  BY SMTT(20)

\* What is left of a sequence without its n-th element.
LEMMA Removal ==
  ASSUME NEW S, NEW s \in Seq(S), NEW n \in 1..Len(s)
  PROVE  LET t == SubSeq(s, 1, n - 1) \o SubSeq(s, n + 1, Len(s))
         IN  /\ t \in Seq(S) /\ Len(t) = Len(s) - 1
             /\ \A i \in 1..(Len(s) - 1) : t[i] = IF i < n THEN s[i] ELSE s[i + 1]
<1>. DEFINE a == SubSeq(s, 1, n - 1)
            b == SubSeq(s, n + 1, Len(s))
<1>1. a \in Seq(S) /\ Len(a) = n - 1 /\ \A i \in 1..(n - 1) : a[i] = s[i]
  BY SMTT(20)
<1>2. b \in Seq(S) /\ Len(b) = Len(s) - n /\ \A i \in 1..(Len(s) - n) : b[i] = s[i + n]
  BY Rest, SMTT(20)
<1>. HIDE DEF a, b
<1>3. /\ a \o b \in Seq(S) /\ Len(a \o b) = Len(s) - 1
      /\ \A i \in 1..(Len(s) - 1) : (a \o b)[i] = IF i < n THEN a[i] ELSE b[i - n + 1]
  <2>1. /\ a \o b \in Seq(S) /\ Len(a \o b) = Len(a) + Len(b)
        /\ \A i \in 1..(Len(a) + Len(b)) : (a \o b)[i] = IF i <= Len(a) THEN a[i] ELSE b[i - Len(a)]
    BY <1>1, <1>2, Joined, Zenon
  <2>2. Len(a) + Len(b) = Len(s) - 1 /\ \A i \in 1..(Len(s) - 1) : (i <= Len(a) <=> i < n) /\ i - Len(a) = i - n + 1
    BY <1>1, <1>2, SMTT(20)
  <2>. QED
    BY <2>1, <2>2, Zenon
<1>4. ASSUME NEW i \in 1..(Len(s) - 1)
      PROVE  (a \o b)[i] = IF i < n THEN s[i] ELSE s[i + 1]
  <2>1. CASE i < n
    BY <1>1, <1>3, <2>1, SMTT(20)
  <2>2. CASE ~(i < n)
    <3>1. i - n + 1 \in 1..(Len(s) - n) /\ i - n + 1 + n = i + 1
      BY <2>2, SMTT(20)
    <3>. QED
      BY <1>2, <1>3, <2>2, <3>1, Zenon
  <2>. QED
    BY <2>1, <2>2, Zenon
<1>. QED
  BY <1>3, <1>4, Zenon DEF a, b

-----------------------------------------------------------------------------
(* What a step leaves alone.                                               *)

\* No add comes to be in transit.
LEMMA AddsFrame ==
  ASSUME AddsInTransit, UNCHANGED <<incoming, pending, mailIn, outKey, mailOut>>,
         failures' \subseteq failures, \A k \in InKey : Routing(k)' => Routing(k)
  PROVE  AddsInTransit'
<1>1. \A k \in InKey : (Queued(k)' <=> Queued(k)) /\ Forwarded(k)' = Forwarded(k)
  BY Zenon DEF Queued, Forwarded
<1>. QED
  BY <1>1, Zenon DEF AddsInTransit

\* The incoming link stays where it is.
LEMMA IncomingFrame ==
  ASSUME IncomingFits, UNCHANGED <<commits, deletes, pending, chanIn, memIn, mailIn>>
  PROVE  IncomingFits'
  BY Zenon DEF IncomingFits, chanIn, memIn, IsAnswered

\* The outgoing link stays where it is.
LEMMA OutgoingFrame ==
  ASSUME OutgoingFits, UNCHANGED <<mailOut, memOut, nextId, trims, opens>>
  PROVE  OutgoingFits'
  BY Zenon DEF OutgoingFits, memOut, KeystoneBatch

\* No keystone comes or goes.
LEMMA KeystonesFrame ==
  ASSUME KeystonesFit, UNCHANGED <<keystoneBkt, opened, nextId, outKey, mailOut, memOut>>
  PROVE  KeystonesFit'
  BY Zenon DEF KeystonesFit, memOut, Queued

\* The outgoing HTLCs and the answers of the incoming ones stay.
LEMMA OpenFrame ==
  ASSUME OutgoingOpen, UNCHANGED <<outKey, outHtlc, nextId, incoming, opened>>
  PROVE  OutgoingOpen'
  BY Zenon DEF OutgoingOpen

\* No answer and no response is on its way that was not before.
LEMMA AnswersFrame ==
  ASSUME AnswersFit, UNCHANGED <<mailIn, outKey, outHtlc, answers, incoming>>,
         responses' \subseteq responses, ackBatch' \cup outAcked' \subseteq ackBatch \cup outAcked
  PROVE  AnswersFit'
  BY SMTT(20) DEF AnswersFit, IsFor, IsAnswered, Forwarded

\* Neither the incoming nor the outgoing HTLCs change.
LEMMA AgreeFrame ==
  ASSUME OfferedOnce, AnswersAgree, UNCHANGED <<incoming, outKey, outHtlc>>
  PROVE  OfferedOnce' /\ AnswersAgree'
  BY SMTT(20) DEF OfferedOnce, AnswersAgree, SettledIsPaid, Forwarded

-----------------------------------------------------------------------------
(* The incoming link, up to the hand-over to the switch.                   *)

\* Facts about the outgoing side that a step of the incoming link keeps as they are.
LEMMA OutgoingSideFrame ==
  ASSUME LinksFit, UNCHANGED <<mapVars, outKey, memOut, mailOut>>
  PROVE  OutgoingFits' /\ KeystonesFit'
  BY OutgoingFrame, KeystonesFrame, Zenon DEF LinksFit, mapVars, circuits

\* updateCommitTx for adds of the peer.
LEMMA SignAddsStep ==
  ASSUME IInv, SignAdds
  PROVE  LinksFit'
<1>. USE DEF SignAdds, IInv, LinksFit, mapVars, circuits, memIn, switch, chanOut
<1>1. TypeOK'
  BY SMTT(20) DEF TypeOK, memOut
<1>2. IncomingFits'
  BY Zenon DEF IncomingFits, IsAnswered
<1>3. AddsInTransit'
  BY AddsFrame, Zenon DEF Routing
<1>. QED
  BY <1>1, <1>2, <1>3, OutgoingSideFrame, OpenFrame, AnswersFrame, AgreeFrame, Zenon

\* The HTLC that is locked in has no circuit, no answer and no outgoing HTLC.
LEMMA LockInStep ==
  ASSUME IInv, NEW k \in InKey, LockIn(k)
  PROVE  LinksFit'
<1>. USE DEF LockIn, IInv, LinksFit, mapVars, circuits, switch, chanOut
<1>1. TypeOK'
  BY Zenon DEF TypeOK, memOut
<1>2. IncomingFits'
  BY SMTT(20) DEF IncomingFits, IsAnswered, TypeOK, ReadyIn, Idle
<1>3. AddsInTransit'
  BY SMTT(20) DEF AddsInTransit, Routing, Queued, Forwarded, TypeOK
<1>4. OutgoingOpen'
  BY Zenon DEF OutgoingOpen, TypeOK
<1>5. AnswersFit'
  BY SMTT(20) DEF AnswersFit, IsFor, IsAnswered, Forwarded, TypeOK
<1>6. OfferedOnce' /\ AnswersAgree'
  BY SMTT(20) DEF OfferedOnce, AnswersAgree, SettledIsPaid, Forwarded, TypeOK
<1>. QED
  BY <1>1, <1>2, <1>3, <1>4, <1>5, <1>6, OutgoingSideFrame, Zenon

\* resolveFwdPkg takes up an add that is not answered.
LEMMA ResolveFwdPkgStep ==
  ASSUME IInv, NEW k \in InKey, ResolveFwdPkg(k)
  PROVE  LinksFit'
<1>. USE DEF ResolveFwdPkg, IInv, LinksFit, mapVars, circuits, switch, chanIn, chanOut
<1>1. TypeOK'
  BY Zenon DEF TypeOK, memOut
<1>2. IncomingFits'
  BY Zenon DEF IncomingFits, IsAnswered, Idle
<1>3. AddsInTransit'
  BY AddsFrame, Zenon DEF Routing
<1>. QED
  BY <1>1, <1>2, <1>3, OutgoingSideFrame, OpenFrame, AnswersFrame, AgreeFrame, Zenon

\* An add that gets past HasPacket has no answer in the mailbox.
LEMMA HasPacketStep ==
  ASSUME IInv, NEW k \in InKey, HasPacket(k)
  PROVE  LinksFit'
<1>. USE DEF HasPacket, IInv, LinksFit, mapVars, circuits, switch, chanIn, chanOut
<1>1. TypeOK'
  BY Zenon DEF TypeOK, memOut, Idle
<1>2. IncomingFits'
  BY Zenon DEF IncomingFits, IsAnswered, Idle
<1>3. AddsInTransit'
  BY AddsFrame, Zenon DEF Routing, Idle
<1>. QED
  BY <1>1, <1>2, <1>3, OutgoingSideFrame, OpenFrame, AnswersFrame, AgreeFrame, Zenon

\* An HTLC without an answer whose circuit has no keystone was not offered to the
\* outgoing peer.
LEMMA NotForwarded ==
  ASSUME IInv, NEW k \in InKey, incoming[k] = "locked",
         pending[k] = "none" \/ outgoing[k] = CM!NoOut
  PROVE  Forwarded(k) = {}
<1>. SUFFICES ASSUME NEW o \in OutId, outKey[o] = k
              PROVE  FALSE
  BY Zenon DEF Forwarded
<1>1. opened[o] = k
  BY Zenon DEF IInv, LinksFit, OutgoingOpen
<1>2. pending[k] # "none" /\ outgoing[k] = o
  BY <1>1, Zenon DEF IInv, CM!IInv, CM!IndexesAgree
<1>3. o # CM!NoOut
  BY SMTT(20) DEF CM!OutId, CM!NoOut
<1>. QED
  BY <1>2, <1>3, Zenon

\* An answer that is right may enter the mailbox.
LEMMA DeliverFits ==
  ASSUME LinksFit, NEW k \in InKey, NEW a \in Answers, IsFor(a, k), Deliver(k, a),
         UNCHANGED <<outKey, outHtlc, answers, incoming, outAcked>>, responses' \subseteq responses,
         \A o \in ackBatch' : o \in ackBatch \/ (outKey[o] # NoKey /\ IsAnswered(outKey[o]))
  PROVE  AnswersFit' /\ mailIn' \in [InKey -> Answers]
<1>1. mailIn' \in [InKey -> Answers]
  BY Zenon DEF Deliver, LinksFit, TypeOK
<1>2. \A j \in InKey : mailIn'[j] = mailIn[j] \/ (j = k /\ mailIn[j] = None /\ mailIn'[j] = a)
  BY Zenon DEF Deliver, LinksFit, TypeOK
<1>. QED
  BY <1>1, <1>2, SMTT(20) DEF LinksFit, AnswersFit, IsFor, IsAnswered, Forwarded

\* A failure by this node is right if the HTLC was not offered to the outgoing peer.
LEMMA FailFits ==
  ASSUME NEW k \in InKey, Forwarded(k) = {}
  PROVE  Answer("fail", CM!NoOut) \in Answers /\ IsFor(Answer("fail", CM!NoOut), k)
  BY Zenon DEF Answer, Answers, AnswerTypes, IsFor

\* CommitCircuits adds a circuit for an add that is nowhere else, and fails one that
\* was not offered to the outgoing peer.
LEMMA CommitCircuitsStep ==
  ASSUME IInv, NEW k \in InKey, CommitCircuits(k)
  PROVE  LinksFit'
<1>. USE DEF IInv, LinksFit, switch, chanIn, chanOut
<1>1. /\ incoming[k] = "locked" /\ atIn = [at |-> "commit", for |-> {k}]
      /\ UNCHANGED <<chanIn, linkIn, answers, unresolved, switch, chanOut, memOut, mailOut, faults>>
  BY Zenon DEF CommitCircuits, IncomingFits
<1>2. CASE /\ GoIn("idle") /\ UNCHANGED <<mapVars, mailIn>>
  <2>. USE <1>1, <1>2 DEF GoIn, mapVars, circuits
  <2>1. TypeOK'
    BY Zenon DEF TypeOK, memOut, Idle
  <2>2. IncomingFits'
    BY Zenon DEF IncomingFits, IsAnswered, Idle
  <2>3. AddsInTransit'
    BY AddsFrame, Zenon DEF Routing, Idle
  <2>. QED
    BY <2>1, <2>2, <2>3, OutgoingSideFrame, OpenFrame, AnswersFrame, AgreeFrame, Zenon
<1>3. CASE CM!CommitAction(k) = "add" /\ CM!CommitMemory(k) /\ GoIn("write") /\ UNCHANGED mailIn
  <2>1. pending[k] = "none"
    BY <1>3, Zenon DEF CM!CommitAction, CM!IInv, CM!TypeOK
  <2>2. Forwarded(k) = {} /\ mailIn[k] = None
    BY <1>1, <2>1, NotForwarded, Zenon DEF IncomingFits
  <2>3. /\ pending' = [pending EXCEPT ![k] = "mem"]
        /\ atIn' = [at |-> "write", for |-> {k}]
        /\ commits' = commits \cup {k}
        /\ UNCHANGED <<opened, keystoneBkt, opens, deletes, trims, nextId>>
    BY <1>1, <1>3, Zenon DEF GoIn, CM!CommitMemory, CM!disk
  <2>4. TypeOK'
    BY <1>1, <1>3, <2>3, Zenon DEF TypeOK, memOut
  <2>5. IncomingFits'
    BY <1>1, <1>3, <2>3, Zenon DEF IncomingFits, IsAnswered, Idle, TypeOK
  <2>6. AddsInTransit'
    <3>1. \A j \in InKey : /\ Queued(j)' <=> Queued(j)
                           /\ Forwarded(j)' = Forwarded(j)
                           /\ Routing(j)' <=> j = k
      BY <1>1, <2>3, Zenon DEF Queued, Forwarded, Routing
    <3>2. pending \in [InKey -> {"none", "mem", "disk"}]
      BY Zenon DEF CM!IInv, CM!TypeOK
    <3>. QED
      BY <1>1, <1>3, <2>1, <2>2, <2>3, <3>1, <3>2, Zenon DEF AddsInTransit
  <2>7. OutgoingFits' /\ KeystonesFit'
    BY <1>1, <2>3, OutgoingFrame, KeystonesFrame, Zenon
  <2>. QED
    BY <1>1, <1>3, <2>3, <2>4, <2>5, <2>6, <2>7, OpenFrame, AnswersFrame, AgreeFrame, Zenon
<1>4. CASE /\ CM!CommitAction(k) = "fail" /\ Deliver(k, Answer("fail", CM!NoOut))
           /\ GoIn("idle") /\ UNCHANGED mapVars
  <2>1. pending[k] = "disk" /\ outgoing[k] = CM!NoOut
    BY <1>4, Zenon DEF CM!CommitAction, CM!IInv, CM!TypeOK
  <2>2. AnswersFit' /\ mailIn' \in [InKey -> Answers]
    BY <1>1, <1>4, <2>1, NotForwarded, FailFits, DeliverFits, Zenon DEF AnswersFit
  <2>3. atIn' = Idle
    BY <1>4, Zenon DEF GoIn
  <2>4. TypeOK'
    BY <1>1, <1>4, <2>2, <2>3, Zenon DEF TypeOK, memOut, Idle
  <2>5. IncomingFits'
    BY <1>1, <1>4, <2>3, Zenon DEF IncomingFits, IsAnswered, Idle, mapVars, circuits
  <2>6. AddsInTransit'
    <3>1. \A j \in InKey : /\ Queued(j)' <=> Queued(j)
                           /\ Forwarded(j)' = Forwarded(j)
                           /\ ~Routing(j)'
      BY <1>1, <2>3, Zenon DEF Queued, Forwarded, Routing, Idle
    <3>2. \A j \in InKey : j # k => mailIn'[j] = mailIn[j]
      BY <1>4, Zenon DEF Deliver, TypeOK
    <3>. QED
      BY <1>1, <1>4, <2>1, <3>1, <3>2, Zenon DEF AddsInTransit, mapVars, circuits
  <2>. QED
    BY <1>1, <1>4, <2>2, <2>4, <2>5, <2>6, OutgoingSideFrame, OpenFrame, AgreeFrame, Zenon DEF mapVars, circuits
<1>. QED
  BY <1>2, <1>3, <1>4, Zenon DEF CommitCircuits

\* A circuit whose write fails was not offered to the outgoing peer.
LEMMA WriteCircuitStep ==
  ASSUME IInv, NEW k \in InKey, WriteCircuit(k)
  PROVE  LinksFit'
<1>. USE DEF IInv, LinksFit, switch, chanIn, chanOut
<1>1. /\ atIn = [at |-> "write", for |-> {k}]
      /\ UNCHANGED <<chanIn, linkIn, answers, unresolved, switch, chanOut, memOut, mailOut>>
  BY Zenon DEF WriteCircuit
<1>2. /\ Routing(k) /\ incoming[k] = "locked" /\ Forwarded(k) = {}
      /\ ~Queued(k) /\ k \notin failures
  BY <1>1, Zenon DEF Routing, AddsInTransit
<1>3. CASE CM!CommitDisk(k) /\ GoIn("route") /\ UNCHANGED mailIn
  <2>1. /\ atIn' = [at |-> "route", for |-> {k}]
        /\ commits' = commits \ {k}
        /\ UNCHANGED <<pending, opened, keystoneBkt, opens, deletes, trims, nextId>>
    BY <1>1, <1>3, Zenon DEF GoIn, CM!CommitDisk, CM!memory
  <2>2. TypeOK'
    BY <1>1, <1>3, <2>1, Zenon DEF TypeOK, memOut
  <2>3. IncomingFits'
    BY <1>1, <1>3, <2>1, Zenon DEF IncomingFits, IsAnswered, Idle, TypeOK
  <2>4. AddsInTransit'
    BY <1>1, <1>3, <2>1, AddsFrame, Zenon DEF Routing
  <2>5. OutgoingFits' /\ KeystonesFit'
    BY <1>1, <2>1, OutgoingFrame, KeystonesFrame, Zenon
  <2>. QED
    BY <1>1, <1>3, <2>1, <2>2, <2>3, <2>4, <2>5, OpenFrame, AnswersFrame, AgreeFrame, Zenon
<1>4. CASE CM!CommitFails(k) /\ Deliver(k, Answer("fail", CM!NoOut)) /\ GoIn("idle")
  <2>1. /\ atIn' = Idle
        /\ pending' = [pending EXCEPT ![k] = "none"]
        /\ commits' = commits \ {k}
        /\ UNCHANGED <<opened, keystoneBkt, opens, deletes, trims, nextId>>
    BY <1>4, Zenon DEF GoIn, CM!CommitFails, CM!disk
  <2>2. AnswersFit' /\ mailIn' \in [InKey -> Answers]
    BY <1>1, <1>2, <1>4, FailFits, DeliverFits, Zenon DEF AnswersFit
  <2>3. TypeOK'
    BY <1>1, <2>1, <2>2, Zenon DEF TypeOK, memOut, Idle
  <2>4. IncomingFits'
    BY <1>1, <2>1, Zenon DEF IncomingFits, IsAnswered, Idle
  <2>5. AddsInTransit'
    <3>1. \A j \in InKey : /\ Queued(j)' <=> Queued(j)
                           /\ Forwarded(j)' = Forwarded(j)
                           /\ ~Routing(j)'
      BY <1>1, <2>1, Zenon DEF Queued, Forwarded, Routing, Idle
    <3>2. \A j \in InKey : j # k => mailIn'[j] = mailIn[j] /\ pending'[j] = pending[j]
      BY <1>4, <2>1, Zenon DEF Deliver, TypeOK, CM!IInv, CM!TypeOK
    <3>. QED
      BY <1>1, <1>2, <3>1, <3>2, Zenon DEF AddsInTransit
  <2>6. OutgoingFits' /\ KeystonesFit'
    BY <1>1, <2>1, OutgoingFrame, KeystonesFrame, Zenon
  <2>. QED
    BY <1>1, <2>1, <2>2, <2>3, <2>4, <2>5, <2>6, OpenFrame, AgreeFrame, Zenon
<1>. QED
  BY <1>3, <1>4, Zenon DEF WriteCircuit

\* An add that routeAsync does not hand over is in no one's hands.
LEMMA RouteAbortStep ==
  ASSUME IInv, NEW k \in InKey, RouteAbort(k)
  PROVE  LinksFit'
<1>. USE DEF RouteAbort, GoIn, IInv, LinksFit, mapVars, circuits, switch, chanIn, chanOut
<1>1. TypeOK'
  BY Zenon DEF TypeOK, memOut, Idle
<1>2. IncomingFits'
  BY Zenon DEF IncomingFits, IsAnswered, Idle
<1>3. AddsInTransit'
  BY AddsFrame, Zenon DEF Routing, Idle
<1>. QED
  BY <1>1, <1>2, <1>3, OutgoingSideFrame, OpenFrame, AnswersFrame, AgreeFrame, Zenon

\* The add enters the outgoing link's mailbox, as the last and for the first time, or
\* is failed back.
LEMMA HandleAddStep ==
  ASSUME IInv, NEW k \in InKey, HandleAdd(k)
  PROVE  LinksFit'
<1>. USE DEF IInv, LinksFit, switch, chanIn, chanOut
<1>1. /\ atIn = [at |-> "route", for |-> {k}]
      /\ atIn' = Idle
      /\ UNCHANGED <<mapVars, chanIn, linkIn, answers, unresolved, switch, chanOut, memOut, faults>>
  BY Zenon DEF HandleAdd, GoIn
<1>2. /\ Routing(k) /\ incoming[k] = "locked" /\ Forwarded(k) = {} /\ pending[k] = "mem"
      /\ ~Queued(k) /\ k \notin failures /\ mailIn[k] = None
  BY <1>1, Zenon DEF Routing, AddsInTransit
<1>3. IncomingFits'
  BY <1>1, Zenon DEF IncomingFits, IsAnswered, Idle, mapVars, circuits
<1>4. CASE AddPacket(k) /\ UNCHANGED mailIn
  <2>1. mailOut' = Append(mailOut, k) /\ mailOut \in Seq(InKey)
    BY <1>2, <1>4, Zenon DEF AddPacket, TypeOK
  <2>2. /\ mailOut' \in Seq(InKey) /\ Len(mailOut') = Len(mailOut) + 1
        /\ mailOut'[Len(mailOut) + 1] = k
        /\ \A i \in 1..Len(mailOut) : mailOut'[i] = mailOut[i]
    BY <2>1, SMTT(20)
  <2>3. \A j \in InKey : Queued(j)' <=> Queued(j) \/ j = k
    BY <2>1, <2>2, SMTT(20) DEF Queued
  <2>4. TypeOK'
    <3>1. delivered \in Len(added)..Len(mailOut')
      BY <2>1, <2>2, SMTT(20) DEF TypeOK
    <3>2. atIn' \in [at : {"idle"}, for : SUBSET InKey]
      BY <1>1, Zenon DEF Idle
    <3>. QED
      BY <1>1, <1>4, <2>2, <3>1, <3>2, Zenon DEF TypeOK, memOut
  <2>5. AddsInTransit'
    <3>1. \A j \in InKey : Forwarded(j)' = Forwarded(j) /\ ~Routing(j)'
      BY <1>1, Zenon DEF Forwarded, Routing, Idle
    <3>. QED
      BY <1>1, <1>2, <1>4, <2>3, <3>1, Zenon DEF AddsInTransit, mapVars, circuits
  <2>6. OutgoingFits'
    <3>1. ASSUME NEW i \in 1..Len(mailOut'), NEW j \in 1..Len(mailOut'), mailOut'[i] = mailOut'[j]
          PROVE  i = j
      <4>1. \A m \in 1..Len(mailOut') : m \in 1..Len(mailOut) \/ m = Len(mailOut) + 1
        BY <2>1, <2>2, SMTT(20)
      <4>2. \A m \in 1..Len(mailOut) : mailOut'[m] # k
        BY <1>2, <2>2, Zenon DEF Queued
      <4>. QED
        BY <2>2, <3>1, <4>1, <4>2, Zenon DEF OutgoingFits
    <3>2. \A i \in 1..Len(added) : added[i] = mailOut'[i]
      <4>1. added \in Seq(InKey) /\ delivered \in Len(added)..Len(mailOut)
        BY Zenon DEF TypeOK
      <4>2. 1..Len(added) \subseteq 1..Len(mailOut)
        BY <2>1, <4>1, SMTT(20)
      <4>. QED
        BY <2>2, <4>2, Zenon DEF OutgoingFits
    <3>. QED
      BY <1>1, <3>1, <3>2, Zenon DEF OutgoingFits, memOut, mapVars, circuits, KeystoneBatch
  <2>7. KeystonesFit'
    BY <1>1, <2>3, Zenon DEF KeystonesFit, memOut, mapVars, circuits, CM!IInv, CM!TypeOK
  <2>. QED
    BY <1>1, <1>3, <1>4, <2>4, <2>5, <2>6, <2>7, OpenFrame, AnswersFrame, AgreeFrame, Zenon DEF mapVars, circuits
<1>5. CASE Deliver(k, Answer("fail", CM!NoOut)) /\ UNCHANGED mailOut
  <2>1. AnswersFit' /\ mailIn' \in [InKey -> Answers]
    BY <1>1, <1>2, <1>5, FailFits, DeliverFits, Zenon DEF AnswersFit
  <2>2. TypeOK'
    BY <1>1, <1>5, <2>1, Zenon DEF TypeOK, memOut, Idle
  <2>3. AddsInTransit'
    <3>1. \A j \in InKey : /\ Queued(j)' <=> Queued(j)
                           /\ Forwarded(j)' = Forwarded(j)
                           /\ ~Routing(j)'
      BY <1>1, <1>5, Zenon DEF Queued, Forwarded, Routing, Idle
    <3>2. \A j \in InKey : j # k => mailIn'[j] = mailIn[j]
      BY <1>5, Zenon DEF Deliver, TypeOK
    <3>. QED
      BY <1>1, <1>2, <1>5, <3>1, <3>2, Zenon DEF AddsInTransit, mapVars, circuits
  <2>. QED
    BY <1>1, <1>3, <1>5, <2>1, <2>2, <2>3, OutgoingSideFrame, OpenFrame, AgreeFrame, Zenon DEF mapVars, circuits
<1>. QED
  BY <1>4, <1>5, Zenon DEF HandleAdd

-----------------------------------------------------------------------------
(* The incoming link, from the answer on.                                  *)

\* Where the link is tells which calls on the circuit map it can be in.
LEMMA CallsOfLink ==
  ASSUME IncomingFits
  PROVE  /\ atIn.at # "write" => commits = {}
         /\ atIn.at \notin {"deleting", "cleaning", "restoring"} => deletes = {}
         /\ atIn.at # "idle" => linkIn # "down"
<1>1. \A k \in commits : atIn.at = "write"
  BY SMTT(20) DEF IncomingFits
<1>2. linkIn = "down" => atIn.at = "idle"
  BY SMTT(20) DEF IncomingFits, Idle
<1>. QED
  BY <1>1, <1>2, Zenon DEF IncomingFits

\* Answers leave the mailbox or are marked, and the link forgets answers.
LEMMA AnswersKept ==
  ASSUME AnswersFit, UNCHANGED <<outKey, outHtlc, incoming>>, responses' \subseteq responses,
         \A o \in ackBatch' \cup outAcked' : outKey[o] # NoKey /\ IsAnswered(outKey[o]),
         \A k \in InKey : mailIn'[k] # None =>
             mailIn[k] # None /\ mailIn'[k].type = mailIn[k].type /\ mailIn'[k].ref = mailIn[k].ref,
         \A k \in InKey : answers'[k] # None => answers'[k] = answers[k] /\ mailIn'[k] = mailIn[k]
  PROVE  AnswersFit'
<1>1. \A k \in InKey : mailIn'[k] # None => IsFor(mailIn[k], k)
  BY Zenon DEF AnswersFit
<1>2. \A k \in InKey : mailIn'[k] # None => IsFor(mailIn[k], k)'
  BY <1>1, SMTT(20) DEF IsFor, Forwarded
<1>3. ASSUME NEW k \in InKey, answers'[k] # None
      PROVE  /\ incoming'[k] = "locked" /\ mailIn'[k] # None /\ mailIn'[k].sent
             /\ mailIn'[k].type = answers'[k].type /\ mailIn'[k].ref = answers'[k].ref
  <2>1. answers'[k] = answers[k] /\ mailIn'[k] = mailIn[k] /\ incoming' = incoming
    BY <1>3, Zenon
  <2>2. /\ incoming[k] = "locked" /\ mailIn[k] # None /\ mailIn[k].sent
        /\ mailIn[k].type = answers[k].type /\ mailIn[k].ref = answers[k].ref
    BY <1>3, <2>1, Zenon DEF AnswersFit
  <2>. QED
    BY <2>1, <2>2, Zenon
<1>4. \A o \in ackBatch' \cup outAcked' : outKey'[o] # NoKey /\ IsAnswered(outKey[o])'
  BY Zenon DEF IsAnswered
<1>. QED
  BY <1>2, <1>3, <1>4, Zenon DEF AnswersFit

\* The link takes an answer up, drops a second one, or cleans up after an HTLC that
\* is gone.
LEMMA HandleAnswerStep ==
  ASSUME IInv, NEW k \in InKey, HandleAnswer(k)
  PROVE  LinksFit'
<1>. USE DEF IInv, LinksFit, switch, chanIn, chanOut
<1>1. /\ linkIn = "up" /\ atIn = Idle /\ unresolved = {} /\ mailIn[k] # None /\ ~mailIn[k].sent
      /\ UNCHANGED <<mapVars, chanIn, linkIn, unresolved, switch, outKey, outHtlc, memOut, mailOut, faults>>
  BY Zenon DEF HandleAnswer, ReadyIn
<1>2. mailIn \in [InKey -> Answers] /\ answers \in [InKey -> Answers]
  BY Zenon DEF TypeOK
<1>3. IsFor(mailIn[k], k)
  BY <1>1, Zenon DEF AnswersFit
<1>4. CASE /\ incoming[k] = "locked" /\ answers[k] = None
           /\ answers' = [answers EXCEPT ![k] = mailIn[k]]
           /\ mailIn' = [mailIn EXCEPT ![k].sent = TRUE]
           /\ atIn' = [at |-> "sign", for |-> {}]
           /\ UNCHANGED outAcked
  <2>1. /\ mailIn' \in [InKey -> Answers] /\ answers' \in [InKey -> Answers]
        /\ \A j \in InKey : j # k => mailIn'[j] = mailIn[j] /\ answers'[j] = answers[j]
        /\ mailIn'[k].type = mailIn[k].type /\ mailIn'[k].ref = mailIn[k].ref
        /\ mailIn'[k].sent /\ mailIn'[k] # None /\ answers'[k] = mailIn[k]
    BY <1>2, <1>4, Zenon DEF Answers, None
  <2>2. TypeOK'
    BY <1>1, <1>4, <2>1, Zenon DEF TypeOK, memOut
  <2>3. IncomingFits'
    BY <1>1, <1>4, Zenon DEF IncomingFits, IsAnswered, Idle, mapVars, circuits
  <2>4. AddsInTransit'
    <3>1. \A j \in InKey : /\ Queued(j)' <=> Queued(j)
                           /\ Forwarded(j)' = Forwarded(j)
                           /\ ~Routing(j)'
      BY <1>1, <1>4, Zenon DEF Queued, Forwarded, Routing
    <3>. QED
      BY <1>1, <2>1, <3>1, Zenon DEF AddsInTransit, mapVars, circuits
  <2>5. AnswersFit'
    BY <1>1, <1>3, <1>4, <2>1, SMTT(20) DEF AnswersFit, IsFor, IsAnswered, Forwarded
  <2>. QED
    BY <1>1, <2>2, <2>3, <2>4, <2>5, OutgoingSideFrame, OpenFrame, AgreeFrame, Zenon DEF mapVars, circuits
<1>5. CASE /\ mailIn' = AckPackets({k}) /\ UNCHANGED <<answers, atIn, outAcked>>
  <2>1. /\ mailIn' \in [InKey -> Answers]
        /\ \A j \in InKey : mailIn'[j] = None \/ (j # k /\ mailIn'[j] = mailIn[j])
        /\ answers[k] = None
    BY <1>1, <1>2, <1>5, Zenon DEF AckPackets, Answers, None, AnswerTypes, CM!NoOut, AnswersFit
  <2>2. TypeOK'
    BY <1>1, <1>5, <2>1, Zenon DEF TypeOK, memOut
  <2>3. IncomingFits'
    BY <1>1, <1>5, Zenon DEF IncomingFits, IsAnswered, Idle, mapVars, circuits
  <2>4. AddsInTransit'
    <3>1. \A j \in InKey : /\ Queued(j)' <=> Queued(j)
                           /\ Forwarded(j)' = Forwarded(j)
                           /\ Routing(j)' <=> Routing(j)
      BY <1>1, <1>5, Zenon DEF Queued, Forwarded, Routing
    <3>. QED
      BY <1>1, <2>1, <3>1, Zenon DEF AddsInTransit, mapVars, circuits
  <2>5. AnswersFit'
    <3>1. \A j \in InKey : answers[j] # None => mailIn'[j] = mailIn[j]
      BY <1>2, <1>5, <2>1, Zenon DEF AckPackets
    <3>2. \A o \in ackBatch' \cup outAcked' : outKey[o] # NoKey /\ IsAnswered(outKey[o])
      BY <1>1, <1>5, Zenon DEF AnswersFit
    <3>. QED
      BY <1>1, <1>5, <2>1, <3>1, <3>2, AnswersKept, Zenon
  <2>. QED
    BY <1>1, <2>2, <2>3, <2>4, <2>5, OutgoingSideFrame, OpenFrame, AgreeFrame, Zenon DEF mapVars, circuits
<1>6. CASE /\ k \in compacted
           /\ outAcked' = outAcked \cup ({mailIn[k].ref} \ {CM!NoOut})
           /\ mailIn' = [mailIn EXCEPT ![k].sent = TRUE]
           /\ atIn' = [at |-> "clean", for |-> {k}]
           /\ UNCHANGED answers
  <2>1. /\ mailIn' \in [InKey -> Answers]
        /\ \A j \in InKey : j # k => mailIn'[j] = mailIn[j]
        /\ mailIn'[k].type = mailIn[k].type /\ mailIn'[k].ref = mailIn[k].ref
        /\ mailIn[k].ref \in OutId \cup {CM!NoOut}
    BY <1>2, <1>6, Zenon DEF Answers, None
  <2>2. IsAnswered(k) /\ answers[k] = None
    BY <1>6, Zenon DEF IncomingFits, IsAnswered, AnswersFit
  <2>3. TypeOK'
    BY <1>1, <1>6, <2>1, Zenon DEF TypeOK, memOut
  <2>4. IncomingFits'
    BY <1>1, <1>6, <2>2, Zenon DEF IncomingFits, IsAnswered, Idle, mapVars, circuits
  <2>5. AddsInTransit'
    <3>1. \A j \in InKey : /\ Queued(j)' <=> Queued(j)
                           /\ Forwarded(j)' = Forwarded(j)
                           /\ ~Routing(j)'
      BY <1>1, <1>6, Zenon DEF Queued, Forwarded, Routing
    <3>. QED
      BY <1>1, <2>1, <3>1, Zenon DEF AddsInTransit, mapVars, circuits
  <2>6. AnswersFit'
    <3>1. \A o \in outAcked' : outKey[o] # NoKey /\ IsAnswered(outKey[o])
      BY <1>3, <1>6, <2>2, SMTT(20) DEF AnswersFit, IsFor
    <3>. QED
      BY <1>1, <1>3, <1>6, <2>1, <2>2, <3>1, SMTT(20) DEF AnswersFit, IsFor, IsAnswered, Forwarded
  <2>. QED
    BY <1>1, <2>3, <2>4, <2>5, <2>6, OutgoingSideFrame, OpenFrame, AgreeFrame, Zenon DEF mapVars, circuits
<1>. QED
  BY <1>4, <1>5, <1>6, Zenon DEF HandleAnswer

\* updateCommitTx signs for answers that are right, and acks the responses they came
\* from.
LEMMA SignInStep ==
  ASSUME IInv, SignIn
  PROVE  LinksFit'
<1>. USE DEF IInv, LinksFit, switch, chanIn, chanOut
<1>1. /\ atIn.at \in {"sign", "idle"}
      /\ UNCHANGED <<mapVars, compacted, linkIn, unresolved, mailIn, switch, outKey, outHtlc, memOut, mailOut, faults>>
  BY SMTT(20) DEF SignIn, ReadyIn, Idle
<1>2. CASE GoIn("idle") /\ UNCHANGED <<incoming, sigIn, diffIn, answers, outAcked>>
  <2>1. atIn' = Idle
    BY <1>2, Zenon DEF GoIn
  <2>2. TypeOK'
    BY <1>1, <1>2, <2>1, Zenon DEF TypeOK, memOut, Idle
  <2>3. IncomingFits'
    BY <1>1, <1>2, <2>1, SMTT(20) DEF IncomingFits, IsAnswered, Idle, mapVars, circuits
  <2>4. AddsInTransit'
    BY <1>1, <1>2, <2>1, AddsFrame, Zenon DEF Routing, Idle, mapVars, circuits
  <2>. QED
    BY <1>1, <1>2, <2>2, <2>3, <2>4, OutgoingSideFrame, OpenFrame, AnswersFrame, AgreeFrame, Zenon DEF mapVars, circuits
<1>3. CASE /\ incoming' = [k \in InKey |-> IF k \in Answered THEN answers[k].type ELSE incoming[k]]
           /\ sigIn' = "signed" /\ diffIn' = Answered
           /\ outAcked' = outAcked \cup ({answers[k].ref : k \in Answered} \ {CM!NoOut})
           /\ answers' = NoAnswers
           /\ atIn' = [at |-> "delete", for |-> Answered]
  <2>1. ASSUME NEW k \in Answered
        PROVE  /\ k \in InKey /\ incoming[k] = "locked" /\ mailIn[k] # None
               /\ answers[k].type \in {"settle", "fail"} /\ answers[k].ref \in OutId \cup {CM!NoOut}
               /\ IsFor(answers[k], k)
    <3>1. /\ k \in InKey /\ answers[k] # None /\ answers[k] \in Answers
          /\ incoming[k] = "locked" /\ mailIn[k] # None
          /\ mailIn[k].type = answers[k].type /\ mailIn[k].ref = answers[k].ref
      BY Zenon DEF Answered, AnswersFit, TypeOK
    <3>2. IsFor(mailIn[k], k)
      BY <3>1, Zenon DEF AnswersFit
    <3>. QED
      BY <3>1, <3>2, Zenon DEF IsFor, Answers
  <2>2. \A k \in InKey : /\ k \in Answered => incoming'[k] = answers[k].type
                         /\ k \notin Answered => incoming'[k] = incoming[k]
    BY <1>3, Zenon
  <2>3. ASSUME NEW k \in InKey
        PROVE  /\ IsAnswered(k) => IsAnswered(k)'
               /\ k \in Answered => IsAnswered(k)'
               /\ incoming'[k] = "locked" => incoming[k] = "locked" /\ k \notin Answered
               /\ incoming'[k] = "new" => incoming[k] = "new"
    BY <2>1, <2>2, Zenon DEF IsAnswered
  <2>4. NoAnswers \in [InKey -> Answers] /\ \A k \in InKey : NoAnswers[k] = None
    BY Zenon DEF NoAnswers, None, Answers, AnswerTypes
  <2>5. \A k \in InKey : k \notin Answered <=> answers[k] = None
    BY Zenon DEF Answered
  <2>6. TypeOK'
    <3>1. incoming' \in [InKey -> {"new", "locked", "settle", "fail"}]
      BY <1>3, <2>1, Zenon DEF TypeOK
    <3>2. outAcked' \in SUBSET OutId /\ Answered \in SUBSET InKey
      BY <1>3, <2>1, SMTT(20) DEF TypeOK
    <3>3. atIn' \in [at : {"delete"}, for : SUBSET InKey]
      BY <1>3, <3>2, Zenon
    <3>. QED
      BY <1>1, <1>3, <2>4, <3>1, <3>2, <3>3, Zenon DEF TypeOK, memOut
  <2>7. IncomingFits'
    <3>1. commits = {} /\ deletes = {}
      BY <1>1, SMTT(20) DEF IncomingFits
    <3>2. \A k \in unresolved : incoming'[k] = "locked" /\ NoAnswers[k] = None
      BY <2>2, <2>4, <2>5, Zenon DEF IncomingFits, TypeOK
    <3>3. linkIn # "down"
      BY SMTT(20) DEF SignIn, ReadyIn, IncomingFits, Idle
    <3>4. \A k \in Answered \cup compacted : IsAnswered(k)'
      BY <2>1, <2>3, Zenon DEF IncomingFits, TypeOK
    <3>. QED
      BY <1>1, <1>3, <3>1, <3>2, <3>3, <3>4, Zenon DEF IncomingFits, mapVars, circuits
  <2>8. AddsInTransit'
    <3>1. \A j \in InKey : /\ Queued(j)' <=> Queued(j)
                           /\ Forwarded(j)' = Forwarded(j)
                           /\ ~Routing(j)'
      BY <1>1, <1>3, Zenon DEF Queued, Forwarded, Routing
    <3>. QED
      BY <1>1, <2>1, <2>2, <3>1, Zenon DEF AddsInTransit, mapVars, circuits
  <2>9. OutgoingOpen'
    BY <1>1, <2>3, SMTT(20) DEF OutgoingOpen, mapVars, circuits, TypeOK
  <2>10. AnswersFit'
    <3>1. \A o \in ackBatch' \cup outAcked' : outKey[o] # NoKey /\ incoming'[outKey[o]] \in {"settle", "fail"}
      <4>1. \A o \in ackBatch \cup outAcked : outKey[o] # NoKey /\ incoming'[outKey[o]] \in {"settle", "fail"}
        BY <2>3, SMTT(20) DEF AnswersFit, IsAnswered, TypeOK
      <4>2. ASSUME NEW k \in Answered, answers[k].ref # CM!NoOut
            PROVE  outKey[answers[k].ref] = k /\ k # NoKey /\ incoming'[k] \in {"settle", "fail"}
        BY <2>1, <2>2, <4>2, SMTT(20) DEF IsFor
      <4>3. ackBatch' = ackBatch
        BY <1>1, Zenon
      <4>4. \A o \in outAcked' : o \in outAcked \/ \E k \in Answered : o = answers[k].ref /\ o # CM!NoOut
        BY <1>3, Zenon
      <4>. QED
        BY <4>1, <4>2, <4>3, <4>4, SMTT(20)
    <3>2. \A k \in InKey : mailIn[k] # None => IsFor(mailIn[k], k)'
      BY <1>1, SMTT(20) DEF AnswersFit, IsFor, Forwarded
    <3>. QED
      BY <1>1, <1>3, <2>4, <3>1, <3>2, Zenon DEF AnswersFit, IsAnswered
  <2>11. AnswersAgree'
    <3>1. ASSUME NEW k \in InKey, incoming'[k] = "settle"
          PROVE  \E o \in Forwarded(k) : outHtlc[o] \in {"settling", "revealed", "settle"}
      BY <2>1, <2>2, <3>1, SMTT(20) DEF AnswersAgree, SettledIsPaid, IsFor
    <3>2. ASSUME NEW k \in InKey, incoming'[k] = "fail", NEW o \in Forwarded(k)
          PROVE  outHtlc[o] = "fail"
      <4>1. CASE k \in Answered
        <5>1. answers[k].type = "fail" /\ IsFor(answers[k], k) /\ answers[k].ref \in OutId \cup {CM!NoOut}
          BY <2>1, <2>2, <3>2, <4>1, Zenon
        <5>2. answers[k].ref # CM!NoOut /\ outKey[answers[k].ref] = k /\ outHtlc[answers[k].ref] = "fail"
          BY <3>2, <5>1, Zenon DEF IsFor
        <5>3. o = answers[k].ref
          BY <3>2, <5>1, <5>2, Zenon DEF OfferedOnce, Forwarded
        <5>. QED
          BY <5>2, <5>3, Zenon
      <4>2. CASE k \notin Answered
        BY <2>2, <3>2, <4>2, Zenon DEF AnswersAgree
      <4>. QED
        BY <4>1, <4>2, Zenon
    <3>3. \A k \in InKey : Forwarded(k)' = Forwarded(k)
      BY <1>1, Zenon DEF Forwarded
    <3>. QED
      BY <1>1, <3>1, <3>2, <3>3, SMTT(20) DEF AnswersAgree, SettledIsPaid
  <2>12. OfferedOnce'
    BY <1>1, Zenon DEF OfferedOnce
  <2>. QED
    BY <1>1, <2>6, <2>7, <2>8, <2>9, <2>10, <2>11, <2>12, OutgoingSideFrame, Zenon
<1>. QED
  BY <1>2, <1>3, Zenon DEF SignIn

\* The circuit of an answered HTLC has no keystone past the signed ids.
LEMMA AnsweredIsSigned ==
  ASSUME IInv, NEW k \in InKey, IsAnswered(k), NEW o \in OutId, keystoneBkt[o] = k
  PROVE  o < nextId
  BY Zenon DEF IInv, LinksFit, KeystonesFit, AddsInTransit, IsAnswered

\* DeleteCircuits takes circuits of answered HTLCs out of memory.
LEMMA DeleteCircuitsStep ==
  ASSUME IInv, DeleteCircuits
  PROVE  LinksFit'
<1>. USE DEF IInv, LinksFit, switch, chanIn, chanOut
<1>1. /\ atIn.at \in {"delete", "clean"} /\ CM!DeleteMemory(atIn.for)
      /\ atIn' = [atIn EXCEPT !.at = IF atIn.at = "delete" THEN "deleting" ELSE "cleaning"]
      /\ UNCHANGED <<chanIn, linkIn, answers, unresolved, mailIn, switch, chanOut, memOut, mailOut, faults>>
  BY Zenon DEF DeleteCircuits, GoIn
<1>2. \A k \in atIn.for : k \in InKey /\ IsAnswered(k)
  BY <1>1, Zenon DEF IncomingFits, TypeOK
<1>3. atIn'.at \in {"deleting", "cleaning"} /\ atIn'.for = atIn.for /\ atIn' \in [at : {"deleting", "cleaning"}, for : SUBSET InKey]
  BY <1>1, Zenon DEF TypeOK
<1>4. /\ pending' = [k \in InKey |-> IF k \in atIn.for THEN "none" ELSE pending[k]]
      /\ opened' = [o \in OutId |-> IF \E k \in CM!Known(atIn.for) : outgoing[k] = o THEN NoKey ELSE opened[o]]
      /\ deletes' = deletes \cup {CM!RemovedCircuit(k) : k \in CM!Known(atIn.for)}
      /\ UNCHANGED <<keystoneBkt, commits, opens, trims, nextId>>
  BY <1>1, Zenon DEF CM!DeleteMemory, CM!disk
<1>5. ASSUME NEW o \in OutId, opened'[o] # opened[o]
      PROVE  opened[o] \in InKey /\ IsAnswered(opened[o]) /\ o < nextId
  <2>1. PICK k \in CM!Known(atIn.for) : outgoing[k] = o
    BY <1>4, <1>5, Zenon
  <2>2. k \in InKey /\ IsAnswered(k) /\ o # CM!NoOut
    BY <1>2, <2>1, SMTT(20) DEF CM!Known, CM!OutId, CM!NoOut
  <2>3. opened[o] = k /\ keystoneBkt[o] = k
    BY <2>1, <2>2, SMTT(20) DEF CM!IInv, CM!IndexesAgree, CM!MemoryIsDurable
  <2>. QED
    BY <2>2, <2>3, AnsweredIsSigned, Zenon
<1>6. TypeOK'
  BY <1>1, <1>3, Zenon DEF TypeOK, memOut
<1>7. IncomingFits'
  <2>1. commits = {} /\ deletes = {} /\ linkIn # "down"
    BY <1>1, SMTT(20) DEF IncomingFits, Idle
  <2>2. \A r \in deletes' : r.key \in atIn.for
    BY <1>4, <2>1, SMTT(20) DEF CM!RemovedCircuit, CM!Known
  <2>. QED
    BY <1>1, <1>3, <1>4, <2>1, <2>2, Zenon DEF IncomingFits, IsAnswered
<1>8. AddsInTransit'
  <2>1. \A j \in InKey : /\ Queued(j)' <=> Queued(j)
                         /\ Forwarded(j)' = Forwarded(j)
                         /\ ~Routing(j)'
    BY <1>1, <1>3, Zenon DEF Queued, Forwarded, Routing
  <2>2. \A j \in InKey : incoming[j] = "locked" => pending'[j] = pending[j]
    BY <1>2, <1>4, Zenon DEF IsAnswered
  <2>. QED
    BY <1>1, <2>1, <2>2, Zenon DEF AddsInTransit
<1>9. OutgoingFits'
  BY <1>1, <1>4, OutgoingFrame, Zenon
<1>10. KeystonesFit'
  <2>1. \A o \in OutId : o >= nextId => opened'[o] = opened[o]
    <3>1. nextId \in 0..(MaxOut + 1)
      BY Zenon DEF CM!IInv, CM!TypeOK
    <3>2. \A o \in OutId : o >= nextId => ~(o < nextId)
      BY <3>1, SMTT(20) DEF CM!OutId
    <3>. QED
      BY <1>5, <3>2, Zenon
  <2>. QED
    BY <1>1, <1>4, <2>1, Zenon DEF KeystonesFit, memOut, Queued
<1>11. OutgoingOpen'
  BY <1>1, <1>4, <1>5, Zenon DEF OutgoingOpen, IsAnswered
<1>. QED
  BY <1>1, <1>6, <1>7, <1>8, <1>9, <1>10, <1>11, AnswersFrame, AgreeFrame, Zenon

\* The circuits leave the database, and the answers leave the mailbox.
LEMMA AckDownStreamPacketsStep ==
  ASSUME IInv, AckDownStreamPackets
  PROVE  LinksFit'
<1>. USE DEF IInv, LinksFit, switch, chanOut
<1>1. /\ atIn.at \in {"deleting", "cleaning"} /\ CM!DeleteDisk(atIn.for) /\ atIn' = Idle
      /\ mailIn' = AckPackets(atIn.for)
      /\ sigIn' \in {"sent", sigIn}
      /\ UNCHANGED <<incoming, compacted, diffIn, linkIn, answers, unresolved, switch, chanOut, memOut, mailOut, faults>>
  BY Zenon DEF AckDownStreamPackets, GoIn
<1>2. \A k \in atIn.for : k \in InKey /\ IsAnswered(k)
  BY <1>1, Zenon DEF IncomingFits, TypeOK
<1>3. /\ \A o \in OutId : keystoneBkt'[o] \in {NoKey, keystoneBkt[o]}
      /\ deletes' = deletes \ {r \in deletes : r.key \in atIn.for}
      /\ UNCHANGED <<pending, opened, commits, opens, trims, nextId>>
  BY <1>1, Zenon DEF CM!DeleteDisk, CM!memory
<1>4. /\ mailIn' \in [InKey -> Answers]
      /\ \A j \in InKey : mailIn'[j] = None \/ mailIn'[j] = mailIn[j]
      /\ \A j \in InKey : j \notin atIn.for => mailIn'[j] = mailIn[j]
  BY <1>1, Zenon DEF AckPackets, TypeOK, Answers, None, AnswerTypes
<1>5. TypeOK'
  BY <1>1, <1>4, Zenon DEF TypeOK, memOut, Idle
<1>6. IncomingFits'
  <2>1. atIn.at \in {"deleting", "cleaning"}
    BY <1>1, Zenon
  <2>2. deletes' = {}
    BY <1>1, <1>3, Zenon DEF IncomingFits
  <2>3. commits = {} /\ linkIn # "down"
    BY <2>1, CallsOfLink, Zenon
  <2>. QED
    BY <1>1, <1>3, <2>1, <2>2, <2>3, Zenon DEF IncomingFits, IsAnswered, Idle
<1>7. AddsInTransit'
  <2>1. \A j \in InKey : /\ Queued(j)' <=> Queued(j)
                         /\ Forwarded(j)' = Forwarded(j)
                         /\ ~Routing(j)'
    BY <1>1, Zenon DEF Queued, Forwarded, Routing, Idle
  <2>. QED
    BY <1>1, <1>3, <1>4, <2>1, Zenon DEF AddsInTransit
<1>8. OutgoingFits'
  BY <1>1, <1>3, OutgoingFrame, Zenon
<1>9. KeystonesFit'
  BY <1>1, <1>3, Zenon DEF KeystonesFit, memOut, Queued
<1>10. AnswersFit'
  <2>1. \A j \in InKey : answers[j] # None => mailIn'[j] = mailIn[j]
    BY <1>2, <1>4, Zenon DEF AnswersFit, IsAnswered
  <2>2. \A o \in ackBatch \cup outAcked : outKey[o] # NoKey /\ IsAnswered(outKey[o])
    BY Zenon DEF AnswersFit
  <2>. QED
    BY <1>1, <1>4, <2>1, <2>2, AnswersKept, Zenon
<1>. QED
  BY <1>1, <1>3, <1>5, <1>6, <1>7, <1>8, <1>9, <1>10, OpenFrame, AgreeFrame, Zenon

\* A circuit that is put back was answered, and its keystone is signed for.
LEMMA DeleteFailsStep ==
  ASSUME IInv, DeleteFails
  PROVE  LinksFit'
<1>. USE DEF IInv, LinksFit, switch, chanIn, chanOut
<1>1. PICK r \in deletes :
         /\ r.key \in atIn.for /\ CM!DeleteFails(r)
         /\ GoIn(IF \E s \in deletes \ {r} : s.key \in atIn.for THEN "restoring" ELSE "idle")
  BY Zenon DEF DeleteFails
<1>2. /\ atIn.at \in {"deleting", "cleaning", "restoring"} /\ linkIn # "down"
      /\ UNCHANGED <<chanIn, answers, unresolved, switch, chanOut, memOut, mailOut>>
      /\ linkIn' \in {"stopping", linkIn}
      /\ mailIn' \in {mailIn, AckPackets(atIn.for)}
  BY SMTT(20) DEF DeleteFails, IncomingFits, Idle
<1>3. \A k \in atIn.for : k \in InKey /\ IsAnswered(k)
  BY <1>2, Zenon DEF IncomingFits, TypeOK
<1>4. atIn' = Idle \/ (atIn'.at = "restoring" /\ atIn'.for = atIn.for /\ atIn' \in [at : {"restoring"}, for : SUBSET InKey])
  BY <1>1, Zenon DEF GoIn, TypeOK
<1>5. /\ pending' = [pending EXCEPT ![r.key] = r.was]
      /\ opened' = [o \in OutId |-> IF o = r.out THEN r.key ELSE opened[o]]
      /\ deletes' = deletes \ {r}
      /\ UNCHANGED <<keystoneBkt, commits, opens, trims, nextId>>
  BY <1>1, Zenon DEF CM!DeleteFails, CM!disk
<1>6. r.out # CM!NoOut => r.out \in OutId /\ keystoneBkt[r.out] = r.key /\ r.out < nextId /\ outKey[r.out] = r.key
  <2>1. r \in CM!Removed
    BY Zenon DEF CM!IInv, CM!TypeOK
  <2>2. r.out # CM!NoOut => r.out \in OutId /\ keystoneBkt[r.out] = r.key /\ r.out < nextId
    BY <2>1, Zenon DEF CM!Removed, CM!IInv, CM!CallsFit
  <2>. QED
    BY <1>1, <1>3, <2>2, Zenon DEF KeystonesFit
<1>7. ASSUME NEW o \in OutId, opened'[o] # opened[o]
      PROVE  o < nextId /\ outKey[o] \in InKey /\ IsAnswered(outKey[o])
  <2>1. o = r.out /\ o # CM!NoOut
    BY <1>5, <1>7, SMTT(20) DEF CM!OutId, CM!NoOut
  <2>. QED
    BY <1>1, <1>3, <1>6, <2>1, Zenon
<1>8. /\ mailIn' \in [InKey -> Answers]
      /\ \A j \in InKey : mailIn'[j] = None \/ mailIn'[j] = mailIn[j]
      /\ \A j \in InKey : j \notin atIn.for => mailIn'[j] = mailIn[j]
  <2>1. mailIn \in [InKey -> Answers] /\ None \in Answers
    BY Zenon DEF TypeOK, Answers, None, AnswerTypes
  <2>. QED
    BY <1>2, <2>1, Zenon DEF AckPackets
<1>9. TypeOK'
  BY <1>2, <1>4, <1>8, SMTT(20) DEF TypeOK, memOut, Idle
<1>10. IncomingFits'
  <2>1. commits = {} /\ unresolved' = unresolved
    <3>1. atIn.at \in {"deleting", "cleaning", "restoring"} /\ unresolved' = unresolved
      BY <1>2, Zenon
    <3>. QED
      BY <3>1, CallsOfLink, Zenon
  <2>2. atIn' = Idle => deletes' = {}
    <3>1. \A s \in deletes : s.key \in atIn.for
      BY Zenon DEF IncomingFits
    <3>2. atIn' = Idle => ~ \E s \in deletes \ {r} : s.key \in atIn.for
      BY <1>1, Zenon DEF GoIn, Idle
    <3>. QED
      BY <1>5, <3>1, <3>2, Zenon
  <2>3. \A s \in deletes' : atIn'.at = "restoring" /\ s.key \in atIn'.for
    BY <1>4, <1>5, <2>2, Zenon DEF IncomingFits
  <2>4. linkIn' # "down"
    BY <1>2, Zenon
  <2>5. atIn'.at \in {"restoring", "idle"} /\ (atIn'.at = "restoring" => atIn'.for = atIn.for)
    <3>1. Idle.at = "idle"
      BY Zenon DEF Idle
    <3>. QED
      BY <1>4, <3>1, Zenon
  <2>. QED
    BY <1>2, <1>3, <1>5, <2>1, <2>3, <2>4, <2>5, Zenon DEF IncomingFits, IsAnswered
<1>11. AddsInTransit'
  <2>1. \A j \in InKey : /\ Queued(j)' <=> Queued(j)
                         /\ Forwarded(j)' = Forwarded(j)
                         /\ ~Routing(j)'
    <3>1. atIn'.at \in {"idle", "restoring"}
      BY <1>4, SMTT(20) DEF Idle
    <3>2. \A j \in InKey : ~Routing(j)'
      BY <3>1, Zenon DEF Routing
    <3>. QED
      BY <1>2, <3>2, Zenon DEF Queued, Forwarded
  <2>2. \A j \in InKey : incoming[j] = "locked" => pending'[j] = pending[j]
    BY <1>1, <1>3, <1>5, Zenon DEF IsAnswered, CM!IInv, CM!TypeOK
  <2>. QED
    BY <1>2, <1>8, <2>1, <2>2, Zenon DEF AddsInTransit
<1>12. OutgoingFits'
  BY <1>2, <1>5, OutgoingFrame, Zenon
<1>13. KeystonesFit'
  <2>1. \A o \in OutId : o >= nextId => opened'[o] = opened[o]
    BY <1>7, SMTT(20) DEF CM!OutId, CM!IInv, CM!TypeOK
  <2>. QED
    BY <1>2, <1>5, <2>1, Zenon DEF KeystonesFit, memOut, Queued
<1>14. OutgoingOpen'
  BY <1>2, <1>5, <1>7, Zenon DEF OutgoingOpen, IsAnswered
<1>15. AnswersFit'
  <2>1. \A j \in InKey : answers[j] # None => mailIn'[j] = mailIn[j]
    BY <1>3, <1>8, Zenon DEF AnswersFit, IsAnswered
  <2>2. \A o \in ackBatch \cup outAcked : outKey[o] # NoKey /\ IsAnswered(outKey[o])
    BY Zenon DEF AnswersFit
  <2>. QED
    BY <1>2, <1>8, <2>1, <2>2, AnswersKept, Zenon
<1>. QED
  BY <1>2, <1>9, <1>10, <1>11, <1>12, <1>13, <1>14, <1>15, AgreeFrame, Zenon

\* The peer's revocation changes nothing but the commitments.
LEMMA RevokeInStep ==
  ASSUME IInv, RevokeIn
  PROVE  LinksFit'
<1>. USE DEF RevokeIn, IInv, LinksFit, mapVars, circuits, memIn, switch, chanOut
<1>1. TypeOK'
  BY SMTT(20) DEF TypeOK, memOut
<1>2. IncomingFits'
  BY Zenon DEF IncomingFits, IsAnswered
<1>3. AddsInTransit'
  BY AddsFrame, Zenon DEF Routing
<1>. QED
  BY <1>1, <1>2, <1>3, OutgoingSideFrame, OpenFrame, AnswersFrame, AgreeFrame, Zenon

\* An HTLC leaves the update log when it is answered.
LEMMA CompactStep ==
  ASSUME IInv, NEW k \in InKey, Compact(k)
  PROVE  LinksFit'
<1>. USE DEF Compact, IInv, LinksFit, mapVars, circuits, memIn, switch, chanOut
<1>1. TypeOK'
  BY SMTT(20) DEF TypeOK, memOut
<1>2. IncomingFits'
  BY Zenon DEF IncomingFits, IsAnswered
<1>3. AddsInTransit'
  BY AddsFrame, Zenon DEF Routing
<1>. QED
  BY <1>1, <1>2, <1>3, OutgoingSideFrame, OpenFrame, AnswersFrame, AgreeFrame, Zenon

\* Stop only tells the link to.
LEMMA StopInStep ==
  ASSUME IInv, StopIn
  PROVE  LinksFit'
<1>. USE DEF StopIn, IInv, LinksFit, mapVars, circuits, chanIn, switch, chanOut
<1>1. TypeOK'
  BY SMTT(20) DEF TypeOK, memOut
<1>2. IncomingFits'
  BY Zenon DEF IncomingFits, IsAnswered
<1>3. AddsInTransit'
  BY AddsFrame, Zenon DEF Routing
<1>. QED
  BY <1>1, <1>2, <1>3, OutgoingSideFrame, OpenFrame, AnswersFrame, AgreeFrame, Zenon

\* Answers the link has not signed for are in the mailbox, to be delivered again.
LEMMA ExitInStep ==
  ASSUME IInv, ExitIn
  PROVE  LinksFit'
<1>. USE DEF ExitIn, IInv, LinksFit, mapVars, circuits, chanIn, switch, chanOut
<1>1. /\ mailIn' \in [InKey -> Answers]
      /\ \A j \in InKey : mailIn'[j].type = mailIn[j].type /\ mailIn'[j].ref = mailIn[j].ref
      /\ \A j \in InKey : mailIn[j] = None => mailIn'[j] = None
  <2>1. mailIn \in [InKey -> Answers] /\ mailIn' = [j \in InKey |-> [mailIn[j] EXCEPT !.sent = FALSE]]
    BY Zenon DEF TypeOK, Resent
  <2>2. ASSUME NEW a \in Answers
        PROVE  /\ [a EXCEPT !.sent = FALSE] \in Answers
               /\ [a EXCEPT !.sent = FALSE].type = a.type /\ [a EXCEPT !.sent = FALSE].ref = a.ref
    BY Zenon DEF Answers
  <2>3. [None EXCEPT !.sent = FALSE] = None
    <3>1. None.sent = FALSE /\ None = [x \in {"type", "ref", "sent"} |-> None[x]]
      BY Zenon DEF None
    <3>. QED
      BY <3>1, Zenon
  <2>4. \A j \in InKey : mailIn'[j] = [mailIn[j] EXCEPT !.sent = FALSE] /\ mailIn[j] \in Answers
    BY <2>1, Zenon
  <2>5. mailIn' \in [InKey -> Answers]
    BY <2>1, <2>2, Zenon
  <2>6. \A j \in InKey : mailIn'[j].type = mailIn[j].type /\ mailIn'[j].ref = mailIn[j].ref
    BY <2>2, <2>4, Zenon
  <2>. QED
    BY <2>3, <2>4, <2>5, <2>6, Zenon
<1>2. NoAnswers \in [InKey -> Answers] /\ \A j \in InKey : NoAnswers[j] = None
  BY Zenon DEF NoAnswers, None, Answers, AnswerTypes
<1>3. TypeOK'
  BY <1>1, <1>2, SMTT(20) DEF TypeOK, memOut
<1>4. IncomingFits'
  BY Zenon DEF IncomingFits, IsAnswered, Idle
<1>5. AddsInTransit'
  <2>1. \A j \in InKey : /\ Queued(j)' <=> Queued(j)
                         /\ Forwarded(j)' = Forwarded(j)
                         /\ Routing(j)' <=> Routing(j)
    BY Zenon DEF Queued, Forwarded, Routing
  <2>. QED
    BY <1>1, <2>1, Zenon DEF AddsInTransit
<1>6. AnswersFit'
  <2>1. \A o \in ackBatch \cup outAcked : outKey[o] # NoKey /\ IsAnswered(outKey[o])
    BY Zenon DEF AnswersFit
  <2>. QED
    BY <1>1, <1>2, <2>1, AnswersKept, Zenon
<1>. QED
  BY <1>3, <1>4, <1>5, <1>6, OutgoingSideFrame, OpenFrame, AgreeFrame, Zenon

\* The circuits a commitment closed are deleted again, and the adds that are not
\* answered are taken up.
LEMMA StartInStep ==
  ASSUME IInv, StartIn
  PROVE  LinksFit'
<1>. USE DEF IInv, LinksFit, mapVars, circuits, chanIn, switch, chanOut
<1>1. /\ linkIn = "down" /\ linkIn' = "up" /\ atIn = Idle /\ answers = NoAnswers
      /\ atIn' = Idle \/ atIn' = [at |-> "delete", for |-> diffIn]
      /\ unresolved' = {k \in InKey : incoming[k] = "locked"}
      /\ UNCHANGED <<mapVars, chanIn, answers, mailIn, switch, chanOut, memOut, mailOut, faults>>
  BY Zenon DEF StartIn, IncomingFits
<1>2. TypeOK'
  <2>1. atIn' \in [at : {"idle", "delete"}, for : SUBSET InKey] /\ unresolved' \in SUBSET InKey
    <3>1. Idle \in [at : {"idle", "delete"}, for : SUBSET InKey]
      BY Zenon DEF Idle
    <3>2. [at |-> "delete", for |-> diffIn] \in [at : {"idle", "delete"}, for : SUBSET InKey]
      BY Zenon DEF TypeOK
    <3>3. unresolved' \in SUBSET InKey
      BY <1>1, Zenon
    <3>. QED
      BY <1>1, <3>1, <3>2, <3>3, Zenon
  <2>. QED
    BY <1>1, <2>1, Zenon DEF TypeOK, memOut
<1>3. IncomingFits'
  <2>1. commits = {} /\ deletes = {}
    BY <1>1, Zenon DEF IncomingFits, Idle
  <2>2. \A j \in InKey : NoAnswers[j] = None
    BY Zenon DEF NoAnswers
  <2>3. atIn'.at \in {"idle", "delete"} /\ (atIn'.at = "delete" => atIn'.for = diffIn)
    BY <1>1, SMTT(20) DEF Idle
  <2>. QED
    BY <1>1, <2>1, <2>2, <2>3, Zenon DEF IncomingFits, IsAnswered
<1>4. AddsInTransit'
  BY <1>1, AddsFrame, SMTT(20) DEF Routing, Idle
<1>. QED
  BY <1>1, <1>2, <1>3, <1>4, OutgoingSideFrame, OpenFrame, AnswersFrame, AgreeFrame, Zenon

=============================================================================
