------------------------ MODULE InvoiceRegistryProofs ------------------------
(***************************************************************************)
(* Proofs about the invoice registry and its incoming link, for every set  *)
(* of HTLCs, every value of the invoice, with and without the deletion of  *)
(* canceled invoices, and also for a link that hands over HTLCs while it   *)
(* stops.                                                                  *)
(***************************************************************************)
EXTENDS InvoiceRegistry, TLAPS

Queued == {r[1] : r \in queue}

\* What the link may tell the peer of an HTLC, as the database stands: a settled
\* HTLC stays settled, and one that is not accepted is never settled while the
\* link that handed it over runs.
Backed(k, answer) ==
    \/ answer = "settle" /\ set[k] = "Settled"
    \/ answer = "fail" /\ set[k] \in {"none", "Canceled"}

\* The HTLCs a link holds are open, handed over and unanswered, and the registry
\* has for each of them a subscription or an event in the queue, never both.
HeldOnce ==
    /\ NotifiedHtlcIsHeld
    /\ hodlMap \subseteq seen
    /\ subs \cap Queued = {}
    /\ \A k \in hodlMap : reply[k] = "none" /\ htlc[k] = "offered"

\* Every answer on its way to the peer is backed by the database.
AnswersBacked ==
    /\ \A k \in Keys : reply[k] # "none" =>
         k \in seen /\ htlc[k] = "offered" /\ Backed(k, reply[k])
    /\ \A r \in queue : Backed(r[1], r[2])

\* The database agrees with the peer: accepted HTLCs are open, settled ones are
\* not failed and belong to a settled invoice, and the accepted HTLCs of an
\* accepted hold invoice pay its value.
SetSound ==
    /\ \A k \in Keys :
         /\ set[k] = "Accepted" => htlc[k] = "offered"
         /\ set[k] = "Settled" => htlc[k] \in {"offered", "settled"}
                                  /\ invoice = "Settled"
    /\ invoice = "Accepted" => Contract!Total(Recorded("Accepted")) = Value

\* The inductive invariant.
RegistryInv ==
    /\ RegistryTypeOK
    /\ HeldOnce
    /\ AnswersBacked
    /\ SetSound

-----------------------------------------------------------------------------

\* notifyHodlSubscribers turns subscriptions into events: nothing is notified
\* that had no subscription, and no HTLC ends up with both.
LEMMA NotifyMoves ==
    ASSUME NEW STATE K, NEW answer \in Answers, RegistryTypeOK, HeldOnce,
           NotifyHodlSubscribers(K, answer)
    PROVE  /\ queue' \subseteq Keys \X Answers
           /\ subs' \subseteq subs /\ deadSubs' = deadSubs
           /\ subs' \cup Queued' \subseteq subs \cup Queued
           /\ subs' \cap Queued' = {}
           /\ \A r \in queue' : r \in queue
                                \/ (r[1] \in K \cap subs /\ r[2] = answer)
<1>1. CASE K \cap deadSubs # {}
  BY <1>1, Zenon DEF NotifyHodlSubscribers, RegistryTypeOK, HeldOnce, Queued
<1>2. CASE K \cap deadSubs = {}
  <2>1. /\ queue' = queue \cup {<<k, answer>> : k \in K \cap subs}
        /\ subs' = subs \ K /\ deadSubs' = deadSubs
    BY <1>2, Zenon DEF NotifyHodlSubscribers
  <2>2. subs \subseteq Keys
    BY Zenon DEF RegistryTypeOK
  <2>3. Queued' = Queued \cup (K \cap subs)
    <3>1. ASSUME NEW k \in K \cap subs PROVE k \in Queued'
      <4>1. <<k, answer>> \in queue' /\ <<k, answer>>[1] = k
        BY <2>1, Zenon
      <4> QED BY <4>1, Zenon DEF Queued
    <3>2. ASSUME NEW r \in queue' PROVE r[1] \in Queued \cup (K \cap subs)
      BY <2>1 DEF Queued
    <3>3. Queued \subseteq Queued'
      BY <2>1, Zenon DEF Queued
    <3> QED BY <3>1, <3>2, <3>3, Zenon DEF Queued
  <2> QED BY <2>1, <2>2, <2>3 DEF RegistryTypeOK, HeldOnce
<1> QED BY <1>1, <1>2, Zenon

\* The invariant holds when the invoice has just been added.
LEMMA RegistryInitInv == RegistryInit => RegistryInv
<1> SUFFICES ASSUME RegistryInit PROVE RegistryInv
  OBVIOUS
<1>1. RegistryTypeOK
  BY RegistryAssumption DEF RegistryInit, RegistryTypeOK, Answers
<1>2. HeldOnce
  BY Zenon DEF RegistryInit, HeldOnce, NotifiedHtlcIsHeld, Queued
<1>3. AnswersBacked
  BY Zenon DEF RegistryInit, AnswersBacked
<1>4. SetSound
  BY Zenon DEF RegistryInit, SetSound
<1> QED BY <1>1, <1>2, <1>3, <1>4, Zenon DEF RegistryInv

\* The total of the accepted HTLCs stays while they and their amounts stay.
LEMMA SameTotal ==
    ASSUME Recorded("Accepted")' = Recorded("Accepted"),
           \A k \in Recorded("Accepted") : htlcAmt'[k] = htlcAmt[k]
    PROVE  Contract!Total(Recorded("Accepted"))'
             = Contract!Total(Recorded("Accepted"))
<1>1. [k \in Recorded("Accepted")' |-> htlcAmt'[k]]
        = [k \in Recorded("Accepted") |-> htlcAmt[k]]
  OBVIOUS
<1> QED BY <1>1, Zenon DEF Contract!Total, Contract!Restrict

-----------------------------------------------------------------------------

\* Handing an HTLC to the registry (NotifyExitHopHtlc) preserves the invariant:
\* the HTLC is new to this link, so the link neither holds nor answers it yet.
LEMMA ExitHopInv ==
    ASSUME RegistryInv, NEW k \in Keys, NotifyExitHopHtlc(k)
    PROVE  RegistryInv'
<1>1. /\ RegistryTypeOK /\ HeldOnce /\ AnswersBacked /\ SetSound
  BY Zenon DEF RegistryInv
<1>2. ExitHop(k)
  BY Zenon DEF NotifyExitHopHtlc, ReplayCanceled, ReplayAccepted, ReplaySettled,
         RejectHtlc, RejectOverpayment, AcceptPartial, CompleteHodlSet,
         SettleSet, NewHtlc
<1>3. /\ htlc[k] = "offered" /\ k \notin seen /\ seen' = seen \cup {k}
      /\ UNCHANGED <<htlc, htlcAmt, rlink>>
  BY <1>2, Zenon DEF ExitHop
<1>4. /\ k \notin hodlMap /\ k \notin subs /\ k \notin Queued
      /\ reply[k] = "none"
  BY <1>1, <1>3, Zenon DEF HeldOnce, NotifiedHtlcIsHeld, AnswersBacked, Queued
<1>5. ASSUME NEW answer \in {"settle", "fail"}, Answer(k, answer),
             queue' \subseteq Keys \X Answers,
             subs' \subseteq subs, deadSubs' = deadSubs,
             subs' \cup Queued' \subseteq subs \cup Queued,
             subs' \cap Queued' = {}
      PROVE  HeldOnce'
  <2>1. /\ reply' = [reply EXCEPT ![k] = answer] /\ hodlMap' = hodlMap
    BY <1>5, Zenon DEF Answer
  <2> QED BY <1>1, <1>3, <1>4, <1>5, <2>1
          DEF HeldOnce, NotifiedHtlcIsHeld, Queued, RegistryTypeOK
<1>6. ASSUME HoldHtlc(k) PROVE HeldOnce'
  BY <1>1, <1>3, <1>4, <1>6, Zenon
     DEF HeldOnce, NotifiedHtlcIsHeld, Queued, HoldHtlc, RegistryTypeOK
<1>7. CASE ReplayCanceled(k) \/ RejectHtlc(k)
  <2>1. /\ Answer(k, "fail") /\ set[k] \in {"none", "Canceled"}
        /\ UNCHANGED <<invoice, set, timers, subs, deadSubs, queue>>
    BY <1>7, Zenon DEF ReplayCanceled, RejectHtlc, NewHtlc, NoNotification
  <2>2. RegistryTypeOK'
    BY <1>1, <1>3, <2>1, Zenon DEF RegistryTypeOK, Answer, Answers
  <2>3. HeldOnce'
    BY <1>1, <1>5, <2>1, Zenon DEF HeldOnce, Queued, RegistryTypeOK
  <2>4. AnswersBacked'
    BY <1>1, <1>3, <2>1, Zenon DEF AnswersBacked, Backed, Answer, RegistryTypeOK
  <2>5. SetSound'
    BY <1>1, <1>3, <2>1, SameTotal, Zenon DEF SetSound, Recorded
  <2> QED BY <2>2, <2>3, <2>4, <2>5, Zenon DEF RegistryInv
<1>8. CASE ReplayAccepted(k)
  <2>1. /\ HoldHtlc(k) /\ timers' \subseteq timers \cup {k}
        /\ UNCHANGED <<invoice, set, deadSubs, queue, reply>>
    BY <1>8, Zenon DEF ReplayAccepted, HoldHtlc
  <2>2. RegistryTypeOK'
    BY <1>1, <1>3, <2>1, Zenon DEF RegistryTypeOK, HoldHtlc
  <2>3. AnswersBacked'
    BY <1>1, <1>3, <2>1, Zenon DEF AnswersBacked, Backed
  <2>4. SetSound'
    BY <1>1, <1>3, <2>1, SameTotal, Zenon DEF SetSound, Recorded
  <2> QED BY <1>6, <2>1, <2>2, <2>3, <2>4, Zenon DEF RegistryInv
<1>9. CASE ReplaySettled(k)
  <2>1. /\ Answer(k, "settle") /\ set[k] = "Settled"
        /\ NotifyHodlSubscribers(Recorded("Settled"), "settle")
        /\ UNCHANGED <<invoice, set, timers>>
    BY <1>9, Zenon DEF ReplaySettled
  <2>2. /\ queue' \subseteq Keys \X Answers
        /\ subs' \subseteq subs /\ deadSubs' = deadSubs
        /\ subs' \cup Queued' \subseteq subs \cup Queued
        /\ subs' \cap Queued' = {}
        /\ \A r \in queue' : r \in queue
                   \/ (r[1] \in Recorded("Settled") \cap subs /\ r[2] = "settle")
    BY <1>1, <2>1, NotifyMoves, Zenon DEF Answers
  <2>3. RegistryTypeOK'
    BY <1>1, <1>3, <2>1, <2>2, Zenon DEF RegistryTypeOK, Answer, Answers
  <2>4. HeldOnce'
    BY <1>5, <2>1, <2>2, Zenon
  <2>5. AnswersBacked'
    BY <1>1, <1>3, <2>1, <2>2, Zenon
       DEF AnswersBacked, Backed, Answer, RegistryTypeOK, Recorded
  <2>6. SetSound'
    BY <1>1, <1>3, <2>1, SameTotal, Zenon DEF SetSound, Recorded
  <2> QED BY <2>3, <2>4, <2>5, <2>6, Zenon DEF RegistryInv
<1>10. CASE RejectOverpayment(k)
  <2>1. /\ Answer(k, "fail") /\ set[k] = "none"
        /\ NotifyHodlSubscribers(Recorded("Canceled"), "fail")
        /\ UNCHANGED <<invoice, set, timers>>
    BY <1>10, Zenon DEF RejectOverpayment, NewHtlc
  <2>2. /\ queue' \subseteq Keys \X Answers
        /\ subs' \subseteq subs /\ deadSubs' = deadSubs
        /\ subs' \cup Queued' \subseteq subs \cup Queued
        /\ subs' \cap Queued' = {}
        /\ \A r \in queue' : r \in queue
                   \/ (r[1] \in Recorded("Canceled") \cap subs /\ r[2] = "fail")
    BY <1>1, <2>1, NotifyMoves, Zenon DEF Answers
  <2>3. RegistryTypeOK'
    BY <1>1, <1>3, <2>1, <2>2, Zenon DEF RegistryTypeOK, Answer, Answers
  <2>4. HeldOnce'
    BY <1>5, <2>1, <2>2, Zenon
  <2>5. AnswersBacked'
    BY <1>1, <1>3, <2>1, <2>2, Zenon
       DEF AnswersBacked, Backed, Answer, RegistryTypeOK, Recorded
  <2>6. SetSound'
    BY <1>1, <1>3, <2>1, SameTotal, Zenon DEF SetSound, Recorded
  <2> QED BY <2>3, <2>4, <2>5, <2>6, Zenon DEF RegistryInv
<1>11. CASE AcceptPartial(k) \/ CompleteHodlSet(k)
  <2>1. /\ HoldHtlc(k) /\ set[k] = "none" /\ invoice = "Open"
        /\ set' = [set EXCEPT ![k] = "Accepted"]
        /\ timers' \subseteq timers \cup {k}
        /\ UNCHANGED <<deadSubs, queue, reply>>
    BY <1>11, Zenon DEF AcceptPartial, CompleteHodlSet, NewHtlc, HoldHtlc
  <2>2. \/ invoice' = "Open"
        \/ invoice' = "Accepted" /\ NewSetTotal(k) = Value
    BY <1>11, Zenon DEF AcceptPartial, CompleteHodlSet
  <2>3. RegistryTypeOK'
    BY <1>1, <1>3, <2>1, <2>2, Zenon DEF RegistryTypeOK, HoldHtlc
  <2>4. AnswersBacked'
    <3>1. \A r \in queue : r[1] # k
      BY <1>4, Zenon DEF Queued
    <3> QED BY <1>1, <1>3, <1>4, <2>1, <3>1
            DEF AnswersBacked, Backed, RegistryTypeOK
  <2>5. Contract!Total(Recorded("Accepted"))' = NewSetTotal(k)
    <3>1. Recorded("Accepted")' = Recorded("Accepted") \cup {k}
      BY <1>1, <2>1, Zenon DEF Recorded, RegistryTypeOK
    <3>2. [j \in Recorded("Accepted")' |-> htlcAmt'[j]]
            = [j \in Recorded("Accepted") \cup {k} |-> htlcAmt[j]]
      BY <1>3, <3>1, Zenon
    <3> QED BY <3>2, Zenon DEF NewSetTotal, Contract!Total, Contract!Restrict
  <2>6. SetSound'
    BY <1>1, <1>3, <2>1, <2>2, <2>5, Zenon DEF SetSound, RegistryTypeOK
  <2> QED BY <1>6, <2>1, <2>3, <2>4, <2>6, Zenon DEF RegistryInv
<1>12. CASE SettleSet(k)
  <2>1. /\ Answer(k, "settle") /\ set[k] = "none" /\ invoice = "Open"
        /\ NotifyHodlSubscribers(Recorded("Accepted") \cup {k}, "settle")
        /\ set' = [Resolved("Settled") EXCEPT ![k] = "Settled"]
        /\ invoice' = "Settled" /\ timers' = timers
    BY <1>12, Zenon DEF SettleSet, NewHtlc
  <2>2. \A j \in Keys : set'[j] = IF j = k \/ set[j] = "Accepted"
                                    THEN "Settled" ELSE set[j]
    BY <2>1, Zenon DEF Resolved
  <2>3. /\ queue' \subseteq Keys \X Answers
        /\ subs' \subseteq subs /\ deadSubs' = deadSubs
        /\ subs' \cup Queued' \subseteq subs \cup Queued
        /\ subs' \cap Queued' = {}
        /\ \A r \in queue' : r \in queue
                   \/ (r[1] \in (Recorded("Accepted") \cup {k}) \cap subs
                       /\ r[2] = "settle")
    BY <1>1, <2>1, NotifyMoves, Zenon DEF Answers
  <2>4. RegistryTypeOK'
    BY <1>1, <1>3, <2>1, <2>3, Zenon
       DEF RegistryTypeOK, Answer, Answers, Resolved
  <2>5. HeldOnce'
    BY <1>5, <2>1, <2>3, Zenon
  <2>6. AnswersBacked'
    <3>1. \A r \in queue : r[1] # k
      BY <1>4, Zenon DEF Queued
    <3> QED BY <1>1, <1>3, <1>4, <2>1, <2>2, <2>3, <3>1
            DEF AnswersBacked, Backed, Answer, RegistryTypeOK, Recorded
  <2>7. SetSound'
    BY <1>1, <1>3, <2>1, <2>2, Zenon DEF SetSound
  <2> QED BY <2>4, <2>5, <2>6, <2>7, Zenon DEF RegistryInv
<1> QED BY <1>7, <1>8, <1>9, <1>10, <1>11, <1>12, Zenon DEF NotifyExitHopHtlc

-----------------------------------------------------------------------------

\* A decision of the registry outside a call of the link (a release timer, a
\* settle, a cancel) preserves the invariant when it notifies exactly what it
\* decides, and makes up its mind on accepted HTLCs only.
LEMMA DecisionInv ==
    ASSUME RegistryInv, NEW STATE K, NEW answer \in {"settle", "fail"},
           NotifyHodlSubscribers(K, answer),
           UNCHANGED <<htlc, htlcAmt, rlink, seen, hodlMap, reply>>,
           timers' \subseteq timers,
           set' \in [Keys -> {"none", "Accepted", "Settled", "Canceled"}],
           invoice' \in {"none", "Open", "Settled", "Canceled"},
           \A k \in Keys : Backed(k, "settle") => Backed(k, "settle")',
           \A k \in Keys : Backed(k, "fail") => Backed(k, "fail")',
           \A k \in K : Backed(k, answer)',
           \A k \in Keys : set'[k] = "Accepted" => set[k] = "Accepted",
           \A k \in Keys : set'[k] = "Settled" =>
               set[k] \in {"Accepted", "Settled"} /\ invoice' = "Settled"
    PROVE  RegistryInv'
<1>1. /\ RegistryTypeOK /\ HeldOnce /\ AnswersBacked /\ SetSound
  BY Zenon DEF RegistryInv
<1>2. /\ queue' \subseteq Keys \X Answers
      /\ subs' \subseteq subs /\ deadSubs' = deadSubs
      /\ subs' \cup Queued' \subseteq subs \cup Queued
      /\ subs' \cap Queued' = {}
      /\ \A r \in queue' : r \in queue
                           \/ (r[1] \in K \cap subs /\ r[2] = answer)
  BY <1>1, NotifyMoves DEF Answers
<1>3. RegistryTypeOK'
  BY <1>1, <1>2, Zenon DEF RegistryTypeOK
<1>4. HeldOnce'
  BY <1>1, <1>2, Zenon DEF HeldOnce, NotifiedHtlcIsHeld, Queued
<1>5. AnswersBacked'
  BY <1>1, <1>2 DEF AnswersBacked, Backed, RegistryTypeOK
<1>6. SetSound'
  BY <1>1, Zenon DEF SetSound
<1> QED BY <1>3, <1>4, <1>5, <1>6, Zenon DEF RegistryInv

\* A release timer preserves the invariant (cancelSingleHtlc).
LEMMA ReleaseInv ==
    ASSUME RegistryInv, NEW k \in Keys, ReleaseHtlc(k)
    PROVE  RegistryInv'
<1>1. /\ RegistryTypeOK /\ HeldOnce /\ AnswersBacked /\ SetSound
  BY Zenon DEF RegistryInv
<1>2. /\ UNCHANGED <<htlc, htlcAmt, invoice, rlink, seen, hodlMap, reply>>
      /\ timers' \subseteq timers
  BY Zenon DEF ReleaseHtlc
<1>3. CASE invoice = "Open" /\ set[k] = "Accepted"
  <2>1. /\ set' = [set EXCEPT ![k] = "Canceled"]
        /\ NotifyHodlSubscribers({k}, "fail")
    BY <1>3, Zenon DEF ReleaseHtlc
  <2>2. set' \in [Keys -> {"none", "Accepted", "Settled", "Canceled"}]
    BY <1>1, <2>1, Zenon DEF RegistryTypeOK
  <2>3. \A j \in Keys : set'[j] = IF j = k THEN "Canceled" ELSE set[j]
    BY <1>1, <2>1, Zenon DEF RegistryTypeOK
  <2>4. /\ \A j \in Keys : Backed(j, "settle") => Backed(j, "settle")'
        /\ \A j \in Keys : Backed(j, "fail") => Backed(j, "fail")'
        /\ \A j \in {k} : Backed(j, "fail")'
    BY <1>3, <2>3, Zenon DEF Backed
  <2>5. /\ \A j \in Keys : set'[j] = "Accepted" => set[j] = "Accepted"
        /\ \A j \in Keys : set'[j] = "Settled" =>
             set[j] \in {"Accepted", "Settled"} /\ invoice' = "Settled"
    BY <1>1, <1>2, <2>3, Zenon DEF SetSound
  <2> QED BY <1>2, <1>3, <2>1, <2>2, <2>4, <2>5, DecisionInv
<1>4. CASE ~(invoice = "Open" /\ set[k] = "Accepted")
  <2>1. UNCHANGED <<set, subs, deadSubs, queue>>
    BY <1>4, Zenon DEF ReleaseHtlc, NoNotification
  <2>2. SetSound'
    BY <1>1, <1>2, <2>1, SameTotal, Zenon DEF SetSound, Recorded
  <2> QED BY <1>1, <1>2, <2>1, <2>2
          DEF RegistryInv, RegistryTypeOK, HeldOnce, NotifiedHtlcIsHeld, Queued,
              AnswersBacked, Backed
<1> QED BY <1>3, <1>4, Zenon

\* Settling a hold invoice preserves the invariant (SettleHodlInvoice).
LEMMA SettleHodlInv ==
    ASSUME RegistryInv, SettleHodlInvoice
    PROVE  RegistryInv'
<1>1. RegistryTypeOK /\ SetSound
  BY Zenon DEF RegistryInv
<1>2. /\ UNCHANGED <<htlc, htlcAmt, rlink, seen, hodlMap, reply, timers>>
      /\ invoice' = "Settled" /\ set' = Resolved("Settled")
      /\ NotifyHodlSubscribers(Recorded("Settled") \cup Recorded("Accepted"),
                               "settle")
  BY Zenon DEF SettleHodlInvoice
<1>3. set' \in [Keys -> {"none", "Accepted", "Settled", "Canceled"}]
  BY <1>1, <1>2, Zenon DEF RegistryTypeOK, Resolved
<1>4. \A j \in Keys : set'[j] = IF set[j] = "Accepted" THEN "Settled" ELSE set[j]
  BY <1>2, Zenon DEF Resolved
<1>5. /\ \A j \in Keys : Backed(j, "settle") => Backed(j, "settle")'
      /\ \A j \in Keys : Backed(j, "fail") => Backed(j, "fail")'
      /\ \A j \in Recorded("Settled") \cup Recorded("Accepted") :
           Backed(j, "settle")'
  BY <1>4, Zenon DEF Backed, Recorded
<1>6. /\ \A j \in Keys : set'[j] = "Accepted" => set[j] = "Accepted"
      /\ \A j \in Keys : set'[j] = "Settled" =>
           set[j] \in {"Accepted", "Settled"} /\ invoice' = "Settled"
  BY <1>2, <1>4, Zenon
<1> QED BY <1>2, <1>3, <1>5, <1>6, DecisionInv, Zenon

\* Canceling preserves the invariant, deleted or kept (cancelInvoiceImpl).
LEMMA CancelInv ==
    ASSUME RegistryInv, NEW cancelAccepted, CancelInvoiceImpl(cancelAccepted)
    PROVE  RegistryInv'
<1>1. /\ RegistryTypeOK /\ HeldOnce /\ AnswersBacked /\ SetSound
  BY Zenon DEF RegistryInv
<1>2. UNCHANGED <<htlc, htlcAmt, rlink, seen, hodlMap, reply, timers>>
  BY Zenon DEF CancelInvoiceImpl
<1> DEFINE Cancels == invoice = "Open" \/ (invoice = "Accepted" /\ cancelAccepted)
           K == Recorded("Canceled") \cup Recorded("Accepted")
<1>3. CASE Cancels
  <2>1. NotifyHodlSubscribers(K, "fail")
    BY <1>3, Zenon DEF CancelInvoiceImpl
  <2>2. \/ invoice' = "none" /\ set' = [k \in Keys |-> "none"]
        \/ invoice' = "Canceled" /\ set' = Resolved("Canceled")
    BY <1>3, Zenon DEF CancelInvoiceImpl, DeleteInvoice
  <2>3. \A j \in Keys : set[j] \in {"none", "Accepted", "Canceled"}
    BY <1>1, <1>3, Zenon DEF RegistryTypeOK, SetSound
  <2>4. set' \in [Keys -> {"none", "Canceled"}]
    BY <2>2, <2>3, Zenon DEF Resolved
  <2>5. set' \in [Keys -> {"none", "Accepted", "Settled", "Canceled"}]
    BY <2>4, Zenon
  <2>6. /\ \A j \in Keys : Backed(j, "settle") => Backed(j, "settle")'
        /\ \A j \in Keys : Backed(j, "fail") => Backed(j, "fail")'
        /\ \A j \in K : Backed(j, "fail")'
    BY <2>3, <2>4, Zenon DEF Backed, Recorded
  <2>7. /\ \A j \in Keys : set'[j] = "Accepted" => set[j] = "Accepted"
        /\ \A j \in Keys : set'[j] = "Settled" =>
             set[j] \in {"Accepted", "Settled"} /\ invoice' = "Settled"
    BY <2>4, Zenon
  <2> QED BY <1>2, <2>1, <2>2, <2>5, <2>6, <2>7, DecisionInv, Zenon
<1>4. CASE ~Cancels
  <2>1. UNCHANGED <<invoice, set, subs, deadSubs, queue>>
    BY <1>4, Zenon DEF CancelInvoiceImpl, NoNotification
  <2>2. SetSound'
    BY <1>1, <1>2, <2>1, SameTotal, Zenon DEF SetSound, Recorded
  <2> QED BY <1>1, <1>2, <2>1, <2>2, Zenon
          DEF RegistryInv, RegistryTypeOK, HeldOnce, NotifiedHtlcIsHeld, Queued,
              AnswersBacked, Backed
<1> QED BY <1>3, <1>4, Zenon

-----------------------------------------------------------------------------

\* Taking the events off the queue preserves the invariant (processHodlQueue):
\* the answers move from the queue to the update log.
LEMMA ProcessQueueInv ==
    ASSUME RegistryInv, ProcessHodlQueue
    PROVE  RegistryInv'
<1>1. /\ RegistryTypeOK /\ HeldOnce /\ AnswersBacked /\ SetSound
  BY Zenon DEF RegistryInv
<1>2. /\ UNCHANGED <<htlc, htlcAmt, invoice, set, subs, deadSubs, timers, rlink,
                     seen>>
      /\ hodlMap' = hodlMap \ Queued /\ queue' = {}
  BY Zenon DEF ProcessHodlQueue, dbVars, memVars, Queued
<1>3. ASSUME NEW k \in Keys
      PROVE  /\ k \notin Queued => reply'[k] = reply[k]
             /\ k \in Queued => \E r \in queue : r[1] = k /\ reply'[k] = r[2]
  <2>1. CASE k \notin Queued
    <3>1. ~ \E r \in queue : r[1] = k
      BY <2>1, Zenon DEF Queued
    <3> QED BY <2>1, <3>1, Zenon DEF ProcessHodlQueue
  <2>2. CASE k \in Queued
    <3>1. \E r \in queue : r[1] = k
      BY <2>2, Zenon DEF Queued
    <3>2. reply'[k] = (CHOOSE r \in queue : r[1] = k)[2]
      BY <3>1, Zenon DEF ProcessHodlQueue
    <3>3. /\ (CHOOSE r \in queue : r[1] = k) \in queue
          /\ (CHOOSE r \in queue : r[1] = k)[1] = k
      BY <3>1, Zenon
    <3> QED BY <2>2, <3>2, <3>3, Zenon
  <2> QED BY <2>1, <2>2, Zenon
<1>4. reply' \in [Keys -> Answers]
  <2>1. \A k \in Keys : reply'[k] \in Answers
    BY <1>1, <1>3, Zenon DEF RegistryTypeOK
  <2>2. reply' = [k \in Keys |-> reply'[k]]
    BY Zenon DEF ProcessHodlQueue
  <2> QED BY <2>1, <2>2, Zenon
<1>5. RegistryTypeOK'
  BY <1>1, <1>2, <1>4, Zenon DEF RegistryTypeOK
<1>6. HeldOnce'
  <2>1. Queued' = {}
    BY <1>2, Zenon DEF Queued
  <2>2. hodlMap \subseteq Keys
    BY <1>1, Zenon DEF RegistryTypeOK
  <2> QED BY <1>1, <1>2, <1>3, <2>1, <2>2, Zenon
          DEF HeldOnce, NotifiedHtlcIsHeld, Queued
<1>7. AnswersBacked'
  <2>1. ASSUME NEW k \in Keys, reply'[k] # "none"
        PROVE  k \in seen /\ htlc[k] = "offered" /\ Backed(k, reply'[k])
    <3>1. CASE k \notin Queued
      BY <1>1, <1>3, <2>1, <3>1, Zenon DEF AnswersBacked
    <3>2. CASE k \in Queued
      <4>1. k \in seen /\ htlc[k] = "offered"
        BY <1>1, <3>2, Zenon DEF HeldOnce, NotifiedHtlcIsHeld, Queued
      <4> QED BY <1>1, <1>3, <3>2, <4>1, Zenon DEF AnswersBacked
    <3> QED BY <3>1, <3>2, Zenon
  <2> QED BY <1>2, <2>1, Zenon DEF AnswersBacked, Backed
<1>8. SetSound'
  BY <1>1, <1>2, SameTotal, Zenon DEF SetSound, Recorded
<1> QED BY <1>5, <1>6, <1>7, <1>8, Zenon DEF RegistryInv

\* Signing the removals preserves the invariant: what is answered is not held,
\* and what is failed is neither accepted nor settled.
LEMMA SignInv ==
    ASSUME RegistryInv, SignRemovals
    PROVE  RegistryInv'
<1>1. /\ RegistryTypeOK /\ HeldOnce /\ AnswersBacked /\ SetSound
  BY Zenon DEF RegistryInv
<1>2. /\ UNCHANGED <<htlcAmt, invoice, set, subs, deadSubs, timers, rlink, seen,
                     hodlMap, queue>>
      /\ reply' = [k \in Keys |-> "none"]
  BY Zenon DEF SignRemovals, dbVars, memVars
<1>3. \A k \in Keys : htlc'[k] = IF reply[k] = "settle" THEN "settled"
                                 ELSE IF reply[k] = "fail" THEN "failed"
                                 ELSE htlc[k]
  BY Zenon DEF SignRemovals
<1>4. RegistryTypeOK'
  <2>1. htlc' = [k \in Keys |-> htlc'[k]]
    BY Zenon DEF SignRemovals
  <2>2. \A k \in Keys : htlc'[k] \in {"none", "offered", "settled", "failed"}
    BY <1>1, <1>3, Zenon DEF RegistryTypeOK
  <2>3. htlc' \in [Keys -> {"none", "offered", "settled", "failed"}]
    BY <2>1, <2>2, Zenon
  <2> QED BY <1>1, <1>2, <2>3, Zenon DEF RegistryTypeOK, Answers
<1>5. HeldOnce'
  <2>1. hodlMap \subseteq Keys
    BY <1>1, Zenon DEF RegistryTypeOK
  <2> QED BY <1>1, <1>2, <1>3, <2>1, Zenon DEF HeldOnce, NotifiedHtlcIsHeld, Queued
<1>6. AnswersBacked'
  BY <1>1, <1>2, Zenon DEF AnswersBacked, Backed
<1>7. SetSound'
  <2>1. Contract!Total(Recorded("Accepted"))'
          = Contract!Total(Recorded("Accepted"))
    BY <1>2, SameTotal, Zenon DEF Recorded
  <2>2. ASSUME NEW k \in Keys
        PROVE  /\ set[k] = "Accepted" => htlc'[k] = "offered"
               /\ set[k] = "Settled" => htlc'[k] \in {"offered", "settled"}
    BY <1>1, <1>3 DEF SetSound, AnswersBacked, Backed
  <2> QED BY <1>1, <1>2, <2>1, <2>2, Zenon DEF SetSound
<1> QED BY <1>4, <1>5, <1>6, <1>7, Zenon DEF RegistryInv

\* A link or node that goes away takes its held HTLCs and its unsigned answers
\* with it; the database keeps what they were backed by.
LEMMA LinkGoneInv ==
    ASSUME RegistryInv, LinkStopped \/ RestartReceiver
    PROVE  RegistryInv'
<1>1. /\ RegistryTypeOK /\ SetSound
  BY Zenon DEF RegistryInv
<1>2. /\ UNCHANGED <<htlc, htlcAmt>> /\ rlink' = "down"
      /\ subs' = {} /\ seen' = {} /\ hodlMap' = {} /\ queue' = {}
      /\ reply' = [k \in Keys |-> "none"]
      /\ deadSubs' \subseteq deadSubs \cup subs /\ timers' \subseteq timers
  BY Zenon DEF LinkStopped, RestartReceiver
<1>3. \/ UNCHANGED <<invoice, set>>
      \/ invoice' = "none" /\ set' = [k \in Keys |-> "none"]
  BY Zenon DEF LinkStopped, RestartReceiver, DeleteInvoice, dbVars
<1>4. RegistryTypeOK'
  BY <1>1, <1>2, <1>3, Zenon DEF RegistryTypeOK, Answers
<1>5. HeldOnce'
  BY <1>2, Zenon DEF HeldOnce, NotifiedHtlcIsHeld, Queued
<1>6. AnswersBacked'
  BY <1>2, Zenon DEF AnswersBacked
<1>7. SetSound'
  BY <1>1, <1>2, <1>3, SameTotal, Zenon DEF SetSound, Recorded
<1> QED BY <1>4, <1>5, <1>6, <1>7, Zenon DEF RegistryInv

-----------------------------------------------------------------------------

\* A new HTLC of the peer preserves the invariant: it is in no state of the
\* registry, and the amounts of the accepted HTLCs stay.
LEMMA OfferInv ==
    ASSUME RegistryInv, NEW k \in Keys, NEW v \in 1..Value, OfferHtlc(k, v)
    PROVE  RegistryInv'
<1>1. /\ RegistryTypeOK /\ HeldOnce /\ AnswersBacked /\ SetSound
  BY Zenon DEF RegistryInv
<1>2. /\ htlc[k] = "none"
      /\ htlc' = [htlc EXCEPT ![k] = "offered"]
      /\ htlcAmt' = [htlcAmt EXCEPT ![k] = v]
      /\ UNCHANGED <<invoice, set, subs, deadSubs, timers, rlink, seen, hodlMap,
                     queue, reply>>
  BY Zenon DEF OfferHtlc, dbVars, memVars, rlinkVars
<1>3. htlcAmt' \in [Keys -> 0..Value]
  BY <1>1, <1>2, RegistryAssumption DEF RegistryTypeOK
<1>4. RegistryTypeOK'
  BY <1>1, <1>2, <1>3, Zenon DEF RegistryTypeOK
<1>5. HeldOnce'
  BY <1>1, <1>2, Zenon DEF HeldOnce, NotifiedHtlcIsHeld, Queued, RegistryTypeOK
<1>6. AnswersBacked'
  BY <1>1, <1>2, Zenon DEF AnswersBacked, Backed, RegistryTypeOK
<1>7. SetSound'
  <2>1. Recorded("Accepted")' = Recorded("Accepted")
    BY <1>2, Zenon DEF Recorded
  <2>2. \A j \in Recorded("Accepted") : htlcAmt'[j] = htlcAmt[j]
    BY <1>1, <1>2, Zenon DEF Recorded, SetSound, RegistryTypeOK
  <2>3. Contract!Total(Recorded("Accepted"))'
          = Contract!Total(Recorded("Accepted"))
    BY <2>1, <2>2, SameTotal, Zenon
  <2> QED BY <1>1, <1>2, <2>3, Zenon DEF SetSound, RegistryTypeOK
<1> QED BY <1>4, <1>5, <1>6, <1>7, Zenon DEF RegistryInv

\* Stopping to listen and starting a link preserve the invariant.
LEMMA LinkInv ==
    ASSUME RegistryInv,
           HodlUnsubscribeAll \/ ReceiverLinkStarts \/ UNCHANGED registryVars
    PROVE  RegistryInv'
<1>1. /\ RegistryTypeOK /\ HeldOnce /\ AnswersBacked /\ SetSound
  BY Zenon DEF RegistryInv
<1>2. /\ UNCHANGED <<htlc, htlcAmt, invoice, set, deadSubs, timers, seen,
                     hodlMap, queue, reply>>
      /\ subs' \subseteq subs /\ rlink' \in {"up", "stopping", rlink}
  BY Zenon DEF HodlUnsubscribeAll, ReceiverLinkStarts, registryVars, dbVars, memVars,
         rlinkVars
<1>3. RegistryTypeOK'
  BY <1>1, <1>2 DEF RegistryTypeOK
<1>4. HeldOnce'
  BY <1>1, <1>2, Zenon DEF HeldOnce, NotifiedHtlcIsHeld, Queued
<1>5. AnswersBacked'
  BY <1>1, <1>2, Zenon DEF AnswersBacked, Backed
<1>6. SetSound'
  BY <1>1, <1>2, SameTotal, Zenon DEF SetSound, Recorded
<1> QED BY <1>3, <1>4, <1>5, <1>6, Zenon DEF RegistryInv

\* Every step of the registry and its link preserves the invariant.
LEMMA RegistryStepInv ==
    RegistryInv /\ [RegistryNext]_registryVars => RegistryInv'
<1> SUFFICES ASSUME RegistryInv, [RegistryNext]_registryVars
             PROVE  RegistryInv'
  OBVIOUS
<1>1. CASE \E k \in Keys : \E v \in 1..Value : OfferHtlc(k, v)
  BY <1>1, OfferInv, Zenon
<1>2. CASE \E k \in Keys : NotifyExitHopHtlc(k)
  BY <1>2, ExitHopInv, Zenon
<1>3. CASE \E k \in Keys : ReleaseHtlc(k)
  BY <1>3, ReleaseInv, Zenon
<1>4. CASE SettleHodlInvoice
  BY <1>4, SettleHodlInv, Zenon
<1>5. CASE \/ CancelInvoice
           \/ CancelNextExpiredInvoice
           \/ CancelNextHeightExpiredInvoice
  <2>1. CancelInvoiceImpl(TRUE) \/ CancelInvoiceImpl(FALSE)
    BY <1>5, Zenon DEF CancelInvoice, CancelNextExpiredInvoice,
                CancelNextHeightExpiredInvoice
  <2> QED BY <2>1, CancelInv, Zenon
<1>6. CASE ProcessHodlQueue
  BY <1>6, ProcessQueueInv, Zenon
<1>7. CASE SignRemovals
  BY <1>7, SignInv, Zenon
<1>8. CASE LinkStopped \/ RestartReceiver
  BY <1>8, LinkGoneInv, Zenon
<1>9. CASE HodlUnsubscribeAll \/ ReceiverLinkStarts \/ UNCHANGED registryVars
  BY <1>9, LinkInv, Zenon
<1> QED BY <1>1, <1>2, <1>3, <1>4, <1>5, <1>6, <1>7, <1>8, <1>9, Zenon
        DEF RegistryNext

\* The registry notifies only the link that holds the HTLC, for every set of
\* HTLCs and every value, also when HTLCs are handed over by a link that stops.
THEOREM HeldTheorem == RegistrySpec => []NotifiedHtlcIsHeld
<1>1. RegistryInv => NotifiedHtlcIsHeld
  BY Zenon DEF RegistryInv, HeldOnce
<1> QED BY <1>1, RegistryInitInv, RegistryStepInv, PTL DEF RegistrySpec

-----------------------------------------------------------------------------

\* The decision on the HTLCs in S, whose amounts make up the value, is the
\* contract's claim.
LEMMA DecisionClaims ==
    ASSUME RegistryInv, NEW STATE S, S \subseteq Keys, invoice # "Settled",
           \A k \in S : htlc[k] = "offered",
           Contract!Total(S) = Value,
           Recorded("Settled")' = S,
           UNCHANGED <<htlc, htlcAmt>>
    PROVE  Contract!ContractStep
<1>1. Recorded("Settled") = {}
  BY Zenon DEF RegistryInv, SetSound, Recorded
<1>2. Contract!Claim(S)
  BY <1>1, Zenon DEF Contract!Claim, Contract!Pending
<1> QED BY <1>2, Zenon DEF Contract!ContractStep

\* Every step is a step of the contract, an HTLC of the peer, or invisible.
LEMMA StepImplements ==
    RegistryInv /\ [RegistryNext]_registryVars
      => [\/ Contract!ContractStep
          \/ \E k \in Keys, v \in 1..Value : OfferHtlc(k, v)
         ]_<<htlc, htlcAmt, Recorded("Settled")>>
<1> DEFINE Visible == [\/ Contract!ContractStep
                       \/ \E k \in Keys, v \in 1..Value : OfferHtlc(k, v)
                      ]_<<htlc, htlcAmt, Recorded("Settled")>>
<1> SUFFICES ASSUME RegistryInv, [RegistryNext]_registryVars
             PROVE  Visible
  OBVIOUS
<1>1. RegistryTypeOK /\ AnswersBacked /\ SetSound
  BY Zenon DEF RegistryInv
<1>2. CASE \E k \in Keys : \E v \in 1..Value : OfferHtlc(k, v)
  BY <1>2, Zenon
<1>3. ASSUME NEW k \in Keys, NotifyExitHopHtlc(k), ~SettleSet(k)
      PROVE  Visible
  <2>1. UNCHANGED <<htlc, htlcAmt>>
    BY <1>3, Zenon DEF NotifyExitHopHtlc, ReplayCanceled, ReplayAccepted, ReplaySettled,
                RejectHtlc, RejectOverpayment, AcceptPartial, CompleteHodlSet,
                NewHtlc, ExitHop
  <2>2. set' = set \/ (set[k] = "none" /\ set' = [set EXCEPT ![k] = "Accepted"])
    BY <1>3, Zenon DEF NotifyExitHopHtlc, ReplayCanceled, ReplayAccepted, ReplaySettled,
                RejectHtlc, RejectOverpayment, AcceptPartial, CompleteHodlSet,
                NewHtlc
  <2>3. Recorded("Settled")' = Recorded("Settled")
    BY <1>1, <2>2, Zenon DEF Recorded, RegistryTypeOK
  <2> QED BY <2>1, <2>3, Zenon
<1>4. ASSUME NEW k \in Keys, SettleSet(k)
      PROVE  Visible
  <2> DEFINE S == Recorded("Accepted") \cup {k}
  <2>1. /\ htlc[k] = "offered" /\ invoice = "Open"
        /\ NewSetTotal(k) = Value
        /\ set' = [Resolved("Settled") EXCEPT ![k] = "Settled"]
        /\ UNCHANGED <<htlc, htlcAmt>>
    BY <1>4, Zenon DEF SettleSet, NewHtlc, ExitHop
  <2>2. \A j \in Keys : set'[j] = "Settled" <=> j \in S
    BY <1>1, <2>1, Zenon DEF Resolved, Recorded, SetSound
  <2>3. Recorded("Settled")' = S
    BY <2>2, Zenon DEF Recorded
  <2>4. \A j \in S : htlc[j] = "offered"
    BY <1>1, <2>1, Zenon DEF Recorded, SetSound
  <2>5. Contract!Total(S) = Value /\ S \subseteq Keys
    BY <2>1, Zenon DEF NewSetTotal, Recorded
  <2>6. Contract!ContractStep
    BY <2>1, <2>3, <2>4, <2>5, DecisionClaims, Zenon
  <2> QED BY <2>6, Zenon
<1>5. ASSUME NEW k \in Keys, ReleaseHtlc(k)
      PROVE  Visible
  <2>1. /\ UNCHANGED <<htlc, htlcAmt>>
        /\ \/ set' = set
           \/ set[k] = "Accepted" /\ set' = [set EXCEPT ![k] = "Canceled"]
    BY <1>5, Zenon DEF ReleaseHtlc
  <2>2. Recorded("Settled")' = Recorded("Settled")
    BY <1>1, <2>1, Zenon DEF Recorded, RegistryTypeOK
  <2> QED BY <2>1, <2>2, Zenon
<1>6. CASE SettleHodlInvoice
  <2>1. /\ invoice = "Accepted" /\ set' = Resolved("Settled")
        /\ UNCHANGED <<htlc, htlcAmt>>
    BY <1>6, Zenon DEF SettleHodlInvoice
  <2>2. Recorded("Settled")' = Recorded("Accepted")
    BY <1>1, <2>1, Zenon DEF Recorded, Resolved, SetSound
  <2>3. /\ \A j \in Recorded("Accepted") : htlc[j] = "offered"
        /\ Contract!Total(Recorded("Accepted")) = Value
        /\ Recorded("Accepted") \subseteq Keys
    BY <1>1, <2>1, Zenon DEF Recorded, SetSound
  <2>4. Contract!ContractStep
    BY <2>1, <2>2, <2>3, DecisionClaims, Zenon
  <2> QED BY <2>4, Zenon
<1>7. CASE \/ CancelInvoice
           \/ CancelNextExpiredInvoice
           \/ CancelNextHeightExpiredInvoice
  <2>1. CancelInvoiceImpl(TRUE) \/ CancelInvoiceImpl(FALSE)
    BY <1>7, Zenon DEF CancelInvoice, CancelNextExpiredInvoice,
                CancelNextHeightExpiredInvoice
  <2>2. /\ UNCHANGED <<htlc, htlcAmt>>
        /\ \/ set' = set
           \/ /\ invoice # "Settled"
              /\ set' = Resolved("Canceled") \/ set' = [k \in Keys |-> "none"]
    BY <2>1, Zenon DEF CancelInvoiceImpl, DeleteInvoice
  <2>3. Recorded("Settled")' = Recorded("Settled")
    BY <1>1, <2>2, Zenon DEF Recorded, Resolved, SetSound
  <2> QED BY <2>2, <2>3, Zenon
<1>8. CASE SignRemovals
  <2> DEFINE S == {k \in Keys : reply[k] # "none"}
  <2>1. UNCHANGED <<htlcAmt, set>>
    BY <1>8, Zenon DEF SignRemovals, dbVars
  <2>2. Recorded("Settled")' = Recorded("Settled")
    BY <2>1, Zenon DEF Recorded
  <2>3. S \subseteq Contract!Pending
    BY <1>1, Zenon DEF AnswersBacked, Contract!Pending
  <2>4. ASSUME NEW k \in Keys
        PROVE  htlc'[k] = IF k \notin S THEN htlc[k]
                          ELSE IF k \in Recorded("Settled") THEN "settled"
                          ELSE "failed"
    <3>1. htlc'[k] = CASE reply[k] = "settle" -> "settled"
                       [] reply[k] = "fail"   -> "failed"
                       [] OTHER               -> htlc[k]
      BY <1>8, Zenon DEF SignRemovals
    <3> QED BY <1>1, <3>1, Zenon DEF AnswersBacked, Backed, Recorded
  <2>5. htlc' = [k \in Keys |-> IF k \notin S THEN htlc[k]
                                ELSE IF k \in Recorded("Settled") THEN "settled"
                                ELSE "failed"]
    <3>1. htlc' = [k \in Keys |-> htlc'[k]]
      BY <1>8, Zenon DEF SignRemovals
    <3> QED BY <2>4, <3>1, Zenon
  <2>6. Contract!AnswerHtlcs(S)
    BY <2>1, <2>2, <2>3, <2>5, Zenon DEF Contract!AnswerHtlcs
  <2>7. Contract!ContractStep
    BY <2>6, Zenon DEF Contract!ContractStep
  <2> QED BY <2>7, Zenon
<1>9. CASE RestartReceiver
  <2>1. /\ UNCHANGED <<htlc, htlcAmt>>
        /\ \/ set' = set
           \/ invoice = "Canceled" /\ set' = [k \in Keys |-> "none"]
    BY <1>9, Zenon DEF RestartReceiver, DeleteInvoice
  <2>2. Recorded("Settled")' = Recorded("Settled")
    BY <1>1, <2>1, Zenon DEF Recorded, SetSound
  <2> QED BY <2>1, <2>2, Zenon
<1>10. CASE \/ ProcessHodlQueue \/ LinkStopped \/ HodlUnsubscribeAll
            \/ ReceiverLinkStarts \/ UNCHANGED registryVars
  <2>1. UNCHANGED <<htlc, htlcAmt, set>>
    BY <1>10, Zenon DEF ProcessHodlQueue, LinkStopped, HodlUnsubscribeAll,
                 ReceiverLinkStarts, registryVars, dbVars
  <2>2. Recorded("Settled")' = Recorded("Settled")
    BY <2>1, Zenon DEF Recorded
  <2> QED BY <2>1, <2>2, Zenon
<1> QED BY <1>2, <1>3, <1>4, <1>5, <1>6, <1>7, <1>8, <1>9, <1>10, Zenon
        DEF RegistryNext

\* The registry and its link implement the contract, for every set of HTLCs,
\* every value and every number of stops and restarts: the node settles the
\* HTLCs of one set, which pays the invoice's value exactly, and fails no HTLC
\* of that set, whichever way an answer takes to the peer.
THEOREM ContractTheorem == RegistrySpec => ImplementsContract
<1>1. RegistryInit => Contract!ContractInit
  BY Zenon DEF RegistryInit, Contract!ContractInit, Recorded
<1> QED BY <1>1, RegistryInitInv, RegistryStepInv, StepImplements, PTL
        DEF RegistrySpec, ImplementsContract
=============================================================================
