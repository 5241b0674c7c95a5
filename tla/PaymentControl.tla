--------------------------- MODULE PaymentControl ---------------------------
(***************************************************************************)
(* The payment store of a node (channeldb/payment_control.go, payments.go, *)
(* mp_payment.go and payments_inflight.go) for one payment hash: the       *)
(* payment's bucket, its HTLC attempts, the sequence numbers payments are  *)
(* filed under, and the index of payments in flight that a restart reads.  *)
(* Every operation is one database transaction, so one action.             *)
(*                                                                         *)
(* InitPayment writes a new payment over a failed one: attempts and        *)
(* failure reason of the old one are deleted.  Attempts are MPP shards     *)
(* that agree on total and payment address.                                *)
(***************************************************************************)
EXTENDS Integers, FiniteSets, FiniteSetsExt

CONSTANTS
    Attempts,       \* attempt IDs, numbers handed out by NextPaymentID
    Value,          \* PaymentCreationInfo.Value
    SeqBlock        \* paymentSeqBlockSize

ASSUME ControlAssumption ==
    /\ Attempts \subseteq Nat \ {0}
    /\ Value \in Nat \ {0}
    /\ SeqBlock \in Nat \ {0}

VARIABLES
    seq,            \* paymentSequenceKey of the bucket, 0 when there is none
    attempt,        \* state of each attempt in the HTLC bucket
    amt,            \* receiver amount of each attempt
    reason,         \* paymentFailInfoKey: has a failure reason been put?
    index,          \* paymentsIndexBucket: the numbers that lead to the hash
    inflight,       \* paymentsInflightIndexBucket
    dbSeq,          \* the bound reserved in the database
    currSeq,        \* currPaymentSeq, in memory
    storedSeq       \* storedPaymentSeq, in memory

payment == <<seq, attempt, amt, reason, index, inflight>>
counters == <<dbSeq, currSeq, storedSeq>>
controlVars == <<payment, counters>>

AttemptStates == {"none", "inflight", "settled", "failed"}
Statuses == {"Unknown", "InFlight", "Succeeded", "Failed"}

-----------------------------------------------------------------------------
InFlightIn(at) == {a \in Attempts : at[a] = "inflight"}

SettledIn(at) == {a \in Attempts : at[a] = "settled"}

\* Mutant: a failure reason outweighs a settled attempt.
StatusOfReasonFirst(sq, at, rs) ==
    IF sq = 0 THEN "Unknown"
    ELSE IF InFlightIn(at) = {} /\ rs THEN "Failed"
    ELSE IF InFlightIn(at) = {} /\ SettledIn(at) # {} THEN "Succeeded"
    ELSE "InFlight"

\* The status fetchPayment derives from the bucket.
StatusOf(sq, at, rs) ==
    IF sq = 0 THEN "Unknown"
    ELSE IF InFlightIn(at) = {} /\ SettledIn(at) # {} THEN "Succeeded"
    ELSE IF InFlightIn(at) = {} /\ rs THEN "Failed"
    ELSE "InFlight"

Status == StatusOf(seq, attempt, reason)

InFlightHTLCs == InFlightIn(attempt)

\* A settled attempt or a failure reason is on record.
TerminalInfo == SettledIn(attempt) # {} \/ reason

\* The amount of the attempts that have not failed.
SentAmt ==
    MapThenSumSet(LAMBDA a : amt[a],
                  {a \in Attempts : attempt[a] \in {"inflight", "settled"}})

\* Mutant: a number is never taken out of the index.
UpdatedInflightIndexGrows(sq, status) ==
    IF status = "InFlight" THEN inflight \cup {sq} ELSE inflight

\* The in-flight index after the payment filed under sq got this status.
UpdatedInflightIndex(sq, status) ==
    IF status = "InFlight" THEN inflight \cup {sq} ELSE inflight \ {sq}

-----------------------------------------------------------------------------
\* The next number: a new block is reserved in the database when the current
\* one is used up, or when nothing has been reserved since the start.
NextSequence ==
    (IF currSeq = storedSeq /\ currSeq = 0 THEN dbSeq ELSE currSeq) + 1

NextPaymentSequence ==
    /\ currSeq' = NextSequence
    /\ IF currSeq = storedSeq
         THEN /\ dbSeq' = dbSeq + SeqBlock
              /\ storedSeq' = dbSeq + SeqBlock
         ELSE UNCHANGED <<dbSeq, storedSeq>>

InitPayment ==
    /\ NextPaymentSequence
    /\ Status \in {"Unknown", "Failed"}
    /\ index' = (index \ {seq}) \cup {NextSequence}
    /\ seq' = NextSequence
    /\ attempt' = [a \in Attempts |-> "none"]
    /\ amt' = [a \in Attempts |-> 0]
    /\ inflight' = inflight \cup {NextSequence}
    /\ reason' = FALSE

\* ErrPaymentInFlight, ErrAlreadyPaid: the number is used up all the same.
InitPaymentRefused ==
    /\ NextPaymentSequence
    /\ Status \in {"InFlight", "Succeeded"}
    /\ UNCHANGED payment

\* RegisterAttempt's checks, without those on the MPP options.
CanRegister(v) ==
    /\ ~TerminalInfo
    /\ Status = "InFlight"
    /\ SentAmt + v <= Value

\* Mutant: a new attempt takes the place of one that failed.
RegisterAttemptReplaces(a, v) ==
    /\ CanRegister(v)
    /\ attempt' = [b \in Attempts |-> CASE b = a                 -> "inflight"
                                        [] attempt[b] = "failed" -> "none"
                                        [] OTHER                 -> attempt[b]]
    /\ amt' = [amt EXCEPT ![a] = v]
    /\ inflight' = UpdatedInflightIndex(seq,
                     StatusOf(seq, [attempt EXCEPT ![a] = "inflight"], reason))
    /\ UNCHANGED <<seq, reason, index, counters>>

RegisterAttempt(a, v) ==
    /\ CanRegister(v)
    /\ attempt' = [attempt EXCEPT ![a] = "inflight"]
    /\ amt' = [amt EXCEPT ![a] = v]
    /\ inflight' = UpdatedInflightIndex(seq,
                     StatusOf(seq, [attempt EXCEPT ![a] = "inflight"], reason))
    /\ UNCHANGED <<seq, reason, index, counters>>

\* updateHtlcKey's checks: the payment is in flight, the attempt is registered
\* and has no outcome yet.
CanUpdateHtlc(a) == Status = "InFlight" /\ attempt[a] = "inflight"

UpdateHtlcKey(a, outcome) ==
    /\ CanUpdateHtlc(a)
    /\ attempt' = [attempt EXCEPT ![a] = outcome]
    /\ inflight' = UpdatedInflightIndex(seq,
                     StatusOf(seq, [attempt EXCEPT ![a] = outcome], reason))
    /\ UNCHANGED <<seq, amt, reason, index, counters>>

SettleAttempt(a) == UpdateHtlcKey(a, "settled")

FailAttempt(a) == UpdateHtlcKey(a, "failed")

\* Any known payment takes a failure reason.
Fail ==
    /\ Status # "Unknown"
    /\ reason' = TRUE
    /\ inflight' = UpdatedInflightIndex(seq, StatusOf(seq, attempt, TRUE))
    /\ UNCHANGED <<seq, attempt, amt, index, counters>>

\* What FetchInFlightPayments finds: it reads the in-flight index, fails on a
\* number that leads to no payment, and skips a payment that is not in flight.
FetchFails == ~(inflight \subseteq index)
FetchInFlight == inflight # {} /\ Status = "InFlight"

\* A restart: the cached counters start from zero again.
ResetCounters ==
    /\ currSeq' = 0
    /\ storedSeq' = 0
    /\ UNCHANGED dbSeq

-----------------------------------------------------------------------------
ControlInit ==
    /\ seq = 0
    /\ attempt = [a \in Attempts |-> "none"]
    /\ amt = [a \in Attempts |-> 0]
    /\ reason = FALSE
    /\ index = {}
    /\ inflight = {}
    /\ dbSeq = 0
    /\ currSeq = 0
    /\ storedSeq = 0

\* Callers in any order; an attempt ID is registered at most once in a payment.
ControlNext ==
    \/ InitPayment
    \/ InitPaymentRefused
    \/ \E a \in Attempts :
         \/ \E v \in 1..Value : attempt[a] = "none" /\ RegisterAttempt(a, v)
         \/ SettleAttempt(a)
         \/ FailAttempt(a)
    \/ Fail
    \/ ResetCounters /\ UNCHANGED payment

ControlSpec == ControlInit /\ [][ControlNext]_controlVars

-----------------------------------------------------------------------------
\* The store's variables hold what the buckets can hold.
ControlTypeOK ==
    /\ seq \in Nat /\ dbSeq \in Nat /\ currSeq \in Nat /\ storedSeq \in Nat
    /\ attempt \in [Attempts -> AttemptStates]
    /\ amt \in [Attempts -> 0..Value]
    /\ reason \in BOOLEAN
    /\ index \subseteq Nat
    /\ inflight \subseteq Nat

\* The number the payment is filed under was reserved in the database, and the
\* numbers still to be handed out are beyond it, after a restart as well.
SequencesFresh ==
    /\ seq <= dbSeq
    /\ \/ currSeq = 0 /\ storedSeq = 0
       \/ /\ storedSeq = dbSeq
          /\ currSeq <= storedSeq
          /\ seq <= currSeq
          /\ currSeq > 0

\* The in-flight index is exact: it leads a restart to the payment when and
\* only when the payment's status is InFlight, and every number in it is in the
\* sequence index, so that FetchInFlightPayments never fails
\* (payments_inflight.go, read by ChannelRouter.Start).
InflightIndexExact ==
    /\ index = IF seq = 0 THEN {} ELSE {seq}
    /\ inflight = IF Status = "InFlight" THEN {seq} ELSE {}

\* The inductive invariant of the store.
ControlInv == ControlTypeOK /\ SequencesFresh /\ InflightIndexExact

\* A payment that succeeded stays so ("InitPayment should always return an
\* error" after SettleAttempt), whatever its callers do in whatever order, and
\* the outcome of an attempt never changes while the payment lives.  The
\* callers are the router and its restart: DeletePayment and DeletePayments,
\* by which a user removes payments that are not in flight, are left out.
OutcomesAreFinal ==
    [][/\ Status = "Succeeded" => Status' = "Succeeded" /\ seq' = seq
       /\ \A a \in Attempts :
            attempt[a] \in {"settled", "failed"} /\ seq' = seq
               => attempt'[a] = attempt[a]]_controlVars
=============================================================================
