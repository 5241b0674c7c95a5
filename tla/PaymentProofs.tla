--------------------------- MODULE PaymentProofs ----------------------------
(***************************************************************************)
(* Proofs about the payment store and about a payment from end to end, for *)
(* every set of attempts and sessions, every value and block size and any  *)
(* number of sends, crashes and link stops.                                *)
(*                                                                         *)
(* What is proved of PaymentFlow takes one lifecycle of the payment to run *)
(* at a time, and the link not to stop while a sender reads its answer;    *)
(* README.md shows what happens without either.                            *)
(***************************************************************************)
EXTENDS PaymentFlow, TLAPS

-----------------------------------------------------------------------------
(***************************************************************************)
(* The payment store.                                                      *)
(***************************************************************************)

\* The status fetchPayment derives is one of the four.
LEMMA StatusType ==
    ASSUME NEW sq, NEW at, NEW rs
    PROVE  StatusOf(sq, at, rs) \in Statuses
BY Zenon DEF StatusOf, Statuses

\* Handing out the next number keeps the counters consistent, and the number is
\* beyond every number in use (nextPaymentSequence).
LEMMA NextIsFresh ==
    ASSUME ControlInv, NextPaymentSequence
    PROVE  /\ dbSeq' \in Nat /\ currSeq' \in Nat /\ storedSeq' \in Nat
           /\ storedSeq' = dbSeq' /\ currSeq' <= storedSeq' /\ currSeq' > 0
           /\ currSeq' = NextSequence /\ NextSequence \in Nat
           /\ seq < NextSequence /\ dbSeq <= dbSeq'
BY ControlAssumption
   DEF ControlInv, ControlTypeOK, SequencesFresh, NextPaymentSequence,
       NextSequence

\* The store's inductive invariant holds initially.
LEMMA InitInv == ControlInit => ControlInv
<1> SUFFICES ASSUME ControlInit PROVE ControlInv
  OBVIOUS
<1>1. ControlTypeOK
  <2>1. attempt \in [Attempts -> AttemptStates]
    BY Zenon DEF ControlInit, AttemptStates
  <2>2. 0 \in 0..Value
    BY ControlAssumption
  <2>3. amt \in [Attempts -> 0..Value]
    BY <2>2, Zenon DEF ControlInit
  <2>4. reason \in BOOLEAN
    BY Zenon DEF ControlInit
  <2> QED BY <2>1, <2>3, <2>4, Zenon DEF ControlInit, ControlTypeOK
<1>2. SequencesFresh
  BY DEF ControlInit, SequencesFresh
<1>3. InflightIndexExact
  BY Zenon DEF ControlInit, InflightIndexExact, Status, StatusOf
<1> QED BY <1>1, <1>2, <1>3, Zenon DEF ControlInv

\* Every operation of the store preserves the inductive invariant.
LEMMA StepInv == ControlInv /\ [ControlNext]_controlVars => ControlInv'
<1> SUFFICES ASSUME ControlInv, [ControlNext]_controlVars PROVE ControlInv'
  OBVIOUS
<1> USE ControlAssumption
<1>1. CASE InitPayment
  <2>1. /\ dbSeq' \in Nat /\ currSeq' \in Nat /\ storedSeq' \in Nat
        /\ storedSeq' = dbSeq' /\ currSeq' <= storedSeq' /\ currSeq' > 0
        /\ seq' = currSeq' /\ seq' \in Nat /\ seq' # 0
    BY <1>1, NextIsFresh DEF InitPayment
  <2>2. ControlTypeOK'
    <3>1. attempt' \in [Attempts -> AttemptStates]
      BY <1>1, Zenon DEF InitPayment, AttemptStates
    <3>2. 0 \in 0..Value
      OBVIOUS
    <3>3. amt' \in [Attempts -> 0..Value]
      BY <1>1, <3>2, Zenon DEF InitPayment
    <3>4. reason' \in BOOLEAN
      BY <1>1, Zenon DEF InitPayment
    <3>5. index' \subseteq Nat /\ inflight' \subseteq Nat
      BY <1>1, <2>1, Zenon DEF InitPayment, ControlInv, ControlTypeOK
    <3> QED BY <2>1, <3>1, <3>3, <3>4, <3>5, Zenon DEF ControlTypeOK
  <2>3. SequencesFresh'
    BY <2>1 DEF SequencesFresh
  <2>4. inflight = {} /\ index \subseteq {seq}
    BY <1>1, Zenon DEF InitPayment, ControlInv, InflightIndexExact
  <2>5. InFlightIn(attempt') = {} /\ SettledIn(attempt') = {} /\ reason' = FALSE
    BY <1>1, Zenon DEF InitPayment, InFlightIn, SettledIn
  <2>6. Status' = "InFlight"
    BY <2>1, <2>5, Zenon DEF Status, StatusOf
  <2>7. InflightIndexExact'
    BY <1>1, <2>1, <2>4, <2>6, Zenon DEF InitPayment, InflightIndexExact
  <2> QED BY <2>2, <2>3, <2>7, Zenon DEF ControlInv
<1>2. CASE InitPaymentRefused
  <2>1. /\ dbSeq' \in Nat /\ currSeq' \in Nat /\ storedSeq' \in Nat
        /\ storedSeq' = dbSeq' /\ currSeq' <= storedSeq' /\ currSeq' > 0
        /\ seq < currSeq' /\ seq' = seq /\ dbSeq <= dbSeq'
    BY <1>2, NextIsFresh, Zenon DEF InitPaymentRefused, payment
  <2>2. UNCHANGED <<seq, attempt, amt, reason, index, inflight>>
    BY <1>2, Zenon DEF InitPaymentRefused, payment
  <2>3. ControlTypeOK'
    BY <2>1, <2>2, Zenon DEF ControlInv, ControlTypeOK
  <2>4. SequencesFresh'
    BY <2>1, <2>3 DEF ControlInv, ControlTypeOK, SequencesFresh
  <2>5. InflightIndexExact'
    BY <2>2, Zenon DEF ControlInv, InflightIndexExact, Status, StatusOf, InFlightIn,
                SettledIn
  <2> QED BY <2>3, <2>4, <2>5, Zenon DEF ControlInv
<1>3. ASSUME NEW a \in Attempts, NEW v \in 1..Value, RegisterAttempt(a, v)
      PROVE  ControlInv'
  <2>1. UNCHANGED <<seq, reason, index, dbSeq, currSeq, storedSeq>>
    BY <1>3, Zenon DEF RegisterAttempt, counters
  <2>2. Status = "InFlight" /\ seq # 0
    BY <1>3, Zenon DEF RegisterAttempt, CanRegister, Status, StatusOf
  <2>3. attempt' = [attempt EXCEPT ![a] = "inflight"]
    BY <1>3, Zenon DEF RegisterAttempt
  <2>4. Status' = StatusOf(seq, attempt', reason)
    BY <2>1, Zenon DEF Status
  <2>5. inflight' = UpdatedInflightIndex(seq, Status')
    BY <1>3, <2>3, <2>4, Zenon DEF RegisterAttempt
  <2>6. inflight = {seq} /\ index = {seq}
    BY <2>2, Zenon DEF ControlInv, InflightIndexExact
  <2>7. InflightIndexExact'
    BY <2>1, <2>2, <2>5, <2>6, Zenon DEF InflightIndexExact, UpdatedInflightIndex
  <2>8. amt' \in [Attempts -> 0..Value]
    BY <1>3 DEF RegisterAttempt, ControlInv, ControlTypeOK
  <2>9. ControlTypeOK'
    BY <2>1, <2>3, <2>5, <2>6, <2>8, Zenon
       DEF ControlInv, ControlTypeOK, AttemptStates, UpdatedInflightIndex
  <2>10. SequencesFresh'
    BY <2>1, Zenon DEF ControlInv, SequencesFresh
  <2> QED BY <2>7, <2>9, <2>10, Zenon DEF ControlInv
<1>4. ASSUME NEW a \in Attempts, NEW o \in {"settled", "failed"},
             UpdateHtlcKey(a, o)
      PROVE  ControlInv'
  <2>1. UNCHANGED <<seq, amt, reason, index, dbSeq, currSeq, storedSeq>>
    BY <1>4, Zenon DEF UpdateHtlcKey, counters
  <2>2. Status = "InFlight" /\ seq # 0
    BY <1>4, Zenon DEF UpdateHtlcKey, CanUpdateHtlc, Status, StatusOf
  <2>3. attempt' = [attempt EXCEPT ![a] = o]
    BY <1>4, Zenon DEF UpdateHtlcKey
  <2>4. Status' = StatusOf(seq, attempt', reason)
    BY <2>1, Zenon DEF Status
  <2>5. inflight' = UpdatedInflightIndex(seq, Status')
    BY <1>4, <2>3, <2>4, Zenon DEF UpdateHtlcKey
  <2>6. inflight = {seq} /\ index = {seq}
    BY <2>2, Zenon DEF ControlInv, InflightIndexExact
  <2>7. InflightIndexExact'
    BY <2>1, <2>2, <2>5, <2>6, Zenon DEF InflightIndexExact, UpdatedInflightIndex
  <2>8. ControlTypeOK'
    BY <2>1, <2>3, <2>5, <2>6, Zenon
       DEF ControlInv, ControlTypeOK, AttemptStates, UpdatedInflightIndex
  <2>9. SequencesFresh'
    BY <2>1, Zenon DEF ControlInv, SequencesFresh
  <2> QED BY <2>7, <2>8, <2>9, Zenon DEF ControlInv
<1>5. CASE Fail
  <2>1. /\ UNCHANGED <<seq, attempt, amt, index, dbSeq, currSeq, storedSeq>>
        /\ reason' = TRUE
    BY <1>5, Zenon DEF Fail, counters
  <2>2. seq # 0
    BY <1>5, Zenon DEF Fail, Status, StatusOf
  <2>3. Status' = StatusOf(seq, attempt, TRUE)
    BY <2>1, Zenon DEF Status
  <2>4. inflight' = UpdatedInflightIndex(seq, Status')
    BY <1>5, <2>3, Zenon DEF Fail
  <2>5. inflight \subseteq {seq} /\ index = {seq}
    BY <2>2, Zenon DEF ControlInv, InflightIndexExact
  <2>6. InflightIndexExact'
    BY <2>1, <2>2, <2>4, <2>5, Zenon DEF InflightIndexExact, UpdatedInflightIndex
  <2>7. ControlTypeOK'
    BY <2>1, <2>4, <2>5, Zenon
       DEF ControlInv, ControlTypeOK, UpdatedInflightIndex
  <2>8. SequencesFresh'
    BY <2>1, Zenon DEF ControlInv, SequencesFresh
  <2> QED BY <2>6, <2>7, <2>8, Zenon DEF ControlInv
<1>6. CASE ResetCounters /\ UNCHANGED payment
  <2>1. UNCHANGED <<seq, attempt, amt, reason, index, inflight, dbSeq>>
    BY <1>6, Zenon DEF ResetCounters, payment
  <2>2. currSeq' = 0 /\ storedSeq' = 0
    BY <1>6, Zenon DEF ResetCounters
  <2>3. ControlTypeOK' /\ SequencesFresh'
    BY <2>1, <2>2, Zenon DEF ControlInv, ControlTypeOK, SequencesFresh
  <2>4. InflightIndexExact'
    BY <2>1, Zenon DEF ControlInv, InflightIndexExact, Status, StatusOf, InFlightIn,
                SettledIn
  <2> QED BY <2>3, <2>4, Zenon DEF ControlInv
<1>7. CASE UNCHANGED controlVars
  BY <1>7, Zenon DEF controlVars, payment, counters, ControlInv, ControlTypeOK,
              SequencesFresh, InflightIndexExact, Status, StatusOf, InFlightIn,
              SettledIn
<1> QED
  BY <1>1, <1>2, <1>3, <1>4, <1>5, <1>6, <1>7, Zenon
     DEF ControlNext, SettleAttempt, FailAttempt

\* The store keeps its inductive invariant for ever.
THEOREM ControlInvariant == ControlSpec => []ControlInv
<1> QED BY InitInv, StepInv, PTL DEF ControlSpec

\* The in-flight index is exact in every state (payments_inflight.go), so a
\* restart resumes the payment if and only if it is in flight.
THEOREM IndexTheorem == ControlSpec => []InflightIndexExact
<1>1. ControlInv => InflightIndexExact
  BY Zenon DEF ControlInv
<1> QED BY <1>1, ControlInvariant, PTL

\* A payment that succeeded, and the outcome of an attempt, are never
\* overwritten by any sequence of calls (updateHtlcKey, Fail, InitPayment).
THEOREM FinalTheorem == ControlSpec => OutcomesAreFinal
<1> DEFINE Kept ==
        /\ Status = "Succeeded" => Status' = "Succeeded" /\ seq' = seq
        /\ \A a \in Attempts :
             attempt[a] \in {"settled", "failed"} /\ seq' = seq
                => attempt'[a] = attempt[a]
<1>1. ControlInv /\ [ControlNext]_controlVars => [Kept]_controlVars
  <2> SUFFICES ASSUME ControlInv, ControlNext PROVE Kept
    OBVIOUS
  <2>1. CASE InitPayment
    <3>1. seq' # seq
      BY <2>1, NextIsFresh DEF InitPayment, ControlInv, ControlTypeOK
    <3> QED BY <2>1, <3>1, Zenon DEF InitPayment
  <2>2. CASE InitPaymentRefused
    BY <2>2, Zenon DEF InitPaymentRefused, payment, Status
  <2>3. ASSUME NEW a \in Attempts, NEW v, attempt[a] = "none",
               RegisterAttempt(a, v)
        PROVE  Kept
    BY <2>3, Zenon DEF RegisterAttempt, CanRegister, ControlInv, ControlTypeOK
  <2>4. ASSUME NEW a \in Attempts, NEW o, UpdateHtlcKey(a, o)
        PROVE  Kept
    BY <2>4, Zenon DEF UpdateHtlcKey, CanUpdateHtlc, ControlInv, ControlTypeOK
  <2>5. CASE Fail
    BY <2>5, Zenon DEF Fail, Status, StatusOf
  <2>6. CASE ResetCounters /\ UNCHANGED payment
    BY <2>6, Zenon DEF payment, Status
  <2> QED
    BY <2>1, <2>2, <2>3, <2>4, <2>5, <2>6, Zenon
       DEF ControlNext, SettleAttempt, FailAttempt
<1>2. ControlSpec => [][Kept]_controlVars
  BY <1>1, ControlInvariant, PTL DEF ControlSpec
<1> QED BY <1>2, Zenon DEF OutcomesAreFinal

-----------------------------------------------------------------------------
(***************************************************************************)
(* The inductive invariant of a payment from end to end.                   *)
(***************************************************************************)

\* What the proofs need of the types.
FlowTyped ==
    /\ pc \in [Sessions -> PCs]
    /\ want \in [Sessions -> 0..Value]
    /\ cur \in [Sessions -> Attempts \cup {0}]
    /\ col \in [Sessions \X Attempts -> ColStates]
    /\ htlc \in [Attempts -> HtlcStates]
    /\ results \in [Attempts -> {"none", "settle", "fail"}]
    /\ resp \in [Attempts -> {"none", "stored", "acked"}]
    /\ circuits \subseteq Attempts /\ added \subseteq Attempts
    /\ nextID \in Nat

\* One lifecycle at a time, which has read a route for an ID that is free.
OneSession ==
    /\ \A s, t \in Sessions : pc[s] # "idle" /\ pc[t] # "idle" => s = t
    /\ \A s \in Sessions :
         /\ pc[s] # "acceptedQuit"
         /\ pc[s] = "register" => nextID \in Attempts /\ want[s] \in 1..Value

\* Nothing is known of an attempt ID that was not handed out.
FreshIDs ==
    \A a \in Attempts : a >= nextID =>
        /\ attempt[a] = "none" /\ htlc[a] = "none" /\ a \notin added
        /\ \A s \in Sessions : col[<<s, a>>] = "off"

\* Sessions between RegisterAttempt and the outcome of the send.
Launching(s) == pc[s] \in {"send", "offer", "accepted", "failClear", "failInternal"}

\* The attempt being launched is in flight in the store, has no collector yet,
\* and has no HTLC before the link has taken it.
LaunchesAlone ==
    \A s \in Sessions : Launching(s) =>
        /\ cur[s] \in Attempts /\ cur[s] < nextID
        /\ attempt[cur[s]] = "inflight"
        /\ \A t \in Sessions : col[<<t, cur[s]>>] = "off"
        /\ pc[s] # "accepted" => cur[s] \notin added /\ htlc[cur[s]] = "none"
        /\ pc[s] = "offer" => cur[s] \in circuits

\* Collectors are told the truth: a stored result is the outcome of the HTLC,
\* one that is being acknowledged is stored, and a collector finds no circuit
\* only when there is none.
ResultsTrue ==
    \A a \in Attempts :
        /\ results[a] = "settle" => htlc[a] = "settled"
        /\ results[a] = "fail" => htlc[a] = "failed"
        /\ resp[a] \in {"stored", "acked"} => results[a] # "none"
        /\ \A s \in Sessions :
             /\ col[<<s, a>>] = "ready" => results[a] # "none"
             /\ col[<<s, a>>] = "missing" => a \notin circuits \/ results[a] # "none"

\* An HTLC that is out for an attempt in flight has its circuit or its result,
\* and what the link has not signed is nowhere else.
HtlcsTraced ==
    \A a \in Attempts :
        /\ a \in added => htlc[a] = "none"
        /\ attempt[a] = "inflight" /\ (a \in added \/ htlc[a] # "none")
              => a \in circuits \/ results[a] # "none"

\* The preimage is out exactly for the claimed HTLCs, and an attempt is settled
\* in the store only by it.
ClaimsTrue ==
    /\ claimed \subseteq Attempts
    /\ \A a \in Attempts :
         /\ a \in claimed => htlc[a] \in {"offered", "settled"}
         /\ htlc[a] = "settled" => a \in claimed
         /\ attempt[a] = "settled" => htlc[a] = "settled"
         /\ attempt[a] # "none" => seq # 0

\* The inductive invariant.
FlowInv ==
    /\ ControlInv
    /\ FlowTyped
    /\ OneSession
    /\ FreshIDs
    /\ LaunchesAlone
    /\ ResultsTrue
    /\ HtlcsTraced
    /\ ClaimsTrue
    /\ LiveHtlcIsOnRecord

-----------------------------------------------------------------------------
(***************************************************************************)
(* Nothing but the operations of the payment store touches the store.      *)
(***************************************************************************)

\* The payment in the store when an attempt is in flight.
LEMMA InFlightStatus ==
    ASSUME FlowInv, NEW a \in Attempts, attempt[a] = "inflight"
    PROVE  Status = "InFlight" /\ FetchInFlight
<1>1. Status = "InFlight"
  BY Zenon DEF FlowInv, ClaimsTrue, Status, StatusOf, InFlightIn
<1>2. inflight = {seq}
  BY <1>1, Zenon DEF FlowInv, ControlInv, InflightIndexExact
<1> QED BY <1>1, <1>2, Zenon DEF FetchInFlight

\* Every step of a payment is an operation of the payment store or leaves it
\* alone, and no attempt ID is registered twice (NextPaymentID).
LEMMA FlowUsesStore ==
    ASSUME FlowInv, [Next]_vars
    PROVE  [ControlNext]_controlVars
<1>1. CASE UNCHANGED controlVars
  BY <1>1, Zenon
<1>2. CASE \E s \in Sessions : SendPayment(s)
  BY <1>2, Zenon DEF SendPayment, ControlNext
<1>3. CASE SendPaymentRefused
  BY <1>3, Zenon DEF SendPaymentRefused, ControlNext
<1>4. ASSUME NEW s \in Sessions, Register(s)
      PROVE  [ControlNext]_controlVars
  <2>1. nextID \in Attempts /\ want[s] \in 1..Value /\ attempt[nextID] = "none"
    BY <1>4 DEF Register, FlowInv, FlowTyped, OneSession, FreshIDs
  <2> QED BY <1>4, <2>1, Zenon DEF Register, ControlNext
<1>5. ASSUME NEW s \in Sessions, GiveUp(s) \/ HandleLaunchError(s)
      PROVE  [ControlNext]_controlVars
  BY <1>5, Zenon DEF GiveUp, HandleLaunchError, ControlNext
<1>6. ASSUME NEW s \in Sessions, FailLaunched(s)
      PROVE  [ControlNext]_controlVars
  <2>1. cur[s] \in Attempts
    BY <1>6, Zenon DEF FailLaunched, FlowInv, LaunchesAlone, Launching
  <2> QED BY <1>6, <2>1, Zenon DEF FailLaunched, ControlNext
<1>7. ASSUME NEW s \in Sessions, NEW a \in Attempts, CollectorStep(s, a)
      PROVE  [ControlNext]_controlVars
  BY <1>7, Zenon DEF CollectorStep, LookupCircuit, SubscribeResult, GetResult,
              RecordResult, HandleShardError, CollectorQuits, ControlNext
<1>8. CASE CrashAndRestart
  BY <1>8, Zenon DEF CrashAndRestart, ControlNext
<1>9. ASSUME NEW s \in Sessions, SessionStep(s)
      PROVE  [ControlNext]_controlVars
  <2>1. \/ UNCHANGED controlVars
        \/ GiveUp(s) \/ Register(s) \/ FailLaunched(s) \/ HandleLaunchError(s)
    BY <1>9, Zenon DEF SessionStep, StartSession, LoopReturns, LoopWaits, LoopTimesOut,
                LoopFindsRoute, LoopFindsNoRoute, LoopContinues, LoopTakes,
                WaitForShard, Return, SendRefused, CommitCircuit, LinkHandlesAdd,
                SendReturns
  <2> QED BY <1>1, <1>4, <1>5, <1>6, <2>1, Zenon
<1>10. CASE PayerNext
  <2>1. ASSUME NEW a \in Attempts, ResponseStep(a) PROVE UNCHANGED controlVars
    BY <2>1, Zenon DEF ResponseStep, StoreResult, AckSettleFail, TeardownCircuit
  <2>2. ASSUME LinkSigns \/ LinkStops \/ LinkStarts PROVE UNCHANGED controlVars
    BY <2>2, Zenon DEF LinkSigns, LinkStops, LinkStarts
  <2> QED BY <1>1, <1>2, <1>3, <1>7, <1>8, <1>9, <1>10, <2>1, <2>2, Zenon DEF PayerNext
<1>11. ASSUME NEW a \in Attempts, LockIn(a) \/ HopFails(a) \/ ReceiverAnswers(a)
       PROVE  [ControlNext]_controlVars
  BY <1>11, Zenon DEF LockIn, HopFails, ReceiverAnswers, senderVars
<1>12. CASE ReceiverClaims
  BY <1>12, Zenon DEF ReceiverClaims, senderVars
<1>13. CASE UNCHANGED vars
  BY <1>13, Zenon DEF vars, payerVars
<1> QED BY <1>10, <1>11, <1>12, <1>13, Zenon DEF Next

-----------------------------------------------------------------------------
(***************************************************************************)
(* The steps of a session.                                                 *)
(***************************************************************************)

\* A step of the session's own goroutine that launches nothing and at most takes
\* results from its collectors.
LEMMA SessionFrame ==
    ASSUME FlowInv, ControlInv', NEW s \in Sessions, NEW p \in PCs,
           UNCHANGED <<attempt, seq, nextID, results, resp, circuits, added, htlc,
                       claimed>>,
           pc[s] # "idle", pc' = [pc EXCEPT ![s] = p], p # "acceptedQuit",
           p = "register" => nextID \in Attempts /\ want'[s] \in 1..Value,
           p \notin {"send", "offer", "accepted"},
           p \in {"failClear", "failInternal"} =>
               pc[s] \in {"send", "offer", "failClear", "failInternal"}
               /\ cur' = cur,
           want' \in [Sessions -> 0..Value],
           cur' \in [Sessions -> Attempts \cup {0}],
           \A t \in Sessions \ {s} : want'[t] = want[t] /\ cur'[t] = cur[t],
           col' \in [Sessions \X Attempts -> ColStates],
           \A t \in Sessions, a \in Attempts :
               col'[<<t, a>>] \in {col[<<t, a>>], "off"}
    PROVE  FlowInv'
<1>1. \A t \in Sessions : pc'[t] = IF t = s THEN p ELSE pc[t]
  BY Zenon DEF FlowInv, FlowTyped
<1>2. FlowTyped'
  BY Zenon DEF FlowInv, FlowTyped
<1>3. OneSession'
  BY <1>1 DEF FlowInv, OneSession
<1>4. FreshIDs'
  BY DEF FlowInv, FreshIDs
<1>5. LaunchesAlone'
  BY <1>1 DEF FlowInv, LaunchesAlone, Launching
<1>6. ResultsTrue'
  BY DEF FlowInv, ResultsTrue
<1>7. HtlcsTraced' /\ ClaimsTrue' /\ LiveHtlcIsOnRecord'
  BY Zenon DEF FlowInv, HtlcsTraced, ClaimsTrue, LiveHtlcIsOnRecord
<1> QED BY <1>2, <1>3, <1>4, <1>5, <1>6, <1>7, Zenon DEF FlowInv

\* EndLaunch clears the locals of one session.
LEMMA EndLaunchTyped ==
    ASSUME FlowInv, NEW s \in Sessions, EndLaunch(s)
    PROVE  /\ want' \in [Sessions -> 0..Value]
           /\ cur' \in [Sessions -> Attempts \cup {0}]
           /\ \A t \in Sessions \ {s} : want'[t] = want[t] /\ cur'[t] = cur[t]
<1>1. 0 \in 0..Value
  BY ControlAssumption
<1> QED BY <1>1, Zenon DEF EndLaunch, FlowInv, FlowTyped

\* A pass of the loop and the other steps covered by the frame.
LEMMA LoopStep ==
    ASSUME FlowInv, ControlInv', NEW s \in Sessions, UNCHANGED claimed,
           \/ \E D \in SUBSET Delivering(s) :
                \/ LoopReturns(s, D) \/ LoopWaits(s, D) \/ LoopTimesOut(s, D)
                \/ \E v \in 1..Value : LoopFindsRoute(s, D, v)
                \/ LoopFindsNoRoute(s, D)
           \/ GiveUp(s)
           \/ \E a \in Attempts : WaitForShard(s, a)
           \/ Return(s)
           \/ \E kind \in {"failClear", "failInternal"} : SendRefused(s, kind)
           \/ HandleLaunchError(s)
    PROVE  FlowInv'
<1>1. FlowTyped
  BY Zenon DEF FlowInv
<1>2. ASSUME NEW D \in SUBSET Delivering(s),
             \/ LoopReturns(s, D) \/ LoopWaits(s, D) \/ LoopTimesOut(s, D)
             \/ \E v \in 1..Value : LoopFindsRoute(s, D, v)
             \/ LoopFindsNoRoute(s, D)
      PROVE  FlowInv'
  <2>1. LoopTakes(s, D)
    BY <1>2, Zenon DEF LoopReturns, LoopWaits, LoopTimesOut, LoopFindsRoute,
                LoopFindsNoRoute, LoopContinues
  <2>2. /\ UNCHANGED <<attempt, seq, nextID, results, resp, circuits, added, htlc,
                       cur>>
        /\ pc[s] = "loop" /\ col' = Taken(s, D)
    BY <2>1, Zenon DEF LoopTakes, controlVars, payment, switchVars, linkVars
  <2>3. /\ col' \in [Sessions \X Attempts -> ColStates]
        /\ \A t \in Sessions, a \in Attempts :
             col'[<<t, a>>] \in {col[<<t, a>>], "off"}
    BY <1>1, <2>2, Zenon DEF Taken, FlowTyped, ColStates
  <2>4. CASE want' = want /\ \E p \in {"stop", "wait", "giveup"} : Goto(s, p)
    <3>1. PICK p \in {"stop", "wait", "giveup"} : Goto(s, p)
      BY <2>4, Zenon
    <3> QED BY <1>1, <2>2, <2>3, <2>4, <3>1, SessionFrame, Zenon DEF Goto, PCs, FlowTyped
  <2>5. ASSUME NEW v \in 1..Value, LoopFindsRoute(s, D, v) PROVE FlowInv'
    <3>1. /\ nextID \in Attempts /\ want' = [want EXCEPT ![s] = v]
          /\ Goto(s, "register")
      BY <2>5, Zenon DEF LoopFindsRoute
    <3>2. v \in 0..Value
      OBVIOUS
    <3>3. /\ want' \in [Sessions -> 0..Value] /\ want'[s] \in 1..Value
          /\ \A t \in Sessions \ {s} : want'[t] = want[t]
      BY <1>1, <3>1, <3>2, Zenon DEF FlowTyped
    <3> QED BY <1>1, <2>2, <2>3, <3>1, <3>3, SessionFrame, Zenon DEF Goto, PCs, FlowTyped
  <2> QED BY <1>2, <2>4, <2>5, Zenon DEF LoopReturns, LoopWaits, LoopTimesOut,
                                  LoopFindsNoRoute
<1>3. CASE GiveUp(s)
  BY <1>1, <1>3, SessionFrame, Zenon
     DEF GiveUp, Fail, Goto, PCs, FlowTyped, switchVars, linkVars
<1>4. ASSUME NEW a \in Attempts, WaitForShard(s, a) PROVE FlowInv'
  <2>1. PICK p \in {"stop", "loop"} : Goto(s, p)
    BY <1>4, Zenon DEF WaitForShard
  <2>2. /\ UNCHANGED <<attempt, seq, nextID, results, resp, circuits, added, htlc,
                       cur, want>>
        /\ pc[s] = "wait" /\ col' = [col EXCEPT ![<<s, a>>] = "off"]
    BY <1>4, Zenon DEF WaitForShard, Collector, controlVars, payment, switchVars, linkVars
  <2>3. /\ col' \in [Sessions \X Attempts -> ColStates]
        /\ \A t \in Sessions, b \in Attempts :
             col'[<<t, b>>] \in {col[<<t, b>>], "off"}
    BY <1>1, <2>2, Zenon DEF FlowTyped, ColStates
  <2> QED BY <1>1, <2>1, <2>2, <2>3, SessionFrame, Zenon DEF Goto, PCs, FlowTyped
<1>5. CASE Return(s)
  <2>1. /\ UNCHANGED <<attempt, seq, nextID, results, resp, circuits, added, htlc,
                       col>>
        /\ pc[s] = "stop" /\ Goto(s, "idle") /\ EndLaunch(s)
    BY <1>5, Zenon DEF Return, controlVars, payment, switchVars, linkVars
  <2> QED BY <1>1, <2>1, EndLaunchTyped, SessionFrame, Zenon DEF Goto, PCs, FlowTyped
<1>6. ASSUME NEW kind \in {"failClear", "failInternal"}, SendRefused(s, kind)
      PROVE  FlowInv'
  <2>1. /\ UNCHANGED <<attempt, seq, nextID, results, resp, circuits, added, htlc,
                       col, want, cur>>
        /\ pc[s] = "send" /\ Goto(s, kind)
    BY <1>6, Zenon DEF SendRefused, controlVars, payment, switchVars, linkVars
  <2> QED BY <1>1, <2>1, SessionFrame, Zenon DEF Goto, PCs, FlowTyped
<1>7. CASE HandleLaunchError(s)
  <2>1. /\ UNCHANGED <<attempt, seq, nextID, results, resp, circuits, added, htlc,
                       col>>
        /\ pc[s] \in {"handleClear", "handleInternal"} /\ EndLaunch(s)
        /\ \E p \in {"loop", "stop"} : Goto(s, p)
    BY <1>7, Zenon DEF HandleLaunchError, Fail, controlVars, payment, switchVars, linkVars
  <2>2. PICK p \in {"loop", "stop"} : Goto(s, p)
    BY <2>1, Zenon
  <2> QED BY <1>1, <2>1, <2>2, EndLaunchTyped, SessionFrame, Zenon
             DEF Goto, PCs, FlowTyped
<1> QED BY <1>2, <1>3, <1>4, <1>5, <1>6, <1>7, Zenon

\* A new payment over one that failed: no attempt of the old one is out.
LEMMA SendStep ==
    ASSUME Overlap = FALSE, FlowInv, ControlInv', UNCHANGED claimed,
           NEW s \in Sessions, SendPayment(s)
    PROVE  FlowInv'
<1>1. /\ UNCHANGED <<nextID, results, resp, circuits, added, htlc, want, cur, col>>
      /\ \A t \in Sessions : pc[t] = "idle"
      /\ pc' = [pc EXCEPT ![s] = "start"]
      /\ attempt' = [a \in Attempts |-> "none"]
      /\ Status \in {"Unknown", "Failed"}
  BY Zenon DEF SendPayment, InitPayment, Goto, switchVars, linkVars
<1>2. \A a \in Attempts : attempt[a] \in {"none", "failed"}
  BY <1>1 DEF FlowInv, ControlInv, ControlTypeOK, AttemptStates, ClaimsTrue,
              Status, StatusOf, InFlightIn, SettledIn
<1>3. \A t \in Sessions : pc'[t] = IF t = s THEN "start" ELSE "idle"
  BY <1>1, Zenon DEF FlowInv, FlowTyped
<1>4. FlowTyped' /\ OneSession'
  BY <1>1, <1>3 DEF FlowInv, FlowTyped, OneSession, PCs
<1>5. FreshIDs' /\ ResultsTrue' /\ LaunchesAlone'
  BY <1>1, <1>3 DEF FlowInv, FreshIDs, ResultsTrue, LaunchesAlone, Launching
<1>6. HtlcsTraced' /\ ClaimsTrue' /\ LiveHtlcIsOnRecord'
  BY <1>1, <1>2, Zenon DEF FlowInv, HtlcsTraced, ClaimsTrue, LiveHtlcIsOnRecord
<1> QED BY <1>4, <1>5, <1>6, Zenon DEF FlowInv

\* resumePayment starts collectors while no attempt is being launched.
LEMMA StartStep ==
    ASSUME FlowInv, ControlInv', UNCHANGED claimed, NEW s \in Sessions,
           StartSession(s)
    PROVE  FlowInv'
<1>1. /\ UNCHANGED <<attempt, seq, nextID, results, resp, circuits, added, htlc,
                     want, cur>>
      /\ pc[s] = "start" /\ pc' = [pc EXCEPT ![s] = "loop"]
      /\ col' = [c \in DOMAIN col |->
                   IF c[1] = s /\ c[2] \in InFlightHTLCs THEN "get" ELSE col[c]]
  BY Zenon DEF StartSession, Goto, controlVars, payment, switchVars, linkVars
<1>2. /\ col' \in [Sessions \X Attempts -> ColStates]
      /\ \A t \in Sessions, a \in Attempts :
           \/ col'[<<t, a>>] = col[<<t, a>>]
           \/ col'[<<t, a>>] = "get" /\ attempt[a] = "inflight"
  BY <1>1, Zenon DEF FlowInv, FlowTyped, ColStates, InFlightHTLCs, InFlightIn
<1>3. \A t \in Sessions : pc'[t] = IF t = s THEN "loop" ELSE "idle"
  BY <1>1, Zenon DEF FlowInv, FlowTyped, OneSession
<1>4. FlowTyped' /\ OneSession'
  BY <1>1, <1>2, <1>3 DEF FlowInv, FlowTyped, OneSession, PCs
<1>5. FreshIDs'
  <2>1. UNCHANGED <<attempt, nextID, added, htlc>>
    BY <1>1, Zenon
  <2>2. \A t \in Sessions, a \in Attempts :
           attempt[a] = "none" => col'[<<t, a>>] = col[<<t, a>>]
    BY <1>2, Zenon
  <2> QED BY <2>1, <2>2 DEF FlowInv, FreshIDs
<1>6. ResultsTrue'
  BY <1>1, <1>2 DEF FlowInv, ResultsTrue
<1>7. LaunchesAlone'
  BY <1>3, Zenon DEF LaunchesAlone, Launching
<1>8. HtlcsTraced' /\ ClaimsTrue' /\ LiveHtlcIsOnRecord'
  BY <1>1, Zenon DEF FlowInv, HtlcsTraced, ClaimsTrue, LiveHtlcIsOnRecord
<1> QED BY <1>4, <1>5, <1>6, <1>7, <1>8, Zenon DEF FlowInv

\* Registering an attempt: its ID is fresh, and no other session is active.
LEMMA RegisterStep ==
    ASSUME FlowInv, ControlInv', UNCHANGED claimed, NEW s \in Sessions,
           Register(s)
    PROVE  FlowInv'
<1>1. /\ UNCHANGED <<results, resp, circuits, added, htlc, col>>
      /\ pc[s] = "register" /\ nextID' = nextID + 1
      /\ nextID \in Attempts /\ nextID \in Nat
  BY Zenon DEF Register, switchVars, linkVars, FlowInv, FlowTyped, OneSession
<1>2. \A t \in Sessions \ {s} : pc[t] = "idle"
  BY <1>1, Zenon DEF FlowInv, OneSession
<1>3. \A a \in Attempts : a >= nextID' => a >= nextID /\ a # nextID
  BY <1>1, ControlAssumption
<1>4. CASE RegisterAttempt(nextID, want[s])
  <2>1. /\ attempt' = [attempt EXCEPT ![nextID] = "inflight"]
        /\ UNCHANGED <<seq, want>> /\ seq # 0
        /\ cur' = [cur EXCEPT ![s] = nextID]
        /\ pc' = [pc EXCEPT ![s] = "send"]
    BY <1>4, Zenon DEF Register, RegisterAttempt, CanRegister, Goto, Status, StatusOf
  <2>2. \A t \in Sessions : /\ pc'[t] = IF t = s THEN "send" ELSE "idle"
                            /\ cur'[t] = IF t = s THEN nextID ELSE cur[t]
    BY <1>2, <2>1, Zenon DEF FlowInv, FlowTyped
  <2>3. /\ attempt[nextID] = "none" /\ htlc[nextID] = "none"
        /\ nextID \notin added
        /\ \A t \in Sessions : col[<<t, nextID>>] = "off"
    BY <1>1 DEF FlowInv, FreshIDs
  <2>4. \A a \in Attempts : attempt'[a] = IF a = nextID THEN "inflight" ELSE attempt[a]
    BY <2>1, Zenon DEF FlowInv, ControlInv, ControlTypeOK
  <2>5. FlowTyped' /\ OneSession'
    BY <1>1, <2>1, <2>2 DEF FlowInv, FlowTyped, OneSession, PCs
  <2>6. FreshIDs'
    BY <1>1, <1>3, <2>4, Zenon DEF FlowInv, FreshIDs
  <2>7. LaunchesAlone'
    BY <1>1, <2>2, <2>3, <2>4 DEF LaunchesAlone, Launching
  <2>8. ResultsTrue'
    BY <1>1, Zenon DEF FlowInv, ResultsTrue
  <2>9. HtlcsTraced' /\ ClaimsTrue' /\ LiveHtlcIsOnRecord'
    BY <1>1, <2>1, <2>3, <2>4
       DEF FlowInv, HtlcsTraced, ClaimsTrue, LiveHtlcIsOnRecord
  <2> QED BY <2>5, <2>6, <2>7, <2>8, <2>9, Zenon DEF FlowInv
<1>5. CASE EndLaunch(s) /\ UNCHANGED controlVars
           /\ \E p \in {"loop", "stop"} : Goto(s, p)
  <2>1. PICK p \in {"loop", "stop"} : Goto(s, p)
    BY <1>5, Zenon
  <2>2. UNCHANGED <<attempt, seq>>
    BY <1>5, Zenon DEF controlVars, payment
  <2>3. \A t \in Sessions : pc'[t] = IF t = s THEN p ELSE "idle"
    BY <1>2, <2>1, Zenon DEF FlowInv, FlowTyped, Goto
  <2>4. FlowTyped' /\ OneSession'
    BY <1>1, <1>5, <2>1, <2>3, EndLaunchTyped
       DEF FlowInv, FlowTyped, OneSession, PCs, Goto
  <2>5. FreshIDs'
    BY <1>1, <1>3, <2>2, Zenon DEF FlowInv, FreshIDs
  <2>6. LaunchesAlone' /\ ResultsTrue'
    BY <1>1, <2>3 DEF FlowInv, LaunchesAlone, Launching, ResultsTrue
  <2>7. HtlcsTraced' /\ ClaimsTrue' /\ LiveHtlcIsOnRecord'
    BY <1>1, <2>2, Zenon DEF FlowInv, HtlcsTraced, ClaimsTrue, LiveHtlcIsOnRecord
  <2> QED BY <2>4, <2>5, <2>6, <2>7, Zenon DEF FlowInv
<1> QED BY <1>4, <1>5, Zenon DEF Register

\* From the circuit to the link's answer (SendHTLC): the attempt gets its circuit
\* before its HTLC, and only the link's answer starts its collector.
LEMMA LaunchStep ==
    ASSUME FlowInv, ControlInv', UNCHANGED claimed, NEW s \in Sessions,
           CommitCircuit(s) \/ LinkHandlesAdd(s) \/ SendReturns(s)
    PROVE  FlowInv'
<1>1. /\ Launching(s) /\ UNCHANGED <<attempt, seq, nextID, results, resp, htlc>>
      /\ pc[s] # "acceptedQuit"
  BY Zenon DEF CommitCircuit, LinkHandlesAdd, SendReturns, Launching, FlowInv, OneSession,
         controlVars, payment, switchVars, linkVars
<1>2. /\ cur[s] \in Attempts /\ cur[s] < nextID
      /\ attempt[cur[s]] = "inflight"
      /\ \A t \in Sessions : col[<<t, cur[s]>>] = "off"
      /\ pc[s] # "accepted" => cur[s] \notin added /\ htlc[cur[s]] = "none"
      /\ pc[s] = "offer" => cur[s] \in circuits
  BY <1>1, Zenon DEF FlowInv, LaunchesAlone
<1>3. \A t \in Sessions \ {s} : pc[t] = "idle"
  BY <1>1, Zenon DEF FlowInv, OneSession, Launching
<1>4. nextID \in Nat /\ Attempts \subseteq Nat
  BY ControlAssumption, Zenon DEF FlowInv, FlowTyped
<1>5. CASE CommitCircuit(s)
  <2>1. /\ pc[s] = "send" /\ pc' = [pc EXCEPT ![s] = "offer"]
        /\ circuits' = circuits \cup {cur[s]}
        /\ UNCHANGED <<want, cur, col, added>>
    BY <1>5, Zenon DEF CommitCircuit, Goto, linkVars
  <2>2. \A t \in Sessions : pc'[t] = IF t = s THEN "offer" ELSE "idle"
    BY <1>3, <2>1, Zenon DEF FlowInv, FlowTyped
  <2>3. FlowTyped' /\ OneSession'
    BY <1>1, <1>2, <2>1, <2>2 DEF FlowInv, FlowTyped, OneSession, PCs
  <2>4. FreshIDs' /\ LaunchesAlone'
    BY <1>1, <1>2, <2>1, <2>2 DEF FlowInv, FreshIDs, LaunchesAlone, Launching
  <2>5. ResultsTrue'
    BY <1>1, <1>2, <2>1, Zenon DEF FlowInv, ResultsTrue
  <2>6. HtlcsTraced' /\ ClaimsTrue' /\ LiveHtlcIsOnRecord'
    BY <1>1, <2>1, Zenon DEF FlowInv, HtlcsTraced, ClaimsTrue, LiveHtlcIsOnRecord
  <2> QED BY <2>3, <2>4, <2>5, <2>6, Zenon DEF FlowInv
<1>6. CASE LinkHandlesAdd(s)
  <2>1. /\ pc[s] = "offer" /\ UNCHANGED <<want, cur, col, circuits>>
        /\ \/ pc' = [pc EXCEPT ![s] = "accepted"] /\ added' = added \cup {cur[s]}
           \/ pc' = [pc EXCEPT ![s] = "failClear"] /\ added' = added
    BY <1>6, Zenon DEF LinkHandlesAdd, Goto, switchVars
  <2>2. /\ \A t \in Sessions \ {s} : pc'[t] = "idle"
        /\ \/ pc'[s] = "accepted" /\ added' = added \cup {cur[s]}
           \/ pc'[s] = "failClear" /\ added' = added
    BY <1>3, <2>1, Zenon DEF FlowInv, FlowTyped
  <2>3. FlowTyped' /\ OneSession'
    BY <1>1, <1>2, <2>1, <2>2 DEF FlowInv, FlowTyped, OneSession, PCs
  <2>4. FreshIDs'
    BY <1>1, <1>2, <1>4, <2>1, <2>2 DEF FlowInv, FreshIDs
  <2>5. LaunchesAlone'
    BY <1>1, <1>2, <2>1, <2>2, Zenon DEF LaunchesAlone, Launching
  <2>6. ResultsTrue'
    BY <1>1, <2>1, Zenon DEF FlowInv, ResultsTrue
  <2>7. HtlcsTraced' /\ ClaimsTrue' /\ LiveHtlcIsOnRecord'
    BY <1>1, <1>2, <2>1, Zenon DEF FlowInv, HtlcsTraced, ClaimsTrue, LiveHtlcIsOnRecord
  <2> QED BY <2>3, <2>4, <2>5, <2>6, <2>7, Zenon DEF FlowInv
<1>7. CASE SendReturns(s)
  <2>1. /\ pc[s] = "accepted" /\ pc' = [pc EXCEPT ![s] = "loop"]
        /\ col' = [col EXCEPT ![<<s, cur[s]>>] = "get"]
        /\ EndLaunch(s) /\ UNCHANGED <<circuits, added>>
    <3>1. pc[s] = "accepted" /\ UNCHANGED <<circuits, added>>
      BY <1>1, <1>7, Zenon DEF SendReturns, switchVars, linkVars
    <3>2. PICK shutdown \in {FALSE} \cup {pc[s] = "acceptedQuit"} :
            IF shutdown
              THEN Goto(s, "failInternal") /\ UNCHANGED <<col, want, cur>>
              ELSE Goto(s, "loop") /\ Collector(s, cur[s], "get") /\ EndLaunch(s)
      BY <1>7, Zenon DEF SendReturns
    <3>3. shutdown = FALSE
      BY <3>1, <3>2, Zenon
    <3>4. Goto(s, "loop") /\ Collector(s, cur[s], "get") /\ EndLaunch(s)
      BY <3>2, <3>3, Zenon
    <3> QED BY <3>1, <3>4, Zenon DEF Goto, Collector
  <2>2. \A t \in Sessions : pc'[t] = IF t = s THEN "loop" ELSE "idle"
    BY <1>3, <2>1, Zenon DEF FlowInv, FlowTyped
  <2>3. /\ col' \in [Sessions \X Attempts -> ColStates]
        /\ \A t \in Sessions, a \in Attempts :
             \/ col'[<<t, a>>] = col[<<t, a>>]
             \/ col'[<<t, a>>] = "get" /\ a = cur[s]
    <3>1. col \in [Sessions \X Attempts -> ColStates] /\ "get" \in ColStates
      BY Zenon DEF FlowInv, FlowTyped, ColStates
    <3>2. <<s, cur[s]>> \in Sessions \X Attempts
      BY <1>2, Zenon
    <3> QED BY <2>1, <3>1, <3>2, Zenon
  <2>4. FlowTyped' /\ OneSession'
    BY <1>1, <2>1, <2>2, <2>3, EndLaunchTyped DEF FlowInv, FlowTyped, OneSession, PCs
  <2>5. FreshIDs'
    BY <1>1, <1>2, <1>4, <2>1, <2>3 DEF FlowInv, FreshIDs
  <2>6. LaunchesAlone'
    BY <2>2, Zenon DEF LaunchesAlone, Launching
  <2>7. ResultsTrue'
    <3>1. \A t \in Sessions, a \in Attempts :
             col'[<<t, a>>] \in {"ready", "missing"} => col'[<<t, a>>] = col[<<t, a>>]
      BY <2>3, Zenon
    <3>2. UNCHANGED <<results, resp, htlc, circuits>>
      BY <1>1, <2>1, Zenon
    <3> QED BY <3>1, <3>2, Zenon DEF FlowInv, ResultsTrue
  <2>8. HtlcsTraced' /\ ClaimsTrue' /\ LiveHtlcIsOnRecord'
    BY <1>1, <2>1, Zenon DEF FlowInv, HtlcsTraced, ClaimsTrue, LiveHtlcIsOnRecord
  <2> QED BY <2>4, <2>5, <2>6, <2>7, <2>8, Zenon DEF FlowInv
<1> QED BY <1>5, <1>6, <1>7, Zenon

\* A launch that failed: the attempt is failed in the store, and has no HTLC.
LEMMA FailLaunchedStep ==
    ASSUME FlowInv, ControlInv', UNCHANGED claimed, NEW s \in Sessions,
           FailLaunched(s)
    PROVE  FlowInv'
<1>1. /\ Launching(s) /\ pc[s] # "accepted"
      /\ UNCHANGED <<nextID, results, resp, circuits, added, htlc, want, cur, col>>
  BY Zenon DEF FailLaunched, Launching, switchVars, linkVars
<1>2. /\ cur[s] \in Attempts /\ cur[s] < nextID
      /\ attempt[cur[s]] = "inflight"
      /\ cur[s] \notin added /\ htlc[cur[s]] = "none"
  BY <1>1, Zenon DEF FlowInv, LaunchesAlone
<1>3. CanUpdateHtlc(cur[s])
  BY <1>2, InFlightStatus, Zenon DEF CanUpdateHtlc
<1>4. PICK p \in {"handleClear", "handleInternal"} : pc' = [pc EXCEPT ![s] = p]
  BY <1>3, Zenon DEF FailLaunched, Goto
<1>5. attempt' = [attempt EXCEPT ![cur[s]] = "failed"] /\ seq' = seq
  BY <1>3, Zenon DEF FailLaunched, FailAttempt, UpdateHtlcKey
<1>6. \A t \in Sessions : pc'[t] = IF t = s THEN p ELSE "idle"
  BY <1>1, <1>4, Zenon DEF FlowInv, FlowTyped, OneSession, Launching
<1>7. \A a \in Attempts : attempt'[a] = IF a = cur[s] THEN "failed" ELSE attempt[a]
  BY <1>5, Zenon DEF FlowInv, ControlInv, ControlTypeOK
<1>8. FlowTyped' /\ OneSession'
  BY <1>1, <1>4, <1>6 DEF FlowInv, FlowTyped, OneSession, PCs
<1>9. FreshIDs'
  <2>1. nextID \in Nat /\ Attempts \subseteq Nat
    BY ControlAssumption, Zenon DEF FlowInv, FlowTyped
  <2> QED BY <1>1, <1>2, <1>7, <2>1, Zenon DEF FlowInv, FreshIDs
<1>10. LaunchesAlone' /\ ResultsTrue'
  BY <1>1, <1>6 DEF FlowInv, LaunchesAlone, Launching, ResultsTrue
<1>11. HtlcsTraced' /\ ClaimsTrue' /\ LiveHtlcIsOnRecord'
  BY <1>1, <1>2, <1>5, <1>7
     DEF FlowInv, HtlcsTraced, ClaimsTrue, LiveHtlcIsOnRecord
<1> QED BY <1>8, <1>9, <1>10, <1>11, Zenon DEF FlowInv

-----------------------------------------------------------------------------
(***************************************************************************)
(* The collectors, the switch and the link.                                *)
(***************************************************************************)

\* A step of a collector: the attempt is not being launched, and its outcome
\* goes on record only as the HTLC ended or when there is no HTLC.
LEMMA CollectorFrame ==
    ASSUME FlowInv, ControlInv', NEW s \in Sessions, NEW a \in Attempts,
           UNCHANGED <<seq, pc, want, cur, nextID, results, resp, circuits, added,
                       htlc, claimed>>,
           col[<<s, a>>] # "off",
           col' \in [Sessions \X Attempts -> ColStates],
           \A t \in Sessions, b \in Attempts :
               (t = s /\ b = a) \/ col'[<<t, b>>] = col[<<t, b>>],
           col'[<<s, a>>] = "ready" => results[a] # "none",
           col'[<<s, a>>] = "missing" => a \notin circuits \/ results[a] # "none",
           \A b \in Attempts \ {a} : attempt'[b] = attempt[b],
           \/ attempt'[a] = attempt[a]
           \/ /\ attempt[a] = "inflight"
              /\ \/ attempt'[a] = "settled" /\ htlc[a] = "settled"
                 \/ attempt'[a] = "failed" /\ a \notin added
                    /\ htlc[a] \in {"none", "failed"}
    PROVE  FlowInv'
<1>1. FlowTyped' /\ OneSession'
  BY DEF FlowInv, FlowTyped, OneSession
<1>2. FreshIDs'
  BY DEF FlowInv, FreshIDs
<1>3. LaunchesAlone'
  <2>1. \A t \in Sessions : Launching(t) => cur[t] # a
    BY DEF FlowInv, LaunchesAlone
  <2> QED BY <2>1 DEF FlowInv, LaunchesAlone, Launching
<1>4. ResultsTrue'
  BY DEF FlowInv, ResultsTrue
<1>5. HtlcsTraced' /\ ClaimsTrue' /\ LiveHtlcIsOnRecord'
  BY DEF FlowInv, HtlcsTraced, ClaimsTrue, LiveHtlcIsOnRecord
<1> QED BY <1>1, <1>2, <1>3, <1>4, <1>5, Zenon DEF FlowInv

\* Collector changes one entry.
LEMMA CollectorSets ==
    ASSUME FlowInv, NEW s \in Sessions, NEW a \in Attempts, NEW st \in ColStates,
           Collector(s, a, st)
    PROVE  /\ col' \in [Sessions \X Attempts -> ColStates]
           /\ col'[<<s, a>>] = st
           /\ \A t \in Sessions, b \in Attempts :
                (t = s /\ b = a) \/ col'[<<t, b>>] = col[<<t, b>>]
<1>1. col \in [Sessions \X Attempts -> ColStates]
  BY Zenon DEF FlowInv, FlowTyped
<1> QED BY <1>1, Zenon DEF Collector

\* UpdateHtlcKey changes one attempt, which was in flight.
LEMMA UpdateSets ==
    ASSUME FlowInv, NEW a \in Attempts, NEW outcome, UpdateHtlcKey(a, outcome)
    PROVE  /\ attempt[a] = "inflight" /\ attempt'[a] = outcome /\ seq' = seq
           /\ \A b \in Attempts \ {a} : attempt'[b] = attempt[b]
BY Zenon DEF FlowInv, ControlInv, ControlTypeOK, UpdateHtlcKey, CanUpdateHtlc

\* The collector's steps (collectResult).
LEMMA CollectStep ==
    ASSUME FlowInv, ControlInv', UNCHANGED claimed, NEW s \in Sessions,
           NEW a \in Attempts, CollectorStep(s, a)
    PROVE  FlowInv'
<1>1. UNCHANGED <<pc, want, cur, nextID, results, resp, circuits, added, htlc>>
  BY Zenon DEF CollectorStep, LookupCircuit, SubscribeResult, GetResult, RecordResult,
         HandleShardError, CollectorQuits, switchVars, linkVars
<1>2. {"off", "found", "missing", "subscribed", "ready", "err", "refused", "nil",
       "failed"} \subseteq ColStates
  BY Zenon DEF ColStates
<1>3. ASSUME UNCHANGED <<attempt, seq>>, col[<<s, a>>] # "off",
             NEW st \in ColStates, Collector(s, a, st),
             st = "ready" => results[a] # "none",
             st = "missing" => a \notin circuits
      PROVE  FlowInv'
  <2>1. /\ col' \in [Sessions \X Attempts -> ColStates]
        /\ col'[<<s, a>>] = st
        /\ \A t \in Sessions, b \in Attempts :
             (t = s /\ b = a) \/ col'[<<t, b>>] = col[<<t, b>>]
    BY <1>3, CollectorSets, Zenon
  <2>2. UNCHANGED <<seq, pc, want, cur, nextID, results, resp, circuits, added,
                    htlc, claimed>>
    BY <1>1, <1>3, Zenon
  <2> QED BY <1>3, <2>1, <2>2, CollectorFrame, Zenon
<1>4. ASSUME NEW st \in ColStates \ {"ready", "missing"}, Collector(s, a, st),
             NEW outcome, UpdateHtlcKey(a, outcome), col[<<s, a>>] # "off",
             \/ outcome = "settled" /\ htlc[a] = "settled"
             \/ outcome = "failed" /\ a \notin added /\ htlc[a] \in {"none", "failed"}
      PROVE  FlowInv'
  <2>1. /\ col' \in [Sessions \X Attempts -> ColStates]
        /\ col'[<<s, a>>] = st
        /\ \A t \in Sessions, b \in Attempts :
             (t = s /\ b = a) \/ col'[<<t, b>>] = col[<<t, b>>]
    BY <1>4, CollectorSets, Zenon
  <2>2. /\ attempt[a] = "inflight" /\ attempt'[a] = outcome /\ seq' = seq
        /\ \A b \in Attempts \ {a} : attempt'[b] = attempt[b]
    BY <1>4, UpdateSets, Zenon
  <2>3. UNCHANGED <<seq, pc, want, cur, nextID, results, resp, circuits, added,
                    htlc, claimed>>
    BY <1>1, <2>2, Zenon
  <2> QED BY <1>4, <2>1, <2>2, <2>3, CollectorFrame, Zenon
<1>5. CASE LookupCircuit(s, a) \/ SubscribeResult(s, a) \/ CollectorQuits(s, a)
  <2>1. UNCHANGED <<attempt, seq>> /\ col[<<s, a>>] # "off"
    BY <1>5, Zenon DEF LookupCircuit, SubscribeResult, CollectorQuits, Delivering,
                controlVars, payment
  <2>2. \/ Collector(s, a, "missing") /\ a \notin circuits
        \/ Collector(s, a, "ready") /\ results[a] # "none"
        \/ \E st \in {"found", "subscribed", "off"} : Collector(s, a, st)
    BY <1>5, Zenon DEF LookupCircuit, SubscribeResult, CollectorQuits
  <2> QED BY <1>2, <1>3, <2>1, <2>2, Zenon
<1>6. CASE GetResult(s, a)
  <2>1. col[<<s, a>>] = "missing"
    BY <1>6, Zenon DEF GetResult
  <2>2. CASE results[a] # "none" \/ ~CanUpdateHtlc(a)
    <3>1. /\ UNCHANGED <<attempt, seq>>
          /\ \/ Collector(s, a, "ready") /\ results[a] # "none"
             \/ Collector(s, a, "err")
      BY <1>6, <2>2, Zenon DEF GetResult, controlVars, payment
    <3> QED BY <1>2, <1>3, <2>1, <3>1, Zenon
  <2>3. CASE results[a] = "none" /\ CanUpdateHtlc(a)
    <3>1. Collector(s, a, "refused") /\ UpdateHtlcKey(a, "failed")
      BY <1>6, <2>3, Zenon DEF GetResult, FailAttempt
    <3>2. a \notin circuits
      BY <2>1, <2>3, Zenon DEF FlowInv, ResultsTrue
    <3>3. a \notin added /\ htlc[a] = "none"
      BY <2>3, <3>1, <3>2, UpdateSets, Zenon DEF FlowInv, HtlcsTraced
    <3> QED BY <1>2, <1>4, <2>1, <3>1, <3>3, Zenon
  <2> QED BY <2>2, <2>3, Zenon
<1>7. CASE RecordResult(s, a)
  <2>1. col[<<s, a>>] = "ready" /\ results[a] \in {"settle", "fail"}
    BY <1>7, Zenon DEF RecordResult, FlowInv, FlowTyped, ResultsTrue
  <2>2. CASE ~CanUpdateHtlc(a)
    <3>1. UNCHANGED <<attempt, seq>> /\ Collector(s, a, "err")
      BY <1>7, <2>2, Zenon DEF RecordResult, controlVars, payment
    <3> QED BY <1>2, <1>3, <2>1, <3>1, Zenon
  <2>3. CASE CanUpdateHtlc(a) /\ results[a] = "settle"
    <3>1. Collector(s, a, "nil") /\ UpdateHtlcKey(a, "settled")
      BY <1>7, <2>3, Zenon DEF RecordResult, SettleAttempt
    <3>2. htlc[a] = "settled"
      BY <2>3, Zenon DEF FlowInv, ResultsTrue
    <3> QED BY <1>2, <1>4, <2>1, <3>1, <3>2, Zenon
  <2>4. CASE CanUpdateHtlc(a) /\ results[a] = "fail"
    <3>1. Collector(s, a, "failed") /\ UpdateHtlcKey(a, "failed")
      BY <1>7, <2>4, Zenon DEF RecordResult, FailAttempt
    <3>2. htlc[a] = "failed" /\ a \notin added
      BY <2>4, Zenon DEF FlowInv, ResultsTrue, HtlcsTraced
    <3> QED BY <1>2, <1>4, <2>1, <3>1, <3>2, Zenon
  <2> QED BY <2>1, <2>2, <2>3, <2>4, Zenon
<1>8. CASE HandleShardError(s, a)
  <2>1. /\ UNCHANGED <<attempt, seq>> /\ col[<<s, a>>] # "off"
        /\ Collector(s, a, "nil") \/ Collector(s, a, "err")
    BY <1>8, Zenon DEF HandleShardError, Fail, controlVars, payment
  <2> QED BY <1>2, <1>3, <2>1, Zenon
<1> QED BY <1>5, <1>6, <1>7, <1>8, Zenon DEF CollectorStep

\* The switch handles a response: the result is stored before the circuit goes,
\* so an attempt in flight always has one of the two (handleLocalResponse).
LEMMA SwitchStep ==
    ASSUME FlowInv, ControlInv', UNCHANGED claimed, NEW a \in Attempts,
           ResponseStep(a)
    PROVE  FlowInv'
<1>1. UNCHANGED <<attempt, seq, pc, want, cur, nextID, added, htlc>>
  BY Zenon DEF ResponseStep, StoreResult, AckSettleFail, TeardownCircuit, controlVars,
         payment, sessionVars, linkVars
<1>2. OneSession' /\ HtlcsTraced' /\ ClaimsTrue' /\ LiveHtlcIsOnRecord'
      /\ FlowTyped' /\ ResultsTrue' /\ FreshIDs' /\ LaunchesAlone'
  <2>1. OneSession' /\ ClaimsTrue' /\ LiveHtlcIsOnRecord'
    BY <1>1, Zenon DEF FlowInv, OneSession, ClaimsTrue, LiveHtlcIsOnRecord
  <2>2. CASE StoreResult(a)
    <3>1. /\ htlc[a] \in {"settled", "failed"} /\ UNCHANGED circuits
          /\ results' = [results EXCEPT ![a] =
                           IF htlc[a] = "settled" THEN "settle" ELSE "fail"]
          /\ resp' = [resp EXCEPT ![a] = "stored"]
          /\ col' = [c \in DOMAIN col |->
                       IF c[2] = a /\ col[c] = "subscribed" THEN "ready" ELSE col[c]]
      BY <2>2, Zenon DEF StoreResult
    <3>2. /\ col' \in [Sessions \X Attempts -> ColStates]
          /\ \A t \in Sessions, b \in Attempts :
               \/ col'[<<t, b>>] = col[<<t, b>>]
               \/ b = a /\ col[<<t, b>>] = "subscribed" /\ col'[<<t, b>>] = "ready"
      BY <3>1, Zenon DEF FlowInv, FlowTyped, ColStates
    <3>3. /\ \A b \in Attempts \ {a} : results'[b] = results[b] /\ resp'[b] = resp[b]
          /\ htlc[a] = "settled" => results'[a] = "settle"
          /\ htlc[a] = "failed" => results'[a] = "fail"
      BY <3>1, Zenon DEF FlowInv, FlowTyped
    <3>4. FlowTyped'
      BY <1>1, <3>1, <3>2, Zenon DEF FlowInv, FlowTyped
    <3>5. ResultsTrue'
      BY <1>1, <3>1, <3>2, <3>3 DEF FlowInv, ResultsTrue
    <3>6. FreshIDs'
      BY <1>1, <3>2 DEF FlowInv, FreshIDs
    <3>7. LaunchesAlone'
      BY <1>1, <3>1, <3>2 DEF FlowInv, LaunchesAlone, Launching
    <3>8. HtlcsTraced'
      BY <1>1, <3>1, <3>3, Zenon DEF FlowInv, HtlcsTraced
    <3> QED BY <2>1, <3>4, <3>5, <3>6, <3>7, <3>8, Zenon
  <2>3. CASE AckSettleFail(a)
    <3>1. /\ UNCHANGED <<circuits, results, col>> /\ resp[a] = "stored"
          /\ resp' = [resp EXCEPT ![a] = "acked"]
      BY <2>3, Zenon DEF AckSettleFail, sessionVars
    <3>2. \A b \in Attempts :
             resp'[b] \in {"stored", "acked"} => resp[b] \in {"stored", "acked"}
      BY <3>1, Zenon DEF FlowInv, FlowTyped
    <3>3. FlowTyped' /\ FreshIDs' /\ HtlcsTraced'
      BY <1>1, <3>1 DEF FlowInv, FlowTyped, FreshIDs, HtlcsTraced
    <3>4. LaunchesAlone'
      BY <1>1, <3>1, Zenon DEF FlowInv, LaunchesAlone, Launching
    <3>5. ResultsTrue'
      BY <1>1, <3>1, <3>2, Zenon DEF FlowInv, ResultsTrue
    <3> QED BY <2>1, <3>3, <3>4, <3>5, Zenon
  <2>4. CASE TeardownCircuit(a)
    <3>1. /\ UNCHANGED <<results, col>> /\ resp[a] = "acked"
          /\ circuits' = circuits \ {a}
          /\ resp' = [resp EXCEPT ![a] = "none"]
      BY <2>4, Zenon DEF TeardownCircuit, sessionVars
    <3>2. results[a] # "none" /\ htlc[a] # "none"
      BY <3>1, Zenon DEF FlowInv, FlowTyped, ResultsTrue
    <3>3. \A b \in Attempts :
             resp'[b] \in {"stored", "acked"} => resp[b] \in {"stored", "acked"}
      BY <3>1, Zenon DEF FlowInv, FlowTyped
    <3>4. FlowTyped' /\ FreshIDs'
      BY <1>1, <3>1 DEF FlowInv, FlowTyped, FreshIDs
    <3>5. LaunchesAlone'
      BY <1>1, <3>1, <3>2, Zenon DEF FlowInv, LaunchesAlone, Launching
    <3>6. ResultsTrue'
      BY <1>1, <3>1, <3>3, Zenon DEF FlowInv, ResultsTrue
    <3>7. HtlcsTraced'
      BY <1>1, <3>1, <3>2, Zenon DEF FlowInv, HtlcsTraced
    <3> QED BY <2>1, <3>4, <3>5, <3>6, <3>7, Zenon
  <2> QED BY <2>2, <2>3, <2>4, Zenon DEF ResponseStep
<1> QED BY <1>2, Zenon DEF FlowInv

\* The link signs what it took, stops, or starts again.
LEMMA LinkStep ==
    ASSUME StopsMidSend = FALSE, FlowInv, ControlInv', UNCHANGED claimed,
           LinkSigns \/ LinkStops \/ LinkStarts
    PROVE  FlowInv'
<1>1. UNCHANGED <<attempt, seq, want, cur, col, nextID, circuits, results, resp>>
  BY Zenon DEF LinkSigns, LinkStops, LinkStarts, controlVars, payment, sessionVars,
         switchVars
<1>2. CASE LinkSigns
  <2>1. /\ UNCHANGED pc /\ added' = {}
        /\ htlc' = [a \in Attempts |-> IF a \in added THEN "signed" ELSE htlc[a]]
    BY <1>2, Zenon DEF LinkSigns, sessionVars
  <2>2. /\ htlc' \in [Attempts -> HtlcStates]
        /\ \A a \in Attempts : /\ a \in added => htlc[a] = "none" /\ htlc'[a] = "signed"
                               /\ a \notin added => htlc'[a] = htlc[a]
    BY <2>1, Zenon DEF FlowInv, FlowTyped, HtlcsTraced, HtlcStates
  <2>3. FlowTyped' /\ OneSession' /\ FreshIDs'
    BY <1>1, <2>1, <2>2 DEF FlowInv, FlowTyped, OneSession, FreshIDs
  <2>4. LaunchesAlone'
    BY <1>1, <2>1, <2>2 DEF FlowInv, LaunchesAlone, Launching
  <2>5. ResultsTrue'
    BY <1>1, <2>2, Zenon DEF FlowInv, ResultsTrue
  <2>6. HtlcsTraced' /\ ClaimsTrue' /\ LiveHtlcIsOnRecord'
    BY <1>1, <2>1, <2>2, Zenon DEF FlowInv, HtlcsTraced, ClaimsTrue, LiveHtlcIsOnRecord
  <2> QED BY <2>3, <2>4, <2>5, <2>6, Zenon DEF FlowInv
<1>3. CASE LinkStops
  <2>1. /\ UNCHANGED htlc /\ added' = {}
        /\ \A s \in Sessions : pc[s] # "accepted"
        /\ pc' = [s \in Sessions |->
                    CASE pc[s] = "offer"    -> "failInternal"
                      [] pc[s] = "accepted" -> "acceptedQuit"
                      [] OTHER              -> pc[s]]
    BY <1>3, Zenon DEF LinkStops
  <2>2. \A s \in Sessions : pc'[s] = IF pc[s] = "offer" THEN "failInternal" ELSE pc[s]
    BY <2>1, Zenon
  <2>3. pc' \in [Sessions -> PCs]
    BY <2>1, <2>2, Zenon DEF FlowInv, FlowTyped, PCs
  <2>4. FlowTyped' /\ OneSession' /\ FreshIDs'
    BY <1>1, <2>1, <2>2, <2>3 DEF FlowInv, FlowTyped, OneSession, FreshIDs
  <2>5. LaunchesAlone'
    BY <1>1, <2>1, <2>2, Zenon DEF FlowInv, LaunchesAlone, Launching
  <2>6. ResultsTrue' /\ HtlcsTraced' /\ ClaimsTrue' /\ LiveHtlcIsOnRecord'
    BY <1>1, <2>1, Zenon
       DEF FlowInv, ResultsTrue, HtlcsTraced, ClaimsTrue, LiveHtlcIsOnRecord
  <2> QED BY <2>4, <2>5, <2>6, Zenon DEF FlowInv
<1>4. CASE LinkStarts
  BY <1>1, <1>4 DEF LinkStarts, sessionVars, FlowInv, FlowTyped, OneSession,
     FreshIDs, LaunchesAlone, Launching, ResultsTrue, HtlcsTraced, ClaimsTrue,
     LiveHtlcIsOnRecord
<1> QED BY <1>2, <1>3, <1>4, Zenon

\* A crash and restart: an attempt in flight keeps its payment in flight, so
\* CleanStore keeps its result, and the goroutines start over.
LEMMA CrashStep ==
    ASSUME FlowInv, ControlInv', UNCHANGED claimed, CrashAndRestart
    PROVE  FlowInv'
<1>1. /\ UNCHANGED <<attempt, seq, nextID, circuits, htlc>> /\ added' = {}
      /\ want' = [s \in Sessions |-> 0] /\ cur' = [s \in Sessions |-> 0]
      /\ col' = [c \in DOMAIN col |-> "off"]
      /\ resp' = [a \in Attempts |-> "none"]
      /\ pc' = [s \in Sessions |->
                  IF s = 1 /\ FetchInFlight /\ ~FetchFails THEN "start" ELSE "idle"]
      /\ results' = [a \in Attempts |->
                       IF FetchInFlight /\ attempt[a] # "none" THEN results[a]
                                                               ELSE "none"]
  BY Zenon DEF CrashAndRestart, payment
<1>2. /\ pc' \in [Sessions -> PCs]
      /\ \A s \in Sessions : pc'[s] = "idle" \/ (pc'[s] = "start" /\ s = 1)
  BY <1>1, Zenon DEF PCs
<1>3. /\ col' \in [Sessions \X Attempts -> ColStates]
      /\ \A s \in Sessions, a \in Attempts : col'[<<s, a>>] = "off"
  BY <1>1, Zenon DEF FlowInv, FlowTyped, ColStates
<1>4. /\ results' \in [Attempts -> {"none", "settle", "fail"}]
      /\ \A a \in Attempts : /\ results'[a] \in {results[a], "none"}
                             /\ attempt[a] = "inflight" => results'[a] = results[a]
  <2>1. \A a \in Attempts :
           results'[a] = IF FetchInFlight /\ attempt[a] # "none" THEN results[a]
                                                                 ELSE "none"
    BY <1>1, Zenon
  <2>2. \A a \in Attempts : attempt[a] = "inflight" => FetchInFlight
    BY InFlightStatus, Zenon
  <2>3. \A a \in Attempts : results[a] \in {"none", "settle", "fail"}
    BY Zenon DEF FlowInv, FlowTyped
  <2>4. \A a \in Attempts : /\ results'[a] \in {results[a], "none"}
                            /\ attempt[a] = "inflight" => results'[a] = results[a]
    BY <2>1, <2>2, Zenon
  <2>5. results' \in [Attempts -> {"none", "settle", "fail"}]
    BY <1>1, <2>3, Zenon
  <2> QED BY <2>4, <2>5, Zenon
<1>5. FlowTyped'
  <2>1. 0 \in 0..Value
    BY ControlAssumption
  <2> QED BY <1>1, <1>2, <1>3, <1>4, <2>1, Zenon DEF FlowInv, FlowTyped
<1>6. OneSession' /\ LaunchesAlone'
  BY <1>2, Zenon DEF OneSession, LaunchesAlone, Launching
<1>7. FreshIDs'
  BY <1>1, <1>3, Zenon DEF FlowInv, FreshIDs
<1>8. ResultsTrue'
  BY <1>1, <1>3, <1>4, Zenon DEF FlowInv, ResultsTrue
<1>9. HtlcsTraced' /\ ClaimsTrue' /\ LiveHtlcIsOnRecord'
  BY <1>1, <1>4, Zenon DEF FlowInv, HtlcsTraced, ClaimsTrue, LiveHtlcIsOnRecord
<1> QED BY <1>5, <1>6, <1>7, <1>8, <1>9, Zenon DEF FlowInv

-----------------------------------------------------------------------------
(***************************************************************************)
(* The network and the receiver.                                           *)
(***************************************************************************)

\* HTLCs that are out move on: a claimed one is settled, any other fails.
LEMMA NetworkStep ==
    ASSUME FlowInv, ControlInv', NEW a \in Attempts,
           LockIn(a) \/ HopFails(a) \/ ReceiverAnswers(a)
    PROVE  FlowInv'
<1>1. UNCHANGED <<attempt, seq, pc, want, cur, col, nextID, results, resp, circuits,
                  added, claimed>>
  BY Zenon DEF LockIn, HopFails, ReceiverAnswers, Receiver!AnswerHtlcs, senderVars,
         controlVars, payment, sessionVars, switchVars
<1>2. /\ htlc' \in [Attempts -> HtlcStates]
      /\ \A b \in Attempts :
           \/ htlc'[b] = htlc[b]
           \/ /\ htlc[b] \in {"signed", "offered"}
              /\ \/ htlc'[b] = "offered"
                 \/ htlc'[b] = "settled" /\ b \in claimed
                 \/ htlc'[b] = "failed" /\ b \notin claimed
  <2>1. CASE LockIn(a)
    BY <2>1, Zenon DEF LockIn, FlowInv, FlowTyped, HtlcStates
  <2>2. CASE HopFails(a)
    BY <2>2, Zenon DEF HopFails, FlowInv, FlowTyped, HtlcStates, ClaimsTrue
  <2>3. CASE ReceiverAnswers(a)
    BY <2>3, Zenon DEF ReceiverAnswers, Receiver!AnswerHtlcs, Receiver!Pending, FlowInv,
                FlowTyped, HtlcStates
  <2> QED BY <2>1, <2>2, <2>3, Zenon
<1>3. FlowTyped' /\ OneSession' /\ FreshIDs'
  BY <1>1, <1>2 DEF FlowInv, FlowTyped, OneSession, FreshIDs
<1>4. LaunchesAlone'
  BY <1>1, <1>2 DEF FlowInv, LaunchesAlone, Launching
<1>5. ResultsTrue'
  BY <1>1, <1>2, Zenon DEF FlowInv, ResultsTrue
<1>6. HtlcsTraced' /\ ClaimsTrue' /\ LiveHtlcIsOnRecord'
  BY <1>1, <1>2, Zenon DEF FlowInv, HtlcsTraced, ClaimsTrue, LiveHtlcIsOnRecord
<1> QED BY <1>3, <1>4, <1>5, <1>6, Zenon DEF FlowInv

\* The receiver claims once, HTLCs that it holds.
LEMMA ClaimStep ==
    ASSUME FlowInv, ControlInv', ReceiverClaims
    PROVE  FlowInv'
<1>1. /\ UNCHANGED <<attempt, seq, pc, want, cur, col, nextID, results, resp,
                     circuits, added, htlc>>
      /\ claimed = {} /\ claimed' \subseteq {a \in Attempts : htlc[a] = "offered"}
  BY Zenon DEF ReceiverClaims, Receiver!Claim, Receiver!Pending, senderVars, controlVars,
         payment, sessionVars, switchVars
<1>2. FlowTyped' /\ OneSession' /\ FreshIDs' /\ ResultsTrue' /\ HtlcsTraced'
      /\ LiveHtlcIsOnRecord'
  BY <1>1 DEF FlowInv, FlowTyped, OneSession, FreshIDs, ResultsTrue, HtlcsTraced,
              LiveHtlcIsOnRecord
<1>3. LaunchesAlone'
  BY <1>1, Zenon DEF FlowInv, LaunchesAlone, Launching
<1>4. ClaimsTrue'
  BY <1>1, Zenon DEF FlowInv, ClaimsTrue
<1> QED BY <1>2, <1>3, <1>4, Zenon DEF FlowInv

\* A refused SendPayment, and a step of anything else, leave the payment alone.
LEMMA IdleStep ==
    ASSUME FlowInv, ControlInv',
           (SendPaymentRefused /\ UNCHANGED claimed) \/ UNCHANGED vars
    PROVE  FlowInv'
<1>1. UNCHANGED <<attempt, seq, pc, want, cur, col, nextID, results, resp, circuits,
                  added, htlc, claimed>>
  BY Zenon DEF SendPaymentRefused, InitPaymentRefused, vars, payerVars, controlVars,
         payment, sessionVars, switchVars, linkVars
<1>2. FlowTyped' /\ OneSession' /\ FreshIDs' /\ ResultsTrue'
  BY <1>1 DEF FlowInv, FlowTyped, OneSession, FreshIDs, ResultsTrue
<1>3. LaunchesAlone'
  BY <1>1, Zenon DEF FlowInv, LaunchesAlone, Launching
<1>4. HtlcsTraced' /\ ClaimsTrue' /\ LiveHtlcIsOnRecord'
  BY <1>1, Zenon DEF FlowInv, HtlcsTraced, ClaimsTrue, LiveHtlcIsOnRecord
<1> QED BY <1>2, <1>3, <1>4, Zenon DEF FlowInv

-----------------------------------------------------------------------------
(***************************************************************************)
(* The theorems.                                                           *)
(***************************************************************************)

\* A fresh node has no payment and no HTLC.
LEMMA FlowInvInit == Init => FlowInv
<1> SUFFICES ASSUME Init PROVE FlowInv
  OBVIOUS
<1> USE DEF Init, PayerInit, Receiver!ContractInit
<1>1. ControlInv
  BY InitInv, Zenon
<1>2. \A a \in Attempts : attempt[a] = "none"
  BY Zenon DEF ControlInit
<1>3. FlowTyped
  <2>1. 0 \in 0..Value
    BY ControlAssumption
  <2> QED BY <2>1, Zenon DEF FlowTyped, PCs, ColStates, HtlcStates
<1>4. OneSession /\ LaunchesAlone
  BY Zenon DEF OneSession, LaunchesAlone, Launching
<1>5. FreshIDs /\ ResultsTrue
  BY <1>2, Zenon DEF FreshIDs, ResultsTrue
<1>6. HtlcsTraced /\ ClaimsTrue /\ LiveHtlcIsOnRecord
  BY <1>2, Zenon DEF HtlcsTraced, ClaimsTrue, LiveHtlcIsOnRecord
<1> QED BY <1>1, <1>3, <1>4, <1>5, <1>6, Zenon DEF FlowInv

\* Every step keeps the invariant.
LEMMA FlowInvStep ==
    ASSUME Overlap = FALSE, StopsMidSend = FALSE, FlowInv, [Next]_vars
    PROVE  FlowInv'
<1>1. ControlInv'
  BY FlowUsesStore, StepInv, Zenon DEF FlowInv
<1>2. ASSUME UNCHANGED claimed, NEW s \in Sessions, SendPayment(s)
      PROVE  FlowInv'
  BY <1>1, <1>2, SendStep, Zenon
<1>3. ASSUME UNCHANGED claimed, NEW s \in Sessions, SessionStep(s)
      PROVE  FlowInv'
  <2>1. CASE StartSession(s)
    BY <1>1, <1>3, <2>1, StartStep, Zenon
  <2>2. CASE Register(s)
    BY <1>1, <1>3, <2>2, RegisterStep, Zenon
  <2>3. CASE CommitCircuit(s) \/ LinkHandlesAdd(s) \/ SendReturns(s)
    BY <1>1, <1>3, <2>3, LaunchStep, Zenon
  <2>4. CASE FailLaunched(s)
    BY <1>1, <1>3, <2>4, FailLaunchedStep, Zenon
  <2>5. CASE \/ \E D \in SUBSET Delivering(s) :
                  \/ LoopReturns(s, D) \/ LoopWaits(s, D) \/ LoopTimesOut(s, D)
                  \/ \E v \in 1..Value : LoopFindsRoute(s, D, v)
                  \/ LoopFindsNoRoute(s, D)
             \/ GiveUp(s)
             \/ \E a \in Attempts : WaitForShard(s, a)
             \/ Return(s)
             \/ \E kind \in {"failClear", "failInternal"} : SendRefused(s, kind)
             \/ HandleLaunchError(s)
    BY <1>1, <1>3, <2>5, LoopStep, Zenon
  <2> QED BY <1>3, <2>1, <2>2, <2>3, <2>4, <2>5, Zenon DEF SessionStep
<1>4. ASSUME UNCHANGED claimed, NEW s \in Sessions, NEW a \in Attempts,
             CollectorStep(s, a)
      PROVE  FlowInv'
  BY <1>1, <1>4, CollectStep, Zenon
<1>5. ASSUME UNCHANGED claimed, NEW a \in Attempts, ResponseStep(a)
      PROVE  FlowInv'
  BY <1>1, <1>5, SwitchStep, Zenon
<1>6. ASSUME UNCHANGED claimed, LinkSigns \/ LinkStops \/ LinkStarts
      PROVE  FlowInv'
  BY <1>1, <1>6, LinkStep, Zenon
<1>7. ASSUME UNCHANGED claimed, CrashAndRestart PROVE FlowInv'
  BY <1>1, <1>7, CrashStep, Zenon
<1>8. ASSUME UNCHANGED claimed, SendPaymentRefused PROVE FlowInv'
  BY <1>1, <1>8, IdleStep, Zenon
<1>9. CASE PayerNext /\ UNCHANGED claimed
  BY <1>2, <1>3, <1>4, <1>5, <1>6, <1>7, <1>8, <1>9, Zenon DEF PayerNext
<1>10. ASSUME NEW a \in Attempts, LockIn(a) \/ HopFails(a) \/ ReceiverAnswers(a)
       PROVE  FlowInv'
  BY <1>1, <1>10, NetworkStep, Zenon
<1>11. CASE ReceiverClaims
  BY <1>1, <1>11, ClaimStep, Zenon
<1>12. CASE UNCHANGED vars
  BY <1>1, <1>12, IdleStep, Zenon
<1> QED BY <1>9, <1>10, <1>11, <1>12, Zenon DEF Next

\* The invariant holds throughout a payment, with one lifecycle at a time and no
\* link stop while the sender reads the link's answer.
THEOREM FlowInvariant ==
    ASSUME Overlap = FALSE, StopsMidSend = FALSE
    PROVE  Spec => []FlowInv
<1>1. FlowInv /\ [Next]_vars => FlowInv'
  BY FlowInvStep, Zenon
<1> QED BY <1>1, FlowInvInit, PTL DEF Spec

\* An HTLC that the receiver can still claim, or has claimed, is on record as in
\* flight or settled in the sender's payment store, through any number of
\* payments, retries, crashes and link stops (launchShard, collectResult,
\* handleLocalResponse, ChannelRouter.Start).
THEOREM RecordTheorem ==
    ASSUME Overlap = FALSE, StopsMidSend = FALSE
    PROVE  Spec => []LiveHtlcIsOnRecord
<1>1. FlowInv => LiveHtlcIsOnRecord
  BY Zenon DEF FlowInv
<1> QED BY <1>1, FlowInvariant, PTL

\* The sender's status of the payment and the receiver's claim agree in every
\* state (fetchPaymentStatus against the invoice's contract).
THEOREM AgreementTheorem ==
    ASSUME Overlap = FALSE, StopsMidSend = FALSE
    PROVE  Spec => []BothEndsAgree
<1>1. ASSUME FlowInv PROVE BothEndsAgree
  <2>1. \A a \in claimed : a \in Attempts /\ attempt[a] \in {"inflight", "settled"}
    BY <1>1, Zenon DEF FlowInv, ClaimsTrue, LiveHtlcIsOnRecord
  <2>2. \A a \in Attempts : attempt[a] = "settled" => a \in claimed
    BY <1>1, Zenon DEF FlowInv, ClaimsTrue
  <2>3. \A a \in Attempts : attempt[a] # "none" => seq # 0
    BY <1>1, Zenon DEF FlowInv, ClaimsTrue
  <2>4. ASSUME Status = "Succeeded"
        PROVE  claimed # {} /\ {a \in Attempts : attempt[a] = "settled"} = claimed
    <3>1. /\ \A a \in Attempts : attempt[a] # "inflight"
          /\ \E a \in Attempts : attempt[a] = "settled"
      BY <2>4, Zenon DEF Status, StatusOf, InFlightIn, SettledIn
    <3> QED BY <2>1, <2>2, <3>1, Zenon
  <2>5. ASSUME claimed # {} PROVE Status \in {"InFlight", "Succeeded"}
    <3>1. PICK a \in claimed : TRUE
      BY <2>5, Zenon
    <3> QED BY <2>1, <2>3, <3>1, Zenon DEF Status, StatusOf, InFlightIn, SettledIn
  <2> QED BY <2>4, <2>5, Zenon DEF BothEndsAgree
<1> QED BY <1>1, FlowInvariant, PTL

\* A payment is a behaviour of the payment store, so what is proved of the store
\* for callers in any order (IndexTheorem, FinalTheorem) holds of the payment.
THEOREM StoreTheorem ==
    ASSUME Overlap = FALSE, StopsMidSend = FALSE
    PROVE  Spec => []InflightIndexExact /\ OutcomesAreFinal
<1>1. Init => ControlInit
  BY Zenon DEF Init, PayerInit
<1>2. FlowInv /\ [Next]_vars => [ControlNext]_controlVars
  BY FlowUsesStore, Zenon
<1>3. Spec => ControlSpec
  BY <1>1, <1>2, FlowInvariant, PTL DEF Spec, ControlSpec
<1> QED BY <1>3, IndexTheorem, FinalTheorem, PTL
=============================================================================
