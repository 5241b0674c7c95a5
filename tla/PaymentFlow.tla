----------------------------- MODULE PaymentFlow -----------------------------
(***************************************************************************)
(* A payment from end to end: the sending node (PaymentLifecycle), the     *)
(* network, which carries an HTLC to the receiver or fails it on the way,  *)
(* and a receiver that keeps the contract of an invoice (InvoiceContract,  *)
(* which InvoiceRegistry implements).                                      *)
(***************************************************************************)
EXTENDS PaymentLifecycle

VARIABLE claimed    \* the HTLCs for which the receiver released the preimage

Receiver == INSTANCE InvoiceContract WITH Keys <- Attempts

vars == <<payerVars, claimed>>

\* Everything of the sender but where the HTLCs are.
senderVars == <<controlVars, sessionVars, nextID, switchVars, added, htlcAmt,
                linkUp, boundVars>>

-----------------------------------------------------------------------------
\* The HTLC reaches the receiver, ...
LockIn(a) ==
    /\ htlc[a] = "signed"
    /\ htlc' = [htlc EXCEPT ![a] = "offered"]
    /\ UNCHANGED <<senderVars, claimed>>

\* ... or a hop on the way fails it.
HopFails(a) ==
    /\ htlc[a] = "signed"
    /\ htlc' = [htlc EXCEPT ![a] = "failed"]
    /\ UNCHANGED <<senderVars, claimed>>

\* The receiver decides, or answers an HTLC.
ReceiverClaims ==
    /\ \E S \in SUBSET Attempts : Receiver!Claim(S)
    /\ UNCHANGED senderVars

ReceiverAnswers(a) ==
    /\ Receiver!AnswerHtlcs({a})
    /\ UNCHANGED senderVars

Init == PayerInit /\ Receiver!ContractInit

Next ==
    \/ PayerNext /\ UNCHANGED claimed
    \/ \E a \in Attempts : LockIn(a) \/ HopFails(a) \/ ReceiverAnswers(a)
    \/ ReceiverClaims

Spec == Init /\ [][Next]_vars

\* The next step of an HTLC that is out is the network's, then the receiver's, then
\* the switch's: at most one of them is enabled at a time, and so it is with the
\* link's signing and starting.
HtlcStep(a) ==
    \/ LockIn(a) \/ HopFails(a)
    \/ ReceiverAnswers(a)
    \/ ResponseStep(a) /\ UNCHANGED claimed

\* Goroutines run, the link comes back, the network carries or fails an HTLC and
\* the receiver answers it (HeldHtlcAnswered of InvoiceRegistry); nobody has to
\* send, claim, stop or crash.
Fairness ==
    /\ \A s \in Sessions : WF_vars(SessionStep(s) /\ UNCHANGED claimed)
    /\ \A s \in Sessions, a \in Attempts :
         WF_vars(CollectorStep(s, a) /\ UNCHANGED claimed)
    /\ \A a \in Attempts : WF_vars(HtlcStep(a))
    /\ WF_vars((LinkSigns \/ LinkStarts) /\ UNCHANGED claimed)

FairSpec == Spec /\ Fairness

-----------------------------------------------------------------------------
\* The sender's variables hold what the code can put there.
FlowTypeOK ==
    /\ ControlTypeOK
    /\ pc \in [Sessions -> PCs]
    /\ col \in [Sessions \X Attempts -> ColStates]
    /\ htlc \in [Attempts -> HtlcStates]
    /\ results \in [Attempts -> {"none", "settle", "fail"}]
    /\ circuits \cup added \cup acked \subseteq Attempts

\* An HTLC that the receiver can still claim, or has claimed, is on record as in
\* flight or settled in the sender's payment store: a failed attempt, a failed
\* payment and a payment that was started over leave no HTLC behind, through
\* crashes, and link stops other than one between the link's answer to a local
\* add and its reading by the sender (StopsMidSend, which breaks this), for one
\* lifecycle at a time (launchShard: "it means that the attempt was not sent
\* onto the network, so no result will be available in the future for it").
LiveHtlcIsOnRecord ==
    \A a \in Attempts :
       /\ a \in added \/ htlc[a] \in {"signed", "offered"}
             => attempt[a] = "inflight"
       /\ htlc[a] = "settled" => attempt[a] \in {"inflight", "settled"}

\* Sender and receiver agree: the payment succeeds only when the receiver has
\* claimed exactly its value and every one of those HTLCs is settled, and once
\* the receiver has claimed, the payment does not count as failed and cannot be
\* paid again.
BothEndsAgree ==
    /\ Status = "Succeeded" =>
         /\ claimed # {}
         /\ {a \in Attempts : attempt[a] = "settled"} = claimed
    /\ claimed # {} => Status \in {"InFlight", "Succeeded"}

\* An attempt whose circuit was committed but whose HTLC never reached a
\* commitment, while nobody is sending it any more: the switch knows the circuit
\* and waits for a response that nothing will produce.
Stranded(a) ==
    /\ attempt[a] = "inflight"
    /\ a \in circuits
    /\ htlc[a] = "none"
    /\ a \notin added
    /\ \A s \in Sessions : cur[s] = a => pc[s] \notin
         {"offer", "accepted", "acceptedQuit", "failClear", "failInternal"}

\* A payment in flight ends: it succeeds or fails, however results, restarts,
\* timeouts and link stops interleave.  One way to stay in flight is known and
\* excepted: a stranded attempt.
PaymentResolves ==
    Status = "InFlight" ~>
       \/ Status \in {"Succeeded", "Failed"}
       \/ \E a \in Attempts : Stranded(a)
=============================================================================
