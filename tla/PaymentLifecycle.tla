-------------------------- MODULE PaymentLifecycle --------------------------
(***************************************************************************)
(* How a node sends one payment: the payment lifecycles of the router      *)
(* (routing/payment_lifecycle.go, router.go), the collectors that wait for *)
(* the results of the attempts, the switch's part in a local payment       *)
(* (SendHTLC, GetPaymentResult, handleLocalResponse and the result store   *)
(* of htlcswitch) and the outgoing link.                                   *)
(*                                                                         *)
(* A session is one run of resumePayment: a goroutine with a collector     *)
(* goroutine per attempt.  Two sessions of the same payment overlap when   *)
(* the caller pays again while the lifecycle that failed is still          *)
(* returning.  A crash ends all goroutines and keeps what is in the        *)
(* database: the payment store, circuits, results, acknowledgements and    *)
(* signed HTLCs.                                                           *)
(***************************************************************************)
EXTENDS PaymentControl

CONSTANTS
    Sessions,       \* slots for lifecycles that run at the same time
    MaxSends,       \* bound: calls of SendPayment
    MaxFaults,      \* bound: crashes of the sending node and stops of its link
    Overlap,        \* may a caller pay again while the lifecycle of the payment
                    \* that failed is still returning?
    StopsMidSend    \* may the link stop between taking an add and the sender
                    \* reading the link's answer?

VARIABLES
    pc,             \* where each session stands
    want,           \* receiver amount of the route a session is about to use
    cur,            \* the attempt a session is launching
    resumed,        \* session of a restart: its payment session is empty
    armed,          \* the session's timeout may still fire
    col,            \* collector of each session for each attempt
    nextID,         \* NextPaymentID, durable
    circuits,       \* circuits of local payments, durable
    results,        \* networkResultStore, durable
    added,          \* attempts in the link's update log, not signed yet
    htlc,           \* where the HTLC of each attempt is
    htlcAmt,        \* amount of the HTLC of each attempt
    linkUp,         \* the outgoing link runs
    resp,           \* progress of handleLocalResponse for each attempt
    acked,          \* responses acknowledged in the forwarding package
    sends, faults

sessionVars == <<pc, want, cur, resumed, armed, col>>
switchVars == <<circuits, results, resp, acked>>
linkVars == <<added, htlc, htlcAmt, linkUp>>
boundVars == <<sends, faults>>
payerVars == <<controlVars, sessionVars, nextID, switchVars, linkVars, boundVars>>

PCs == {"idle", "start", "loop", "wait", "giveup", "register", "send", "offer",
        "accepted", "acceptedQuit", "failClear", "failInternal",
        "handleClear", "handleInternal", "stop"}
ColStates == {"off", "get", "found", "missing", "subscribed", "ready",
              "failed", "refused", "nil", "err"}
HtlcStates == {"none", "signed", "offered", "settled", "failed"}

-----------------------------------------------------------------------------
Goto(s, p) == pc' = [pc EXCEPT ![s] = p]

\* The locals of an iteration of the loop go out of scope.
EndLaunch(s) ==
    /\ want' = [want EXCEPT ![s] = 0]
    /\ cur' = [cur EXCEPT ![s] = 0]

Collector(s, a, st) == col' = [col EXCEPT ![<<s, a>>] = st]

\* Attempts whose collector waits to hand its result to the session.
Delivering(s) == {a \in Attempts : col[<<s, a>>] \in {"nil", "err"}}

Taken(s, D) == [c \in DOMAIN col |->
                  IF c[1] = s /\ c[2] \in D THEN "off" ELSE col[c]]

\* SendPayment, SendPaymentAsync: preparePayment, then a new lifecycle.
SendPayment(s) ==
    /\ sends < MaxSends
    /\ pc[s] = "idle"
    /\ Overlap \/ \A t \in Sessions : pc[t] = "idle"
    /\ InitPayment
    /\ Goto(s, "start")
    /\ resumed' = [resumed EXCEPT ![s] = FALSE]
    /\ armed' = [armed EXCEPT ![s] = TRUE]
    /\ sends' = sends + 1
    /\ UNCHANGED <<want, cur, col, nextID, switchVars, linkVars, faults>>

SendPaymentRefused ==
    /\ sends < MaxSends
    /\ InitPaymentRefused
    /\ sends' = sends + 1
    /\ UNCHANGED <<sessionVars, nextID, switchVars, linkVars, faults>>

\* resumePayment starts a collector for every attempt in flight.
StartSession(s) ==
    /\ pc[s] = "start"
    /\ Goto(s, "loop")
    /\ col' = [c \in DOMAIN col |->
                 IF c[1] = s /\ c[2] \in InFlightHTLCs THEN "get" ELSE col[c]]
    /\ UNCHANGED <<controlVars, want, cur, resumed, armed, nextID, switchVars,
                   linkVars, boundVars>>

-----------------------------------------------------------------------------
\* One pass of the lifecycle loop: checkShards takes what collectors have ready
\* (D, one of them may be missed), fetchPaymentState reads the store, and the
\* pass ends in one of the five ways below.
LoopTakes(s, D) ==
    /\ pc[s] = "loop"
    /\ D \subseteq Delivering(s)
    /\ col' = Taken(s, D)
    /\ UNCHANGED <<controlVars, cur, resumed, nextID, switchVars, linkVars,
                   boundVars>>

TookError(s, D) == \E a \in D : col[<<s, a>>] = "err"

Terminated == TerminalInfo /\ InFlightHTLCs = {}

NeedWaitForShards ==
    InFlightHTLCs # {} /\ (TerminalInfo \/ SentAmt = Value)

\* An error of a shard, or the payment is over.
LoopReturns(s, D) ==
    /\ LoopTakes(s, D)
    /\ TookError(s, D) \/ Terminated
    /\ Goto(s, "stop")
    /\ UNCHANGED <<want, armed>>

LoopWaits(s, D) ==
    /\ LoopTakes(s, D)
    /\ ~TookError(s, D)
    /\ NeedWaitForShards
    /\ Goto(s, "wait")
    /\ UNCHANGED <<want, armed>>

LoopContinues(s, D) ==
    /\ LoopTakes(s, D)
    /\ ~TookError(s, D)
    /\ ~Terminated
    /\ ~NeedWaitForShards

LoopTimesOut(s, D) ==
    /\ LoopContinues(s, D)
    /\ armed[s]
    /\ armed' = [armed EXCEPT ![s] = FALSE]
    /\ Goto(s, "giveup")
    /\ UNCHANGED want

\* RequestRoute finds a route for v, at most the amount that is not sent.
LoopFindsRoute(s, D, v) ==
    /\ LoopContinues(s, D)
    /\ ~resumed[s]
    /\ nextID \in Attempts
    /\ SentAmt + v <= Value
    /\ want' = [want EXCEPT ![s] = v]
    /\ Goto(s, "register")
    /\ UNCHANGED armed

LoopFindsNoRoute(s, D) ==
    /\ LoopContinues(s, D)
    /\ Goto(s, IF InFlightHTLCs = {} THEN "giveup" ELSE "wait")
    /\ UNCHANGED <<want, armed>>

\* The payment timed out or has no route: Control.Fail, and another pass.
GiveUp(s) ==
    /\ pc[s] = "giveup"
    /\ Fail
    /\ Goto(s, "loop")
    /\ UNCHANGED <<want, cur, resumed, armed, col, nextID, switchVars, linkVars,
                   boundVars>>

\* waitForShard: the next result of a collector.
WaitForShard(s, a) ==
    /\ pc[s] = "wait"
    /\ a \in Delivering(s)
    /\ Goto(s, IF col[<<s, a>>] = "err" THEN "stop" ELSE "loop")
    /\ Collector(s, a, "off")
    /\ UNCHANGED <<controlVars, want, cur, resumed, armed, nextID, switchVars,
                   linkVars, boundVars>>

\* resumePayment returns when the last collector has, shardHandler.stop.
Return(s) ==
    /\ pc[s] = "stop"
    /\ \A a \in Attempts : col[<<s, a>>] = "off"
    /\ Goto(s, "idle")
    /\ EndLaunch(s)
    /\ resumed' = [resumed EXCEPT ![s] = FALSE]
    /\ armed' = [armed EXCEPT ![s] = FALSE]
    /\ UNCHANGED <<controlVars, col, nextID, switchVars, linkVars, boundVars>>

-----------------------------------------------------------------------------
\* launchShard: a fresh ID, and the attempt goes on record before it is sent.
Register(s) ==
    /\ pc[s] = "register"
    /\ nextID' = nextID + 1
    /\ \/ /\ RegisterAttempt(nextID, want[s])
          /\ cur' = [cur EXCEPT ![s] = nextID]
          /\ Goto(s, "send")
          /\ UNCHANGED want
       \/ /\ ~CanRegister(want[s])
          /\ Goto(s, IF TerminalInfo THEN "loop" ELSE "stop")
          /\ EndLaunch(s)
          /\ UNCHANGED controlVars
    /\ UNCHANGED <<resumed, armed, col, switchVars, linkVars, boundVars>>

\* SendHTLC ends before there is a circuit: no eligible link (a clear text
\* error) or the dust limit.
SendRefused(s, kind) ==
    /\ pc[s] = "send"
    /\ Goto(s, kind)
    /\ UNCHANGED <<controlVars, want, cur, resumed, armed, col, nextID,
                   switchVars, linkVars, boundVars>>

\* SendHTLC commits the circuit and turns to the link.
CommitCircuit(s) ==
    /\ pc[s] = "send"
    /\ linkUp
    /\ circuits' = circuits \cup {cur[s]}
    /\ Goto(s, "offer")
    /\ UNCHANGED <<controlVars, want, cur, resumed, armed, col, nextID, results,
                   resp, acked, linkVars, boundVars>>

\* handleDownstreamUpdateAdd: the channel takes the HTLC, or does not.  The
\* mailbox never held a local add, so FailAdd leaves the circuit behind.
LinkHandlesAdd(s) ==
    /\ pc[s] = "offer"
    /\ \/ /\ added' = added \cup {cur[s]}
          /\ htlcAmt' = [htlcAmt EXCEPT ![cur[s]] = want[s]]
          /\ Goto(s, "accepted")
       \/ /\ Goto(s, "failClear")
          /\ UNCHANGED <<added, htlcAmt>>
    /\ UNCHANGED <<controlVars, want, cur, resumed, armed, col, nextID,
                   switchVars, htlc, linkUp, boundVars>>

\* handleLocalAddPacket returns the link's answer, and the attempt is collected;
\* when the link's quit channel is closed as well, the select may as well return
\* ErrLinkShuttingDown.
SendReturns(s) ==
    /\ pc[s] \in {"accepted", "acceptedQuit"}
    /\ \E shutdown \in {FALSE} \cup {pc[s] = "acceptedQuit"} :
         IF shutdown
           THEN Goto(s, "failInternal") /\ UNCHANGED <<col, want, cur>>
           ELSE /\ Goto(s, "loop")
                /\ Collector(s, cur[s], "get")
                /\ EndLaunch(s)
    /\ UNCHANGED <<controlVars, resumed, armed, nextID, switchVars,
                   linkVars, boundVars>>

\* launchShard fails the attempt that could not be sent.
FailLaunched(s) ==
    /\ pc[s] \in {"failClear", "failInternal"}
    /\ IF CanUpdateHtlc(cur[s])
         THEN /\ FailAttempt(cur[s])
              /\ Goto(s, IF pc[s] = "failClear" THEN "handleClear"
                                                ELSE "handleInternal")
         ELSE /\ Goto(s, "stop")
              /\ UNCHANGED controlVars
    /\ UNCHANGED <<want, cur, resumed, armed, col, nextID, switchVars, linkVars,
                   boundVars>>

\* handleSendError of a failed launch: mission control may see no reason to give
\* up; an error that is not a wire failure always ends the payment.
HandleLaunchError(s) ==
    /\ \/ /\ pc[s] = "handleClear"
          /\ Goto(s, "loop")
          /\ UNCHANGED controlVars
       \/ /\ pc[s] \in {"handleClear", "handleInternal"}
          /\ Fail
          /\ Goto(s, "stop")
    /\ EndLaunch(s)
    /\ UNCHANGED <<resumed, armed, col, nextID, switchVars, linkVars,
                   boundVars>>

-----------------------------------------------------------------------------
\* Mutant: circuits are not looked up.
LookupCircuitMisses(s, a) ==
    /\ col[<<s, a>>] = "get"
    /\ Collector(s, a, "missing")
    /\ UNCHANGED <<controlVars, pc, want, cur, resumed, armed, nextID,
                   switchVars, linkVars, boundVars>>

\* collectResult: GetPaymentResult looks for the circuit ...
LookupCircuit(s, a) ==
    /\ col[<<s, a>>] = "get"
    /\ Collector(s, a, IF a \in circuits THEN "found" ELSE "missing")
    /\ UNCHANGED <<controlVars, pc, want, cur, resumed, armed, nextID,
                   switchVars, linkVars, boundVars>>

\* Mutant: a result that was stored before is not noticed.
SubscribeResultBlind(s, a) ==
    /\ col[<<s, a>>] = "found"
    /\ Collector(s, a, "subscribed")
    /\ UNCHANGED <<controlVars, pc, want, cur, resumed, armed, nextID,
                   switchVars, linkVars, boundVars>>

\* ... and subscribes for the result, in one step under the attempt's mutex,
SubscribeResult(s, a) ==
    /\ col[<<s, a>>] = "found"
    /\ Collector(s, a, IF results[a] = "none" THEN "subscribed" ELSE "ready")
    /\ UNCHANGED <<controlVars, pc, want, cur, resumed, armed, nextID,
                   switchVars, linkVars, boundVars>>

\* ... or, without a circuit, reads the store; ErrPaymentIDNotFound fails the
\* attempt.
GetResult(s, a) ==
    /\ col[<<s, a>>] = "missing"
    /\ IF results[a] # "none"
         THEN Collector(s, a, "ready") /\ UNCHANGED controlVars
         ELSE IF CanUpdateHtlc(a)
         THEN Collector(s, a, "refused") /\ FailAttempt(a)
         ELSE Collector(s, a, "err") /\ UNCHANGED controlVars
    /\ UNCHANGED <<pc, want, cur, resumed, armed, nextID, switchVars, linkVars,
                   boundVars>>

\* The result goes on record, unless the store does not take it.
RecordResult(s, a) ==
    /\ col[<<s, a>>] = "ready"
    /\ IF ~CanUpdateHtlc(a)
         THEN Collector(s, a, "err") /\ UNCHANGED controlVars
         ELSE IF results[a] = "settle"
         THEN Collector(s, a, "nil") /\ SettleAttempt(a)
         ELSE Collector(s, a, "failed") /\ FailAttempt(a)
    /\ UNCHANGED <<pc, want, cur, resumed, armed, nextID, switchVars, linkVars,
                   boundVars>>

\* handleSendError of a collected failure.
HandleShardError(s, a) ==
    /\ \/ /\ col[<<s, a>>] = "failed"
          /\ Collector(s, a, "nil")
          /\ UNCHANGED controlVars
       \/ /\ col[<<s, a>>] \in {"failed", "refused"}
          /\ Fail
          /\ Collector(s, a, "err")
    /\ UNCHANGED <<pc, want, cur, resumed, armed, nextID, switchVars, linkVars,
                   boundVars>>

\* A collector whose session has left the loop ends.
CollectorQuits(s, a) ==
    /\ pc[s] = "stop"
    /\ a \in Delivering(s)
    /\ Collector(s, a, "off")
    /\ UNCHANGED <<controlVars, pc, want, cur, resumed, armed, nextID,
                   switchVars, linkVars, boundVars>>

-----------------------------------------------------------------------------
\* The link signs a commitment with the HTLCs of its log.
LinkSigns ==
    /\ linkUp
    /\ added # {}
    /\ htlc' = [a \in Attempts |-> IF a \in added THEN "signed" ELSE htlc[a]]
    /\ added' = {}
    /\ UNCHANGED <<controlVars, sessionVars, nextID, switchVars, htlcAmt, linkUp,
                   boundVars>>

\* The link stops: updates that are not signed are gone, and a sender that waits
\* for it sees the quit channel closed.
LinkStops ==
    /\ linkUp
    /\ faults < MaxFaults
    /\ StopsMidSend \/ \A s \in Sessions : pc[s] # "accepted"
    /\ linkUp' = FALSE
    /\ added' = {}
    /\ faults' = faults + 1
    /\ pc' = [s \in Sessions |->
                CASE pc[s] = "offer"    -> "failInternal"
                  [] pc[s] = "accepted" -> "acceptedQuit"
                  [] OTHER              -> pc[s]]
    /\ UNCHANGED <<controlVars, want, cur, resumed, armed, col, nextID,
                   switchVars, htlc, htlcAmt, sends>>

LinkStarts ==
    /\ ~linkUp
    /\ linkUp' = TRUE
    /\ UNCHANGED <<controlVars, sessionVars, nextID, switchVars, added, htlc,
                   htlcAmt, boundVars>>

\* handleLocalResponse: storeResult writes the result and wakes the subscribers
\* of the attempt in one step under its mutex,
StoreResult(a) ==
    /\ linkUp
    /\ htlc[a] \in {"settled", "failed"}
    /\ a \notin acked
    /\ resp[a] = "none"
    /\ results' = [results EXCEPT ![a] =
                     IF htlc[a] = "settled" THEN "settle" ELSE "fail"]
    /\ col' = [c \in DOMAIN col |->
                 IF c[2] = a /\ col[c] = "subscribed" THEN "ready" ELSE col[c]]
    /\ resp' = [resp EXCEPT ![a] = "stored"]
    /\ UNCHANGED <<controlVars, pc, want, cur, resumed, armed, nextID, circuits,
                   acked, linkVars, boundVars>>

\* ... then the forwarding package is acknowledged,
AckSettleFail(a) ==
    /\ resp[a] = "stored"
    /\ acked' = acked \cup {a}
    /\ resp' = [resp EXCEPT ![a] = "acked"]
    /\ UNCHANGED <<controlVars, sessionVars, nextID, circuits, results, linkVars,
                   boundVars>>

\* ... and the circuit is torn down.
TeardownCircuit(a) ==
    /\ resp[a] = "acked"
    /\ circuits' = circuits \ {a}
    /\ resp' = [resp EXCEPT ![a] = "none"]
    /\ UNCHANGED <<controlVars, sessionVars, nextID, results, acked, linkVars,
                   boundVars>>

\* A crash, and ChannelRouter.Start: the payments in flight are fetched, the
\* result store is cleaned of attempts that belong to none of them, and a
\* lifecycle with an empty payment session resumes.
CrashAndRestart ==
    /\ faults < MaxFaults
    /\ faults' = faults + 1
    /\ ResetCounters
    /\ pc' = [s \in Sessions |->
                IF s = 1 /\ FetchInFlight /\ ~FetchFails THEN "start" ELSE "idle"]
    /\ resumed' = [s \in Sessions |-> s = 1 /\ FetchInFlight]
    /\ armed' = [s \in Sessions |-> FALSE]
    /\ want' = [s \in Sessions |-> 0]
    /\ cur' = [s \in Sessions |-> 0]
    /\ col' = [c \in DOMAIN col |-> "off"]
    /\ results' = [a \in Attempts |->
                     IF FetchInFlight /\ attempt[a] # "none" THEN results[a]
                                                             ELSE "none"]
    /\ resp' = [a \in Attempts |-> "none"]
    /\ added' = {}
    /\ linkUp' = FALSE
    /\ UNCHANGED <<payment, nextID, circuits, acked, htlc, htlcAmt, sends>>

-----------------------------------------------------------------------------
PayerInit ==
    /\ ControlInit
    /\ pc = [s \in Sessions |-> "idle"]
    /\ want = [s \in Sessions |-> 0]
    /\ cur = [s \in Sessions |-> 0]
    /\ resumed = [s \in Sessions |-> FALSE]
    /\ armed = [s \in Sessions |-> FALSE]
    /\ col = [c \in Sessions \X Attempts |-> "off"]
    /\ nextID = 1
    /\ circuits = {}
    /\ results = [a \in Attempts |-> "none"]
    /\ added = {}
    /\ htlc = [a \in Attempts |-> "none"]
    /\ htlcAmt = [a \in Attempts |-> 0]
    /\ linkUp = TRUE
    /\ resp = [a \in Attempts |-> "none"]
    /\ acked = {}
    /\ sends = 0 /\ faults = 0

\* The steps of a session's goroutine, of a collector, of the switch and of the
\* link: what their scheduling guarantees to happen.
SessionStep(s) ==
    \/ StartSession(s)
    \/ \E D \in SUBSET Delivering(s) :
         \/ LoopReturns(s, D)
         \/ LoopWaits(s, D)
         \/ LoopTimesOut(s, D)
         \/ \E v \in 1..Value : LoopFindsRoute(s, D, v)
         \/ LoopFindsNoRoute(s, D)
    \/ GiveUp(s)
    \/ \E a \in Attempts : WaitForShard(s, a)
    \/ Return(s)
    \/ Register(s)
    \/ \E kind \in {"failClear", "failInternal"} : SendRefused(s, kind)
    \/ CommitCircuit(s)
    \/ LinkHandlesAdd(s)
    \/ SendReturns(s)
    \/ FailLaunched(s)
    \/ HandleLaunchError(s)

CollectorStep(s, a) ==
    \/ LookupCircuit(s, a)
    \/ SubscribeResult(s, a)
    \/ GetResult(s, a)
    \/ RecordResult(s, a)
    \/ HandleShardError(s, a)
    \/ CollectorQuits(s, a)

ResponseStep(a) == StoreResult(a) \/ AckSettleFail(a) \/ TeardownCircuit(a)

PayerNext ==
    \/ \E s \in Sessions : SendPayment(s) \/ SessionStep(s)
    \/ SendPaymentRefused
    \/ \E s \in Sessions, a \in Attempts : CollectorStep(s, a)
    \/ \E a \in Attempts : ResponseStep(a)
    \/ LinkSigns
    \/ LinkStops
    \/ LinkStarts
    \/ CrashAndRestart
=============================================================================
