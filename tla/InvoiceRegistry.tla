--------------------------- MODULE InvoiceRegistry ---------------------------
(***************************************************************************)
(* How a node receives a multi-part payment to one invoice: the invoice    *)
(* and its HTLC set in the database (invoices/update.go,                   *)
(* channeldb/invoices.go), the registry's subscriptions, release timers    *)
(* and expiry watcher (invoices/invoiceregistry.go,                        *)
(* invoice_expiry_watcher.go), and the exit hop side of the incoming link  *)
(* (htlcswitch/link.go).                                                   *)
(*                                                                         *)
(* The registry decides once, in the database, whether an HTLC is settled  *)
(* or canceled; links stop and start and the node restarts in between, so  *)
(* that the decision reaches the peer as the answer of the call, as an     *)
(* event of a subscription, or by replaying the HTLC.                      *)
(*                                                                         *)
(* The HTLCs are those of an MPP payment of the invoice's value: legacy,   *)
(* keysend and AMP payments are left out.                                  *)
(***************************************************************************)
EXTENDS Integers

CONSTANTS
    Keys,           \* the incoming HTLCs, by index: 1, 2, ...
    Value,          \* the value of the invoice, and the total of the set
    GcCanceled,     \* GcCanceledInvoicesOnTheFly and -OnStartup are set
    LateNotify,     \* may the link hand over an HTLC after its Stop has
                    \* unsubscribed?
    MaxLinkStops,   \* bound: stops of the incoming link
    MaxRestarts     \* bound: restarts of the receiving node

ASSUME RegistryAssumption == Keys \subseteq Int /\ Value \in Nat

VARIABLES
    htlc,           \* where each incoming HTLC is, for the peer
    htlcAmt,        \* its amount
    invoice,        \* state of the invoice, "none" when deleted
    hodl,           \* the invoice is a hold invoice
    set,            \* Htlcs of the invoice: the state of each recorded HTLC
    subs,           \* hodlSubscriptions of the link that runs
    deadSubs,       \* hodlSubscriptions of links that have stopped
    blocked,        \* a notification waits for a stopped queue, lock held
    timers,         \* autoReleaseHeap
    tsWatch,        \* timestampExpiryQueue holds the invoice
    heightWatch,    \* blockExpiryQueue holds the invoice
    rlink,          \* the incoming link: "up", "stopping", "down"
    seen,           \* HTLCs the link has handed to the registry
    hodlMap,        \* HTLCs the link holds
    queue,          \* hodlQueue: resolutions on their way to the link
    reply,          \* removals in the link's update log, not signed yet
    rstops, restarts

dbVars == <<invoice, hodl, set>>
memVars == <<subs, deadSubs, blocked, timers, tsWatch, heightWatch>>
rlinkVars == <<rlink, seen, hodlMap, queue, reply>>
rboundVars == <<rstops, restarts>>
registryVars == <<htlc, htlcAmt, dbVars, memVars, rlinkVars, rboundVars>>

Answers == {"none", "settle", "fail"}

Recorded(st) == {k \in Keys : set[k] = st}

\* The HTLC set when every accepted HTLC takes the state st.
Resolved(st) == [k \in Keys |-> IF set[k] = "Accepted" THEN st ELSE set[k]]

Contract == INSTANCE InvoiceContract WITH claimed <- Recorded("Settled")

\* newSetTotal of updateMpp: what the accepted HTLCs and the new one pay.
NewSetTotal(k) == Contract!Total(Recorded("Accepted") \cup {k})

-----------------------------------------------------------------------------
\* Mutant: the subscriptions stay after the notification.
NotifyHodlSubscribersKeeps(K, answer) ==
    /\ queue' = queue \cup {<<k, answer>> : k \in K \cap subs}
    /\ UNCHANGED <<subs, deadSubs, blocked>>

\* notifyHodlSubscribers for the keys K: a resolution for every subscriber, and
\* the subscriptions are gone.  A stopped queue takes nothing, and the registry
\* waits for it with the lock held.
NotifyHodlSubscribers(K, answer) ==
    /\ UNCHANGED deadSubs
    /\ IF K \cap deadSubs # {}
         THEN /\ blocked' = TRUE
              /\ UNCHANGED <<subs, queue>>
         ELSE /\ queue' = queue \cup {<<k, answer>> : k \in K \cap subs}
              /\ subs' = subs \ K
              /\ UNCHANGED blocked

NoNotification == UNCHANGED <<subs, deadSubs, blocked, queue>>

\* hodlSubscribe, and the link keeps the HTLC.
HoldHtlc(k) ==
    /\ subs' = subs \cup {k}
    /\ hodlMap' = hodlMap \cup {k}
    /\ UNCHANGED <<deadSubs, blocked, queue, reply>>

\* processHtlcResolution with a direct resolution.
Answer(k, answer) ==
    /\ reply' = [reply EXCEPT ![k] = answer]
    /\ UNCHANGED hodlMap

\* processExitHop hands an HTLC to the registry: a new one, or one a link before
\* this one had handed over.
ExitHop(k) ==
    /\ rlink = "up" \/ (rlink = "stopping" /\ LateNotify)
    /\ ~blocked
    /\ htlc[k] = "offered"
    /\ k \notin seen
    /\ seen' = seen \cup {k}
    /\ UNCHANGED <<htlc, htlcAmt, hodl, rlink, rboundVars>>

\* updateInvoice finds the HTLC recorded: it is a replay.
ReplayCanceled(k) ==
    /\ ExitHop(k)
    /\ set[k] = "Canceled"
    /\ Answer(k, "fail")
    /\ NoNotification
    /\ UNCHANGED <<invoice, set, timers, tsWatch, heightWatch>>

\* Mutant: a replayed HTLC gets no release timer.
ReplayAcceptedNoTimer(k) ==
    /\ ExitHop(k)
    /\ set[k] = "Accepted"
    /\ HoldHtlc(k)
    /\ UNCHANGED <<invoice, set, timers, tsWatch, heightWatch>>

ReplayAccepted(k) ==
    /\ ExitHop(k)
    /\ set[k] = "Accepted"
    /\ HoldHtlc(k)
    /\ timers' = IF invoice = "Open" THEN timers \cup {k} ELSE timers
    /\ UNCHANGED <<invoice, set, tsWatch, heightWatch>>

ReplaySettled(k) ==
    /\ ExitHop(k)
    /\ set[k] = "Settled"
    /\ Answer(k, "settle")
    /\ NotifyHodlSubscribers(Recorded("Settled"), "settle")
    /\ UNCHANGED <<invoice, set, timers, tsWatch, heightWatch>>

NewHtlc(k) == ExitHop(k) /\ set[k] = "none"

\* updateMpp refuses: the invoice is deleted or no longer open, the HTLC expires
\* too soon, ...
RejectHtlc(k) ==
    /\ NewHtlc(k)
    /\ invoice = "Open" => NewSetTotal(k) <= Value
    /\ Answer(k, "fail")
    /\ NoNotification
    /\ UNCHANGED <<invoice, set, timers, tsWatch, heightWatch>>

\* ... or it would overpay the set, which cancels nothing that is accepted.
RejectOverpayment(k) ==
    /\ NewHtlc(k)
    /\ invoice = "Open"
    /\ NewSetTotal(k) > Value
    /\ Answer(k, "fail")
    /\ NotifyHodlSubscribers(Recorded("Canceled"), "fail")
    /\ UNCHANGED <<invoice, set, timers, tsWatch, heightWatch>>

AcceptPartial(k) ==
    /\ NewHtlc(k)
    /\ invoice = "Open"
    /\ NewSetTotal(k) < Value
    /\ set' = [set EXCEPT ![k] = "Accepted"]
    /\ HoldHtlc(k)
    /\ timers' = timers \cup {k}
    /\ UNCHANGED <<invoice, tsWatch, heightWatch>>

\* The set is complete: a hold invoice waits for its preimage, any other invoice
\* settles the whole set.
CompleteHodlSet(k) ==
    /\ NewHtlc(k)
    /\ invoice = "Open"
    /\ NewSetTotal(k) = Value
    /\ hodl
    /\ invoice' = "Accepted"
    /\ set' = [set EXCEPT ![k] = "Accepted"]
    /\ HoldHtlc(k)
    /\ heightWatch' = TRUE
    /\ UNCHANGED <<timers, tsWatch>>

SettleSet(k) ==
    /\ NewHtlc(k)
    /\ invoice = "Open"
    /\ NewSetTotal(k) = Value
    /\ ~hodl
    /\ invoice' = "Settled"
    /\ set' = [Resolved("Settled") EXCEPT ![k] = "Settled"]
    /\ Answer(k, "settle")
    /\ NotifyHodlSubscribers(Recorded("Accepted") \cup {k}, "settle")
    /\ UNCHANGED <<timers, tsWatch, heightWatch>>

NotifyExitHopHtlc(k) ==
    \/ ReplayCanceled(k)
    \/ ReplayAccepted(k)
    \/ ReplaySettled(k)
    \/ RejectHtlc(k)
    \/ RejectOverpayment(k)
    \/ AcceptPartial(k)
    \/ CompleteHodlSet(k)
    \/ SettleSet(k)

-----------------------------------------------------------------------------
\* Mutant: the state of the invoice is not looked at.
ReleaseHtlcUnchecked(k) ==
    /\ k \in timers
    /\ ~blocked
    /\ timers' = timers \ {k}
    /\ IF set[k] = "Accepted"
         THEN /\ set' = [set EXCEPT ![k] = "Canceled"]
              /\ NotifyHodlSubscribers({k}, "fail")
         ELSE UNCHANGED set /\ NoNotification
    /\ UNCHANGED <<htlc, htlcAmt, invoice, hodl, tsWatch, heightWatch, rlink,
                   seen, hodlMap, reply, rboundVars>>

\* A release timer fires, cancelSingleHtlc.
ReleaseHtlc(k) ==
    /\ k \in timers
    /\ ~blocked
    /\ timers' = timers \ {k}
    /\ IF invoice = "Open" /\ set[k] = "Accepted"
         THEN /\ set' = [set EXCEPT ![k] = "Canceled"]
              /\ NotifyHodlSubscribers({k}, "fail")
         ELSE UNCHANGED set /\ NoNotification
    /\ UNCHANGED <<htlc, htlcAmt, invoice, hodl, tsWatch, heightWatch, rlink,
                   seen, hodlMap, reply, rboundVars>>

\* The preimage of a hold invoice becomes known.
SettleHodlInvoice ==
    /\ ~blocked
    /\ invoice = "Accepted"
    /\ invoice' = "Settled"
    /\ set' = Resolved("Settled")
    /\ NotifyHodlSubscribers(Recorded("Settled") \cup Recorded("Accepted"),
                             "settle")
    /\ UNCHANGED <<htlc, htlcAmt, hodl, timers, tsWatch, heightWatch, rlink,
                   seen, hodlMap, reply, rboundVars>>

\* DeleteInvoice: the invoice goes with its HTLCs.
DeleteInvoice ==
    /\ GcCanceled
    /\ invoice' = "none"
    /\ set' = [k \in Keys |-> "none"]

\* cancelInvoiceImpl: settled and canceled invoices stay, an accepted one is
\* canceled only when forced.  The canceled invoice is deleted right away when
\* so configured; when that fails the invoice stays as canceled.
CancelInvoiceImpl(cancelAccepted) ==
    /\ ~blocked
    /\ IF invoice = "Open" \/ (invoice = "Accepted" /\ cancelAccepted)
         THEN /\ NotifyHodlSubscribers(
                    Recorded("Canceled") \cup Recorded("Accepted"), "fail")
              /\ \/ DeleteInvoice
                 \/ /\ invoice' = "Canceled"
                    /\ set' = Resolved("Canceled")
         ELSE UNCHANGED <<invoice, set>> /\ NoNotification
    /\ UNCHANGED <<htlc, htlcAmt, hodl, timers, rlink, seen, hodlMap, reply,
                   rboundVars>>

CancelInvoice ==
    /\ CancelInvoiceImpl(TRUE)
    /\ UNCHANGED <<tsWatch, heightWatch>>

\* The expiry watcher: by time while the invoice is open, by height once the
\* HTLCs of a hold invoice are about to expire.
CancelNextExpiredInvoice ==
    /\ tsWatch
    /\ tsWatch' = FALSE
    /\ CancelInvoiceImpl(FALSE)
    /\ UNCHANGED heightWatch

CancelNextHeightExpiredInvoice ==
    /\ heightWatch
    /\ heightWatch' = FALSE
    /\ CancelInvoiceImpl(TRUE)
    /\ UNCHANGED tsWatch

-----------------------------------------------------------------------------
\* processHodlQueue: the removals of all resolutions in the queue.
ProcessHodlQueue ==
    /\ rlink \in {"up", "stopping"}
    /\ queue # {}
    /\ reply' = [k \in Keys |-> IF \E r \in queue : r[1] = k
                                  THEN (CHOOSE r \in queue : r[1] = k)[2]
                                  ELSE reply[k]]
    /\ hodlMap' = hodlMap \ {r[1] : r \in queue}
    /\ queue' = {}
    /\ UNCHANGED <<htlc, htlcAmt, dbVars, memVars, rlink, seen, rboundVars>>

\* The link signs its removals; only then do they outlive a disconnect.
SignRemovals ==
    /\ rlink \in {"up", "stopping"}
    /\ \E k \in Keys : reply[k] # "none"
    /\ htlc' = [k \in Keys |-> CASE reply[k] = "settle" -> "settled"
                                 [] reply[k] = "fail"   -> "failed"
                                 [] OTHER               -> htlc[k]]
    /\ reply' = [k \in Keys |-> "none"]
    /\ UNCHANGED <<htlcAmt, dbVars, memVars, rlink, seen, hodlMap, queue,
                   rboundVars>>

\* channelLink.Stop: the subscriptions are dropped first, under the registry's
\* lock, ...
HodlUnsubscribeAll ==
    /\ rlink = "up"
    /\ ~blocked
    /\ rstops < MaxLinkStops
    /\ rstops' = rstops + 1
    /\ rlink' = "stopping"
    /\ subs' = {}
    /\ UNCHANGED <<htlc, htlcAmt, dbVars, deadSubs, blocked, timers, tsWatch,
                   heightWatch, seen, hodlMap, queue, reply, restarts>>

\* ... then the queue and the htlcManager stop, and what the link held is gone.
LinkStopped ==
    /\ rlink = "stopping"
    /\ rlink' = "down"
    /\ deadSubs' = deadSubs \cup subs
    /\ subs' = {}
    /\ seen' = {}
    /\ hodlMap' = {}
    /\ queue' = {}
    /\ reply' = [k \in Keys |-> "none"]
    /\ UNCHANGED <<htlc, htlcAmt, dbVars, blocked, timers, tsWatch, heightWatch,
                   rboundVars>>

\* A new link: the forwarding packages are replayed from the start.
ReceiverLinkStarts ==
    /\ rlink = "down"
    /\ rlink' = "up"
    /\ UNCHANGED <<htlc, htlcAmt, dbVars, memVars, seen, hodlMap, queue, reply,
                   rboundVars>>

\* The node restarts: scanInvoicesOnStart hands pending invoices to the expiry
\* watcher and deletes canceled ones when so configured.  Timers and
\* subscriptions come back with the replayed HTLCs.
RestartReceiver ==
    /\ restarts < MaxRestarts
    /\ restarts' = restarts + 1
    /\ rlink' = "down"
    /\ subs' = {}
    /\ deadSubs' = {}
    /\ blocked' = FALSE
    /\ timers' = {}
    /\ tsWatch' = (invoice = "Open")
    /\ heightWatch' = (invoice = "Accepted" /\ hodl)
    /\ seen' = {}
    /\ hodlMap' = {}
    /\ queue' = {}
    /\ reply' = [k \in Keys |-> "none"]
    /\ \/ invoice = "Canceled" /\ DeleteInvoice
       \/ UNCHANGED <<invoice, set>>
    /\ UNCHANGED <<htlc, htlcAmt, hodl, rstops>>

-----------------------------------------------------------------------------
\* The peer adds its next HTLC, and it is locked in on both commitments.
OfferHtlc(k, v) ==
    /\ rlink = "up"
    /\ htlc[k] = "none"
    /\ \A j \in Keys : j < k => htlc[j] # "none"
    /\ htlc' = [htlc EXCEPT ![k] = "offered"]
    /\ htlcAmt' = [htlcAmt EXCEPT ![k] = v]
    /\ UNCHANGED <<dbVars, memVars, rlinkVars, rboundVars>>

\* AddInvoice has put the invoice in the database and in the expiry watcher.
RegistryInit ==
    /\ htlc = [k \in Keys |-> "none"]
    /\ htlcAmt = [k \in Keys |-> 0]
    /\ invoice = "Open"
    /\ hodl \in BOOLEAN
    /\ set = [k \in Keys |-> "none"]
    /\ subs = {} /\ deadSubs = {}
    /\ blocked = FALSE
    /\ timers = {}
    /\ tsWatch = TRUE
    /\ heightWatch = FALSE
    /\ rlink = "up"
    /\ seen = {} /\ hodlMap = {} /\ queue = {}
    /\ reply = [k \in Keys |-> "none"]
    /\ rstops = 0 /\ restarts = 0

RegistryNext ==
    \/ \E k \in Keys :
         \/ \E v \in 1..Value : OfferHtlc(k, v)
         \/ NotifyExitHopHtlc(k)
         \/ ReleaseHtlc(k)
    \/ SettleHodlInvoice
    \/ CancelInvoice
    \/ CancelNextExpiredInvoice
    \/ CancelNextHeightExpiredInvoice
    \/ ProcessHodlQueue
    \/ SignRemovals
    \/ HodlUnsubscribeAll
    \/ LinkStopped
    \/ ReceiverLinkStarts
    \/ RestartReceiver

RegistrySpec == RegistryInit /\ [][RegistryNext]_registryVars

\* The link's goroutine and the registry's event loop run, links come back,
\* release timers fire and the chain reaches the expiry of the HTLCs of a hold
\* invoice; nobody has to settle, cancel, stop or restart.
RegistryFairness ==
    /\ \A k \in Keys :
         /\ WF_registryVars(NotifyExitHopHtlc(k))
         /\ WF_registryVars(ReleaseHtlc(k))
    /\ WF_registryVars(CancelNextHeightExpiredInvoice)
    /\ WF_registryVars(ProcessHodlQueue)
    /\ WF_registryVars(SignRemovals)
    /\ WF_registryVars(LinkStopped)
    /\ WF_registryVars(ReceiverLinkStarts)

FairRegistrySpec == RegistrySpec /\ RegistryFairness

-----------------------------------------------------------------------------
\* The registry's variables hold what the code can put there.
RegistryTypeOK ==
    /\ htlc \in [Keys -> {"none", "offered", "settled", "failed"}]
    /\ htlcAmt \in [Keys -> 0..Value]
    /\ invoice \in {"none", "Open", "Accepted", "Settled", "Canceled"}
    /\ set \in [Keys -> {"none", "Accepted", "Settled", "Canceled"}]
    /\ reply \in [Keys -> Answers]
    /\ queue \subseteq Keys \X Answers
    /\ rlink \in {"up", "stopping", "down"}
    /\ subs \cup deadSubs \cup timers \cup seen \cup hodlMap \subseteq Keys

\* The registry notifies only the link that holds the HTLC, so that
\* processHodlQueue finds it in its map and the link does not fail.
NotifiedHtlcIsHeld ==
    subs \cup {r[1] : r \in queue} \subseteq hodlMap

\* An HTLC the node got is answered: settled or failed back, also when its set
\* stays incomplete, when nobody settles the hold invoice, and when the link or
\* the node goes away while the HTLC is held.
HeldHtlcAnswered ==
    \A k \in Keys : htlc[k] = "offered" ~> htlc[k] \in {"settled", "failed"}

\* What the node answers for its HTLCs is one decision per invoice, whichever
\* way an answer takes (the call, a subscription, a replay after a stop or a
\* restart): the set it settles pays the invoice's value exactly, no HTLC of
\* that set is failed back, and none outside it is settled.
ImplementsContract ==
    /\ Contract!ContractInit
    /\ [][\/ Contract!ContractStep
          \/ \E k \in Keys, v \in 1..Value : OfferHtlc(k, v)
         ]_<<htlc, htlcAmt, Recorded("Settled")>>
=============================================================================
