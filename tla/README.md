# A verification of dcrlnd's channels, payments and closes

This directory holds TLA+ specifications of parts of dcrlnd, the TLC
configurations that check them on small instances, and TLAPS proofs of the
properties that should hold for every instance. `PROJECT.json` lists, for each
definition, the source lines it translates, and for each property a change of
the model that breaks it.

## The system

dcrlnd is a Lightning Network node for Decred. A payment is a chain of HTLCs
over channels. Its parts and how they meet:

| part | source | role |
|---|---|---|
| commitment state machine | `lnwallet/channel.go`, `lnwallet/commitment.go` | update logs and the two chains of commitments of one channel; what is signed, revoked, restored and retransmitted |
| open channel store | `channeldb/channel.go`, `channeldb/forwarding_package.go` | the transactions that make each step of the machine durable |
| channel link | `htlcswitch/link.go` | the goroutine per channel that turns wire messages and packets into calls on the machine |
| circuit map | `htlcswitch/circuit_map.go` | which incoming HTLC goes out as which outgoing HTLC, in memory and on disk |
| switch, mailboxes | `htlcswitch/switch.go`, `htlcswitch/mailbox.go` | hands packets from one link to another, and the answers back |
| result store, payment control, router | `htlcswitch/payment_result.go`, `channeldb/payment_control.go`, `routing/` | payments that start at this node |
| invoice registry | `invoices/`, `channeldb/invoices.go` | payments that end at this node |
| contract court | `contractcourt/` | what happens on chain: arbitrator, resolvers, breach arbiter, nursery, chain watcher |
| chain backends | `chainntnfs/`, `chainscan/` | confirmations, spends and reorganisations |
| sweeper | `sweep/` | spends outputs in batches with fee bumps |
| funding, cooperative close | `funding/`, `lnwallet/wallet.go`, `lnwallet/chancloser/` | the beginning and the agreed end of a channel |
| gossip, graph | `discovery/`, `channeldb/graph.go`, `routing/` | what the node knows of other channels |
| watchtowers | `watchtower/` | delegated breach defence |
| peers, wire, keys, RPC | `peer/`, `brontide/`, `lnwire/`, `keychain/`, `rpcserver.go`, `lnrpc/` | transport, encoding, signing, user interface |

The first eight rows are modelled, the contract court as far as the channel
arbitrator and its resolvers: the commitment machine with its store and the link
handlers that drive it, the circuit map, the forwarding of HTLCs between two
links, payments from the caller of the router to the invoice of the receiver,
and a channel that goes to chain. If they are wrong, money is lost with no one
doing anything unusual.

## Modules

| module | models | state |
|---|---|---|
| `LightningChannel` | both ends of one channel: `lnwallet/channel.go`, its writes to `channeldb/channel.go`, the handlers of `htlcswitch/link.go` | `lc[p]` the in-memory object, `db[p]` the channel bucket, `link[p]`, `net[p]` the messages in flight |
| `CommitChains` | what the dance promises, reduced to commitment heights | stored heights, pending diff, heights in flight |
| `CircuitMap` | `htlcswitch/circuit_map.go` for the circuits of one outgoing channel | in-memory indexes, the two buckets, the calls in progress |
| `HtlcForwarding` | an incoming and an outgoing link, the switch, the mailboxes and the forwarding packages, on top of `CircuitMap` | the variables of `CircuitMap`; the two channels as far as they are on disk; where each goroutine is; packets in mailboxes and on their way |
| `PaymentControl` | the payment store: `channeldb/payment_control.go`, `payments.go`, `payments_inflight.go` | bucket, attempts and failure reason of one payment, its indexes, the sequence counters |
| `PaymentLifecycle` | `routing/payment_lifecycle.go`, the switch's result store and local half, the link's local adds, on top of `PaymentControl` | where each lifecycle and each collector is, circuits and results, the HTLC of each attempt |
| `InvoiceContract` | what a receiver promises for one invoice | the HTLCs, and those that are claimed |
| `PaymentFlow` | `PaymentLifecycle`, the network and a receiver that keeps `InvoiceContract` | the variables of both |
| `InvoiceRegistry` | `invoices/`, `channeldb/invoices.go` and the exit hop of the link | invoice and HTLC set on disk; subscriptions, timers and expiry queues in memory; what the link holds, was told, and has yet to sign |
| `ChannelArbitrator` | `contractcourt/channel_arbitrator.go`, `briefcase.go`, the resolvers | the chain, the arbitrator's log, where the attendant and each resolver is, what the switch was told |
| `*Proofs` | proofs about the module of that name; `PaymentProofs` is about `PaymentControl` and `PaymentFlow`, and `IncomingLinkProofs` and `OutgoingLinkProofs` are the first two thirds of `HtlcForwardingProofs` | |
| `MC*` | instances for TLC | |

### LightningChannel

One action is one handler of the link, with every call it makes. A handler
computes on a record `r` of the channel object, the bucket and the messages it
has sent (`Begin`), passes it through the operations the code calls in their
order, and `Finish` installs the result; an operation that returns an error sets
`r.ok` to `FALSE` and the link fails, as `l.fail` does.

* Update logs hold payment descriptors with the four commit heights, the log
  index, the HTLC counter and the set of HTLCs that are already being removed.
  `fetchHTLCView`, `computeView`, `StampHeights`, `compactLogs` follow
  the functions of these names.
* A commitment holds its height, balances, fee, rate, log indexes and its
  outputs in each direction. A signature is modelled by what it covers: the
  `Transaction` of the commitment, with dust left out. The receiver rejects it
  if it builds a different one.
* The bucket changes in exactly the transactions of the code:
  `AppendRemoteCommitChain` when signing, `UpdateCommitment` when revoking and
  `AdvanceCommitChainTail` when a revocation arrives. The last returns early, without storing
  the local updates the peer has yet to sign, as long as `unsignedAckedUpdatesKey` was never
  written (`ackedKey`), which is so until the party's first revocation. `NewChannel` says
  whether a run begins there.
* The connection is ordered. `Disconnect` loses what is in flight and the
  in-memory object of one end; the other notices later. `StopAfterRevoke` and
  `StopAfterRevocation` stop a process between the two halves of a handler.
  `Reconnect` restores both objects from their buckets (`RestoredLogs`) and
  exchanges `ChannelReestablish`.
* The environment is only held to what the link checks: an HTLC is removed after
  it was forwarded, amounts and rates come from small sets.

Amounts are small integers, keys and scripts are left out, and an HTLC carries
no expiry: none of the properties tells those apart.

### CommitChains and the refinement

`ImplementsCommitChains` says that `LightningChannel`, seen through the stored
heights and the heights in flight, behaves as `CommitChains`. The abstract
module keeps messages in sets, so what is proved of it does not lean on the
order of delivery.

### CircuitMap

Operations that touch memory and database take one step for each, since the
lock is released in between: `CommitMemory` then `CommitDisk` or `CommitFails`,
`OpenDisk` then `OpenMemory`, `DeleteMemory` then `DeleteDisk` or
`DeleteFails`, `TrimMemory` then `TrimDisk`. `NewCircuitMap` is a restart: it may
come between any two steps and rebuilds memory from the buckets, then trims the
keystones of HTLCs that were never signed. A deletion of several circuits is
written in any grouping, which includes the one transaction of the code.

The module is closed by a client that keeps to the rules under *Client rules*:
the outgoing link opens circuits under consecutive ids, one call at a time and
after its trim, and signs for open keystones only; a circuit is deleted only
when its keystone, if it has one, has been signed for. These rules are
assumptions about the links here. Whether the links and the switch keep them is
asked by `UsesCircuitMap` of `HtlcForwarding`.

### HtlcForwarding

Each goroutine takes a step for each call it makes on state that another one can
touch. The incoming link is at `atIn`: an add that is locked in (`LockIn`) or
found in a forwarding package at start (`ResolveFwdPkg`) is checked against the
mailbox (`HasPacket`), its circuit is committed in memory and on disk
(`CommitCircuits`, `WriteCircuit`), and it is handed to the switch (`HandleAdd`) unless
the link is being stopped (`RouteAbort`). The outgoing link takes adds from its
mailbox, opens their keystones and signs (`HandleDownstreamAdd`, `OpenCircuits`,
`IndexCircuits`, `SignOut`, or `NoWindow` when the peer has yet to revoke).
Responses travel as goroutines (`responses`) to `HandleResponse`, failures of the
outgoing link or of the mailbox courier (`Expire`) to `HandleFailure`, and both end
in the incoming link's mailbox; `HandleAnswer`, `SignIn`, `DeleteCircuits` and
`AckDownStreamPackets` are the way from there to the signed removal.

* A channel is reduced to what forwarding sees of it: for an incoming HTLC
  whether it is locked in, or its removal is signed, or has left the log; for an
  outgoing one what its peer did. Which steps are one transaction (the
  signature, its closed circuits, the acks of the add and of the response) is
  taken from `AppendRemoteCommitChain` as modelled in `LightningChannel`.
* A settle is forwarded when it is received, without a reference to a
  forwarding package, and again when it is locked in. If the link stops in between,
  the peer sends it again (`revealed`): a preimage is not taken back.
* `StopIn`/`ExitIn`/`StartIn` and `StopOut`/`ExitOut`/`StartOut`/`RunOut` are the stop of
  one link and its replacement; `Restart` is the death of the process.
* `Expires` and `WindowCloses` switch the delivery deadline of the mailbox and the
  closed revocation window on. With both, the client rules of the circuit map can
  be broken (finding 1), so `UsesCircuitMap` is checked with deadlines only, and
  `OfferedOnce` and `SettledIsPaid` with both. `ExpiresOpen` says whether the deadline may
  also hit an add whose keystone is in the database, the step that finding 1 needs: it is
  `TRUE` in every run, and the theorems about forwarding are about executions without it.

### PaymentControl, PaymentLifecycle and PaymentFlow

Every operation of the payment store is one transaction and one action:
`InitPayment` (or `InitPaymentRefused`, which still uses up a sequence number),
`RegisterAttempt`, `SettleAttempt`, `FailAttempt`, `Fail`, and the fetch of payments in
flight. `DeletePayment` and `DeletePayments`, by which a user removes payments that are not in
flight, are left out. `StatusOf` is the status that `fetchPayment` computes from the attempts and the
failure reason; `UpdatedInflightIndex` is the index entry written with it.

A *session* of `PaymentLifecycle` is one call of `resumePayment`. A pass of its loop
takes the results that collectors have ready (any subset, since `checkShards` does
not wait), reads the store, and ends by returning, waiting, giving up or launching
a shard. A launch is `Register`, `CommitCircuit`, `LinkHandlesAdd`, `SendReturns`, with
`SendRefused`, `FailLaunched` and `HandleLaunchError` for what goes wrong. A collector
is a goroutine of its own: `LookupCircuit` and `SubscribeResult` are separate steps, so
that the switch may store a result, acknowledge it and tear the circuit down in
between (`StoreResult`, `AckSettleFail`, `TeardownCircuit`). `CrashAndRestart` is
the death of the process and `ChannelRouter.Start`, which cleans the result store and
resumes the payment with an empty payment session.

`PaymentFlow` adds the network, which carries an HTLC or fails it, and the receiver.
Path finding is a free choice of an amount. Errors of `RequestRoute` other than the
missing route, `SendToRoute` and AMP are left out.

### InvoiceContract and InvoiceRegistry

`NotifyExitHopHtlc` is one step, since the registry holds its lock: a replayed HTLC gets
the answer on record (`ReplayCanceled`, `ReplayAccepted`, `ReplaySettled`); a new one is rejected,
accepted as part of an incomplete set, completes a hold set, or settles the set. Timers
(`ReleaseHtlc`), the two expiry queues, `CancelInvoice`, `SettleHodlInvoice` and the deletion of
canceled invoices are actions. A decision travels to the peer as the answer of the
call, as a notification (`subs`, then `queue`, then `ProcessHodlQueue`), or by replaying the
HTLC after a stop or a restart; it is signed for by `SignRemovals` and forgotten if the
link stops before that. Sets are MPP sets whose total is the invoice's value. A
notification to a queue that has stopped blocks the registry (`blocked`).

`ImplementsContract` says that all this amounts to one decision per invoice.
`PaymentFlow` uses the contract as its receiver, so that the two halves of a payment
meet in a module neither of them has to know the inside of.

### ChannelArbitrator

The attendant works through a close event one durable write at a time
(`LogContractResolutions`, `InsertConfirmedCommitSet`, `MarkChannelClosed`), and through
`advanceState` likewise: one action per state, and one more for each write within it.
`CommitState` and the next step are separate from the work of a state, as in the code,
and `CrashAndRestart` may come between any two. Resolvers are goroutines (`rpc[c]`) with a
checkpoint in the log (`contracts[c]`): contest resolvers turn into timeout or success
resolvers, offer their output, see it spent, report backwards, checkpoint, and are
deleted from the log. An error of `Resolve` ends the goroutine (`ResolveFails`, `rpc[c] = "failed"`)
and leaves the contract in the log for the next start. The claim of an incoming HTLC is published
by its resolver (`PublishClaim`), and `PublishTx` says what the wallet may answer: on the peer's
commitment every process makes a sweep of its own (the TODO at
`contractcourt/htlc_success_resolver.go:401`), so after a restart the publication is refused
while the earlier sweep is in the mempool, and once that has confirmed it is refused, or accepted and then
waited for in vain (`"blocked"`).

An HTLC has a *kind*: its direction, where it goes, on which of the three
commitments (local, remote, pending remote) it is and on which it has an output. The
chain actions (`CheckCommitChainActions`, `RemoteDangling`, `RemoteDiff`) are functions of the kinds,
of height and of trigger. The kinds are those that the dance can produce (`Reachable`).

The environment confirms any commitment, a breach or a cooperative close; the peer
claims or times out what it can; blocks arrive. Left out: anchor channels (outputs go through the
nursery), channels without a commit set, failed writes of the attendant, of `SwapContract` and of
`ResolveContract`. The uptime grace of
own payments is a free choice, the best height is the current one, our transactions
do not confirm before the attendant's next write, and nothing moves once the channel
is fully closed. When the attendant itself marks its channel resolved it waits for its
own end (`contractcourt/chain_arbitrator.go:463`): the model stays at `"stopping"` and the log
is not wiped.

## What is checked

| run | instance | shows |
|---|---|---|
| `commit_chains` | two parties, heights to 4 | overlap of the chains, every message in flight fits, heights advance by one |
| `channel_htlcs` | an HTLC each way on a new channel, two disconnects or crashes inside handlers | agreement of the buckets, funds, forwarding exactly once and only when locked in, one signature per height, refinement of `CommitChains` |
| `channel_limits` | two HTLCs one way and one the other on a new channel, batches of two, tight limits and reserves, a disconnect; fairness | no crossing of adds exceeds a limit, and the dance always completes |
| `channel_fees` | a fee update against an HTLC each way near the dust limits on a channel that is not new, with a disconnect or a crash | both ends trim alike, funds add up with fees |
| `circuit_map` | three circuits, two outgoing ids | database and calls in progress stay consistent; a restart keeps what was signed |
| `forwarding_live` | one HTLC, two crashes, a stop of the outgoing link, a failed write, deadlines; fairness | the two sides of a forward are answered alike; the way back is on disk while it is needed; responses are acked only once answered; the map's client rules hold; every HTLC is answered and every circuit released |
| `forwarding_two` | two HTLCs, a stop of each link, a failed write, deadlines and closed windows | no HTLC is offered twice and none is settled unless it was paid downstream, also when HTLCs share batches |
| `forwarding_fail` | two HTLCs, a stop of the outgoing link and a crash, deadlines and closed windows | *violation*: an HTLC is failed back after it was offered |
| `payments` | two attempts, amounts 1 and 2 of 2, two calls, a crash or link stop; fairness | every live HTLC is on record, both ends agree, the in-flight index is exact, outcomes are final, the payment ends |
| `invoices` | two HTLCs, ordinary and hold invoice, two link stops, a restart; fairness | notifications find their HTLC, the registry implements `InvoiceContract`, every HTLC is answered |
| `arbitrator` | eight channels of up to two HTLCs, four ways to close, two faults (restart, failed broadcast, error of a resolver); fairness | answers match the chain, a closed channel can be taken up again, no HTLC is forgotten, resolvers run unless an error ended them, the channel is resolved unless a contract is stranded |
| `arbitrator_restart` | the same channels, with a restart in `StateContractClosed` | *violation*: the channel is resolved with an HTLC unanswered |

**Bounds.** Two HTLCs or a fee update and an HTLC, and one or two disconnects, are enough for an
update to be in each of its stages (sent, acked, signed, revoked, locked in) on
each side when the other side stops, and for a second update to overtake or
cross it. Balances, limits and sizes are chosen so that each limit is met
exactly and exceeded by one. Three circuits and two ids let two circuits
compete for an id while a third is deleted. `HeightBound` is above every height
a run reaches. In `HtlcForwarding` two HTLCs and two ids are the smallest instance in
which one circuit can take over the id of another, and one HTLC with every kind
of fault reaches each step of a forward with each stage of an earlier attempt.
Two attempts and a value of two give `PaymentFlow` a payment in one or in two shards, a
retry after a failed shard, and a payment that is started over; `SeqBlock` 2 makes the
sequence counter cross a block. Two HTLCs of one or two units complete an invoice,
overpay it or leave it short. The eight channels of `arbitrator` have each kind of HTLC the dance
leaves behind, and pairs where one HTLC's action must not depend on the other's; two faults
let a start make up for an error, or a second error follow a start;
heights to 2 with an expiry of 2 are before, at the broadcast delta, and at expiry.
Keys of forwarded HTLCs are symmetric. Deadlock is not checked where a system comes
to rest when all is answered and its bounds are used up, which is every module but
`CommitChains` and `CircuitMap`.

**Fairness.** `Fairness` of `LightningChannel` assumes that a link reads
messages that have arrived, that its batch ticker fires while updates wait, that
a link notices that its peer is gone, and that the peers connect again. The link's
select loop, its ticker and the server's reconnection provide these. It is written
with the enabling conditions spelled out; it does not assume that anyone adds,
settles or fails HTLCs, nor that connections last. `Fairness` of `HtlcForwarding`
assumes that every goroutine runs, that a link that stopped is started again, that
the outgoing peer answers HTLCs (or the chain does), and,
with strong fairness of `SignOut`, that the revocation window does not stay closed
for ever. `PaymentFlow` assumes that goroutines run, the link comes back, the network
carries or fails an HTLC and the receiver answers it, which is what `HeldHtlcAnswered` shows
of a receiver. `InvoiceRegistry` assumes that goroutines run, timers and expiries come, and a
stopped link starts again; not that anyone settles or cancels a hold invoice.
`ChannelArbitrator` assumes goroutines, blocks, and that what we offer confirms unless the output
is taken; not that a process whose resolver has failed is ever started again.
Nothing is assumed of deadlines of mailboxes, stops, crashes, or of the peer on chain.
`forwarding_live` has no stop of the incoming link: a link that stops between
`CommitCircuits` and the hand-over (`htlcswitch/switch.go:697`) leaves a circuit without a
packet, and the add is dropped whenever it is forwarded again, until the node
restarts.

## What is proved

For every value of the constants, with no bound other than the named ones.

`CommitChainsProofs`: type correctness (`TypeCorrect`), `ChainsAlwaysOverlap`,
`ResyncIsSafe` and `HeightsOnlyAdvance`. `ChainsOverlap` is not inductive: that
a signature in flight is the next one its receiver expects depends on what the
sender has stored and on what else is in flight. `InFlightFits` adds this, for
each kind of message and for each link state, and `IInv` is the conjunction.

`CircuitMapProofs`: `TypeCorrect`, `IndexesAlwaysAgree`,
`CircuitsAreDurable`, `SegmentsStayJoined`, `RestartIsFaithful`, `LookupNeverMisses`. The
inductive invariant adds what the calls in progress have done and have yet to
do (`CallsFit`) and that every keystone in the database is open or is the
business of a call (`KeystonesAccounted`). Without the second, a restart could
resurrect a keystone that no one would trim; the contiguity of the ids being
trimmed is what makes the restart's own scan complete. The assumptions are that
`MaxOut` is a natural number and that `NoKey` is no key. `LookupNeverMisses`
(`LookupIsComplete`) needs one fact more, that an open circuit is in the hash index under its
own id.

`IncomingLinkProofs`, `OutgoingLinkProofs` and `HtlcForwardingProofs`: the invariants of
`forwarding_live` and `forwarding_two` (`OfferedOnceTheorem`, `AnswersAgreeTheorem`,
`SettledIsPaidTheorem`, `CircuitOutlivesTheorem`, `AckedTheorem`), the refinement
`RefinementTheorem` (`UsesCircuitMap`), and `FailIsSafeTheorem`, for any set of HTLCs, any
number of outgoing ids and any number of stops, crashes and failed writes, with
`WindowCloses` and `Expires` on or off. The invariant `IInv` says where one HTLC can be:

* `AddsInTransit`: an add that is being routed, waits in a mailbox or is being failed by the
  switch is in one of these places only, its incoming HTLC is not answered, no answer waits
  for it and nothing was offered for it.
* `KeystonesFit`: past the ids that are signed for, a keystone in the database is for an add in
  the outgoing mailbox, and the open ones are for the first adds of the channel's log, in
  order. This is what makes `SignOut` give each HTLC the id of its own circuit.
* `OutgoingOpen`: an HTLC that was offered has its circuit open until the incoming one is
  answered.
* `AnswersFit`: an answer in the incoming mailbox is a settle of a revealed preimage, or a fail of
  an HTLC that was failed or never offered; what the link holds of it is still in the
  mailbox; and a response is acked only for an answered HTLC.
* `IncomingFits` and `OutgoingFits`: which call on the circuit map each link can be in the
  middle of.

`IInv` includes the invariant of `CircuitMapProofs`. It is kept because every step of the
system is a step of the circuit map that its client rules allow (`MapStep`), and the
rules follow from the rest of `IInv`: the two halves need each other. The theorems assume
`ExpiresOpen = FALSE`: with an add failed back after its keystone was written,
`KeystonesFit` is not kept and the rules are broken (finding 1). `FailIsSafeTheorem` says that
this is the only way: the comment that the finding quotes is right otherwise.

`PaymentProofs`, the payment store: `IndexTheorem` (`InflightIndexExact`) and `FinalTheorem`
(`OutcomesAreFinal`), for any attempts, amounts and block size, and for callers that use
the store in any order (`ControlSpec`). The index is only exact if a payment never gets a
number that is in use; `SequencesFresh` says why, across restarts that throw the
counters in memory away, and `ControlInv` is the conjunction with the types.

`ChannelArbitratorProofs`: `RecoverTheorem` (`ClosedIsRecoverable`) follows from the order of the
three writes (`CloseOrder`). `AnswersTheorem` is `AnswersMatchChain` for any HTLCs of any kinds and
any number of restarts. Its invariant `AnswersInv` adds that resolvers are created once
(`CreatedOnce`), that the machine leaves its first states only for a confirmed spend
(`ConfirmedFirst`), and that an outgoing HTLC's output is spent by the peer's claim or by a timeout
transaction that its resolver has offered (`SpendsExplained`). It assumes
`RestartWhenClosed = FALSE`: a process that stops in `StateContractClosed` may create a resolver a
second time, and the invariant is not inductive there.

`DrivenTheorem` (`WaitingIsDriven`) is under the same assumption, for any number of errors of
resolvers. `DrivenInv` adds
where the resolvers are launched (before the machine waits, or when `Start` returns) and that a
goroutine which has signalled has deleted its contract; the rest is `AnswersInv`. That a goroutine
is lost to nothing but an error is `LostOnlyByFault`: without a fault a claim is offered once, by
the goroutine that publishes it, so the wallet has no reason to refuse it unless the peer took the
output.
`AccountedTheorem` (`EveryHtlcAccounted`), again under this assumption, rests on the plan of actions
being complete when the machine has it executed (`PlanIsComplete`: the union over the three
commitments misses no HTLC) and on the fact that an HTLC once accounted for stays so
(`AccountedStable`); the run `arbitrator_restart` shows that it fails without the assumption.

`InvoiceRegistryProofs`: `HeldTheorem` (`NotifiedHtlcIsHeld`) and `ContractTheorem`
(`ImplementsContract`, the refinement of `InvoiceContract`), for any HTLCs, amounts and value, any
number of stops and restarts, and with or without `LateNotify`. That a step of the registry is a
step of the contract depends on what is on its way to the peer: `RegistryInv` says that an HTLC the
link holds is unanswered and has a subscription or a queued event, never both (`HeldOnce`), that
every answer on its way is backed by the database (`AnswersBacked`), and that accepted HTLCs are
open, settled ones not failed, and the set of an accepted hold invoice pays its value (`SetSound`).
Totals are compared as sums over the same function, so that
no induction over the set is needed. The assumptions are that `Keys` are integers and
`Value` a natural number.

`PaymentProofs`, a payment from end to end: `RecordTheorem` (`LiveHtlcIsOnRecord`),
`AgreementTheorem` (`BothEndsAgree`) and `StoreTheorem` (the router, the collectors and a restart
use the store as `ControlSpec` allows, so the two theorems about the store carry over), for any
attempts, sessions and value and any number of sends, crashes and link stops. `FlowInv` follows an
attempt from its ID (`FreshIDs`) through the launch (`LaunchesAlone`: in flight in the store,
no collector, no HTLC before the link took it) to its result. The argument hinges on
`HtlcsTraced`, an HTLC that is out has its circuit or its stored result, and on
`ResultsTrue`, a collector that finds no circuit is told the truth. With them, a collector
fails an attempt only when no HTLC is left. The theorems assume
`Overlap = FALSE` and `StopsMidSend = FALSE`; the findings below say what breaks without.

Model-checked only: everything about `LightningChannel` (its operations fold over
sequences) and its refinement of `CommitChains`, `OfferedOnce` and `SettledIsPaid` when
`ExpiresOpen` is `TRUE`, and all liveness, which is out of the prover's reach.

## Findings

1. `forwarding_fail`: an add whose keystone was opened but not signed for can be
   failed by the mailbox after its link stopped. Its circuit is deleted, and the
   outgoing id is used again before the deletion is written
   (`htlcswitch/circuit_map.go:1101`), which then removes the keystone of the new
   owner; after a restart the new owner is failed back while its HTLC is live.
2. `arbitrator_restart`: a restart that finds `StateContractClosed` in the log executes that state
   with the chain trigger (`contractcourt/channel_arbitrator.go:462`), under which no HTLC is acted
   on unless one is near its expiry. No HTLC resolver is created, and the channel is
   marked resolved.

The constants below switch a behaviour of the code on that breaks a property. Each is off
in the run that checks this property, and turning it on shows the behaviour:

* `StopsMidHandler` (`LightningChannel`) refutes `DanceCompletes`: a node that stops after its revocation
  was delivered and before it signs (`htlcswitch/link.go:1885`) does not sign after
  reestablishment until another update comes along; the comment at
  `lnwallet/channel.go:3846` describes the intended recovery.
* `MaxFeeUpdates = 2` with `FeeRates = {1, 2, 3}`, no HTLCs and a crash refutes `NoLinkFailure`: `restoreStateLogs`
  (`lnwallet/channel.go:2011`) puts older local updates after newer ones, so a superseded fee
  rate is applied and the peer's signature is refused.
* `NewChannel` in `channel_fees` refutes `NoLinkFailure`: the early return of `AdvanceCommitChainTail`
  (`channeldb/channel.go:2441`; "This shouldn't normally happen as we always store the number of
  updates") is taken on every new channel until the party's first revocation. If
  the first update is a fee update, and the node stops once the peer has revoked for it, the update is gone after the restart, and the
  signature that the peer sends for it is refused.
* `StopsMidSend` (`PaymentLifecycle`) refutes `LiveHtlcIsOnRecord`: the second select of
  `handleLocalAddPacket` (`htlcswitch/link.go:2571`) may report a shutdown for an HTLC the channel took, and
  the attempt is failed.
* `Overlap` with two sessions refutes `LiveHtlcIsOnRecord`: a second lifecycle asks for an attempt
  that the first has registered and not sent, and fails it
  (`routing/payment_lifecycle.go:560`).
* `LateNotify` (`InvoiceRegistry`) refutes `HeldHtlcAnswered`: `Stop` unsubscribes first
  (`htlcswitch/link.go:541`), and an HTLC handed over after that leaves the registry blocked on a
  stopped queue.

Two liveness properties name the cases in which the code comes to rest too early.
`Stranded` of `PaymentFlow`: the circuit of an attempt is on disk and its HTLC is nowhere, after a
crash or because `FailAdd` finds no packet of a local add (`htlcswitch/mailbox.go:696`). `Stranded` of
`ChannelArbitrator`: a contract was checkpointed as resolved and the process stopped before it was
deleted; `Resolve` returned an error (`contractcourt/channel_arbitrator.go:2283`) and the process was
not started again; the peer timed out an HTLC that the success resolver waits to claim; or a sweep of
an earlier process has claimed it. `ChannelResolves` excepts a channel only if some contract is stranded from some
time on: an error that a later start makes up for is no exception.

`TrimOpenCircuits` clears the outgoing key before the hash index is asked to remove it
(`htlcswitch/circuit_map.go:706`), so `hashIndex` keeps the id. Only
`LookupIsComplete` is therefore claimed of `LookupByPaymentHash`.

## Not modelled

`PROJECT.json` gives the reason for each part. In short: cryptography, encodings,
the wallet, path finding, RPC and generated code have no protocol state of
their own. The breach arbiter, the nursery, the sweeper and the transaction notifier are
below the line that `ChannelArbitrator` draws: it assumes that what is handed to them confirms, and
a chain that does not reorganise. What is hard in
those parts (a rescan that answers after the tip moved, outputs that graduate around a publish,
inputs spent while their batch waits) is not addressed here. Funding and the cooperative close come before and after the states
modelled here; gossip and watchtowers run beside them. Within the modelled parts: policy checks of a
forward, circuits of closed channels, AMP, keysend and legacy payments, `SendToRoute`, deletion of
payments, anchor channels, and errors of the database other than those of the circuit map and those
that end a resolver. A race that the
code documents (an HTLC and a fee update crossing may leave the initiator below the reserve)
is kept out of `channel_limits`, which has no fee updates.
