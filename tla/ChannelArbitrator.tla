------------------------- MODULE ChannelArbitrator -------------------------
(***************************************************************************)
(* The channel arbitrator: the state machine that takes one channel to the *)
(* chain, and the resolvers it launches for what is left on the confirmed  *)
(* commitment (contractcourt/channel_arbitrator.go, briefcase.go and the   *)
(* *_resolver.go files).                                                   *)
(*                                                                         *)
(* The arbitrator's log survives a restart; everything the goroutines hold *)
(* does not.  The attendant goroutine works through a close event and      *)
(* through advanceState one durable write at a time, every resolver is a   *)
(* goroutine of its own, and the process may stop between any two writes.  *)
(* The HTLCs do not change while the channel is being closed; each has a   *)
(* kind, which says on which commitments it is and where it is an output.  *)
(***************************************************************************)
EXTENDS Integers, FiniteSets

CONSTANTS Htlcs,              \* the HTLC slots of the channel
          Channels,           \* the channels that may be closed, see ChannelType
          BroadcastDelta,     \* blocks before an expiry to go to chain
          MaxHeight,          \* bound on the number of blocks
          MaxFaults,          \* bound on crashes and failed publications
          RestartWhenClosed   \* may the process stop in StateContractClosed

Commits == {"local", "remote", "pending"}
Contracts == Htlcs \cup {"commit", "breach"}
States == {"Default", "BroadcastCommit", "CommitmentBroadcasted",
           "ContractClosed", "WaitingFullResolution", "FullyResolved"}
CloseTriggers == {"coop", "local", "remote", "breach"}

(***************************************************************************)
(* An outgoing HTLC is forwarded ("fwd") or our own payment ("own"); an    *)
(* incoming one pays an invoice of ours ("exit"), is forwarded, or has a   *)
(* payload that does not decode ("bad").                                   *)
(***************************************************************************)
KindType == [dir : {"in", "out"}, hop : {"own", "fwd", "exit", "bad"},
             sets : SUBSET Commits, outs : SUBSET Commits, expiry : Nat]

(***************************************************************************)
(* A channel has its HTLCs, perhaps an output of ours on the confirmed     *)
(* commitment, and perhaps a signed commitment that is not revoked for.    *)
(***************************************************************************)
ChannelType == [kind : [Htlcs -> KindType], hasCommit : BOOLEAN, pend : BOOLEAN]

\* Our HTLCs are added to the peer's commitment first and removed from ours
\* first; the peer's the other way round.
Reachable(k, pend) ==
    /\ k.outs \subseteq k.sets
    /\ "pending" \in k.sets => pend
    /\ IF k.dir = "in"
       THEN k.sets # {} => "local" \in k.sets
       ELSE "local" \in k.sets => /\ "remote" \in k.sets
                                  /\ pend => "pending" \in k.sets

ASSUME ArbitratorAssumption ==
    /\ \A ch \in Channels :
          ch \in ChannelType /\ \A h \in Htlcs : Reachable(ch.kind[h], ch.pend)
    /\ Htlcs \cap {"commit", "breach"} = {}
    /\ {BroadcastDelta, MaxHeight, MaxFaults} \subseteq Nat
    /\ RestartWhenClosed \in BOOLEAN

VARIABLES
    kind, hasCommit, pendingSigned,         \* the channel as it is closed
    height, conf, closeHeight, spent, swept, verdict, told,   \* outside world
    dbState, logged, commitSet, closed, contracts, published, offered,
    fullyClosed, wiped,                     \* durable
    state, pc, trigger, trigHeight, starting, plan, rpc,      \* volatile
    faults

channel == <<kind, hasCommit, pendingSigned>>
chain == <<height, conf, closeHeight, spent, swept, verdict>>
closing == <<logged, commitSet, closed, published, fullyClosed, wiped>>
attendant == <<state, pc, trigger, trigHeight, starting, plan>>
resolvers == <<contracts, offered, rpc, told>>
vars == <<channel, chain, closing, attendant, resolvers, dbState, faults>>

NoPlan == [c \in Contracts |-> "none"]
AllOff == [c \in Contracts |-> "off"]

-----------------------------------------------------------------------------
(***************************************************************************)
(* What to do about each HTLC.                                             *)
(***************************************************************************)
Outgoing(h) == kind[h].dir = "out"
On(h, c) == c \in kind[h].sets
Output(h, c) == c \in kind[h].outs

\* up: has the node been up for longer than the payments' grace period
ShouldGoOnChain(h, ht, up) ==
    /\ ht >= kind[h].expiry - BroadcastDelta
    /\ Outgoing(h) => kind[h].hop = "fwd" \/ up

\* the preimage cache, or an invoice of ours that is not a hold invoice
IsPreimageAvailable(h) == verdict[h] = "preimage" \/ kind[h].hop = "exit"

HaveChainActions(c, ht, up) ==
    \E h \in Htlcs : /\ On(h, c)
                     /\ ShouldGoOnChain(h, ht, up)
                     /\ ~Outgoing(h) => IsPreimageAvailable(h)

CheckCommitChainActions(c, ht, trig, up) ==
    [h \in Htlcs |->
        IF \/ ~On(h, c)
           \/ trig = "chain" /\ ~HaveChainActions(c, ht, up)
        THEN "none"
        ELSE IF Outgoing(h)
             THEN IF ~Output(h, c) THEN "failNow"
                  ELSE IF ShouldGoOnChain(h, ht, up) THEN "timeout" ELSE "watch"
             ELSE IF Output(h, c) THEN "watch" ELSE "none"]

\* Mutant: dangling HTLCs wait for their expiry also after the confirmation.
RemoteDanglingLate(ht, up, confirmed) ==
    {h \in Htlcs : /\ Outgoing(h)
                   /\ On(h, "remote") \/ On(h, "pending")
                   /\ ~On(h, "local")
                   /\ ShouldGoOnChain(h, ht, up)}

\* outgoing HTLCs the peer has signed for and we have not
RemoteDangling(ht, up, confirmed) ==
    {h \in Htlcs : /\ Outgoing(h)
                   /\ On(h, "remote") \/ On(h, "pending")
                   /\ ~On(h, "local")
                   /\ confirmed \/ ShouldGoOnChain(h, ht, up)}

CheckLocalChainActions(ht, trig, up, confirmed) ==
    [h \in Htlcs |-> IF h \in RemoteDangling(ht, up, confirmed) THEN "failNow"
                     ELSE CheckCommitChainActions("local", ht, trig, up)[h]]

\* Mutant: HTLCs of the other remote commitment, on the confirmed one or not.
RemoteDiffAll(c) ==
    {h \in Htlcs : /\ Outgoing(h)
                   /\ On(h, IF c = "remote" THEN "pending" ELSE "remote")}

\* outgoing HTLCs on the remote commitment that did not confirm only
RemoteDiff(c) ==
    {h \in Htlcs : /\ Outgoing(h)
                   /\ ~On(h, c)
                   /\ On(h, IF c = "remote" THEN "pending" ELSE "remote")}

CheckRemoteChainActions(c, ht, trig, up) ==
    [h \in Htlcs |-> IF h \in RemoteDiff(c) THEN "failNow"
                     ELSE CheckCommitChainActions(c, ht, trig, up)[h]]

ConstructChainActions(ht, trig, up) ==
    IF conf = "local" THEN CheckLocalChainActions(ht, trig, up, TRUE)
                      ELSE CheckRemoteChainActions(conf, ht, trig, up)

\* outgoing HTLCs to fail back at once when the channel was breached
BreachFails == {h \in Htlcs : Outgoing(h) /\ (On(h, "remote") \/ On(h, "pending"))}

\* the resolver of an HTLC with an output: a timeout or a contest resolver
ResolverFor(action) ==
    IF action = "timeout" THEN "final" ELSE IF action = "watch" THEN "contest" ELSE "none"

\* the messages to send and the resolvers to create, as one record
PrepContractResolutions(ht, trig, up) ==
    IF conf = "breach"
    THEN [fail |-> BreachFails, make |-> [NoPlan EXCEPT !["breach"] = "final"]]
    ELSE LET act == ConstructChainActions(ht, trig, up) IN
         [fail |-> {h \in Htlcs : act[h] = "failNow"},
          make |-> [c \in Contracts |-> IF c \in Htlcs THEN ResolverFor(act[c])
                                        ELSE IF c = "commit" /\ hasCommit THEN "final"
                                        ELSE "none"]]

NothingToResolve ==
    /\ conf # "breach" /\ ~hasCommit
    /\ \A h \in Htlcs : kind[h].sets = {}

-----------------------------------------------------------------------------
(***************************************************************************)
(* The chain, the peer, the registry and the preimage cache.  Nothing the  *)
(* model tracks depends on them once the channel is fully closed.          *)
(***************************************************************************)
NewBlock ==
    /\ ~fullyClosed /\ height < MaxHeight
    /\ height' = height + 1
    /\ UNCHANGED <<channel, conf, closeHeight, spent, swept, verdict, closing,
                   attendant, resolvers, dbState, faults>>

\* A spend of the funding output confirms.  The channel is only closed
\* cooperatively when it has no HTLCs.
CommitmentConfirms ==
    /\ conf = "none"
    /\ \E c \in Commits \cup {"coop", "breach"} :
          /\ c = "local" => published
          /\ c = "pending" => pendingSigned
          /\ c = "coop" => \A h \in Htlcs : kind[h].sets = {}
          /\ conf' = c
    /\ closeHeight' = height
    /\ UNCHANGED <<channel, height, spent, swept, verdict, closing, attendant,
                   resolvers, dbState, faults>>

Spend(h, how) ==
    /\ ~fullyClosed
    /\ conf \in kind[h].outs /\ spent[h] = "no"
    /\ spent' = [spent EXCEPT ![h] = how]
    /\ UNCHANGED <<channel, height, conf, closeHeight, swept, verdict, closing,
                   attendant, resolvers, dbState, faults>>

PeerClaims(h) == Outgoing(h) /\ Spend(h, "preimage")

PeerTimesOut(h) == ~Outgoing(h) /\ height >= kind[h].expiry /\ Spend(h, "peer")

\* A transaction of ours takes a block to confirm, the attendant's next
\* database write does not.
TimeoutTxConfirms(h) ==
    /\ Outgoing(h) /\ h \in offered /\ height >= kind[h].expiry
    /\ pc = "idle"
    /\ Spend(h, "timeout")

ClaimTxConfirms(h) == ~Outgoing(h) /\ h \in offered /\ pc = "idle" /\ Spend(h, "ours")

\* The nursery or the sweeper sweeps the output of a second-level
\* transaction or our own commitment output, or the breach arbiter is done.
SweepConfirms(c) ==
    /\ ~fullyClosed /\ c \notin swept
    /\ \/ c = "commit" /\ c \in offered
       \/ c = "breach" /\ conf = "breach"
       \/ c \in Htlcs /\ conf = "local" /\ spent[c] \in {"timeout", "ours"}
    /\ swept' = swept \cup {c}
    /\ UNCHANGED <<channel, height, conf, closeHeight, spent, verdict, closing,
                   attendant, resolvers, dbState, faults>>

\* The preimage becomes known, or the registry cancels the HTLC.
VerdictArrives(h) ==
    /\ ~fullyClosed
    /\ ~Outgoing(h) /\ verdict[h] = "unknown" /\ kind[h].hop # "bad"
    /\ \E v \in {"preimage", "refused"} :
          /\ v = "refused" => kind[h].hop = "exit"
          /\ verdict' = [verdict EXCEPT ![h] = v]
    /\ UNCHANGED <<channel, height, conf, closeHeight, spent, swept, closing,
                   attendant, resolvers, dbState, faults>>

-----------------------------------------------------------------------------
(***************************************************************************)
(* The state machine.  CommitState writes the next state once the present  *)
(* one has been executed; Return ends advanceState, and with it Start,     *)
(* which relaunches the resolvers of the log if it began and ended in      *)
(* StateWaitingFullResolution.  A resolver loaded as resolved ends its     *)
(* loop before it does anything.                                           *)
(***************************************************************************)
CommitState(s) == dbState' = s /\ state' = s /\ pc' = "advance"

\* Mutant: only contracts that have not been handed to the nursery are launched.
RelaunchResolversFresh ==
    rpc' = [c \in Contracts |->
               IF contracts[c] \in {"none", "done", "incubating"} THEN "off"
                                                                   ELSE "resolve"]

RelaunchResolvers ==
    rpc' = [c \in Contracts |->
               IF contracts[c] \in {"none", "done"} THEN "off" ELSE "resolve"]

Return ==
    /\ pc' = "idle"
    /\ trigger' = "chain" /\ trigHeight' = 0
    /\ starting' = "no"
    /\ IF starting = "WaitingFullResolution" /\ state = "WaitingFullResolution"
       THEN RelaunchResolvers ELSE UNCHANGED rpc

DefaultActions(ht, up) ==
    {h \in Htlcs : CheckLocalChainActions(ht, "chain", up, FALSE)[h] # "none"}

\* In StateDefault without a close, when the daemon starts: go to chain if
\* an HTLC demands it.
StepDefault ==
    /\ pc = "advance" /\ state = "Default" /\ trigger \notin CloseTriggers
    /\ \E up \in BOOLEAN :
          IF DefaultActions(trigHeight, up) = {}
          THEN Return /\ UNCHANGED <<dbState, state>>
          ELSE /\ CommitState("BroadcastCommit")
               /\ UNCHANGED <<trigger, trigHeight, starting, rpc>>
    /\ UNCHANGED <<channel, chain, closing, plan, contracts, offered, told, faults>>

\* Force close: read the channel, mark the broadcast, publish.
StepBroadcastCommit ==
    /\ pc = "advance" /\ state = "BroadcastCommit" /\ trigger \notin CloseTriggers
    /\ published' = TRUE
    /\ pc' = "broadcast"
    /\ UNCHANGED <<channel, chain, logged, commitSet, closed, fullyClosed, wiped,
                   state, trigger, trigHeight, starting, plan, resolvers, dbState,
                   faults>>

CommitBroadcast ==
    /\ pc = "broadcast"
    /\ CommitState("CommitmentBroadcasted")
    /\ UNCHANGED <<channel, chain, closing, trigger, trigHeight, starting, plan,
                   resolvers, faults>>

\* A publication fails for another reason than a double spend, and the
\* attendant goes on in the state it is in.  If it fails in Start the daemon
\* does not start, which is a crash at this point.
PublishFails ==
    /\ pc = "advance" /\ state = "BroadcastCommit" /\ trigger \notin CloseTriggers
    /\ starting = "no"
    /\ faults < MaxFaults /\ faults' = faults + 1
    /\ pc' = "idle" /\ trigger' = "chain" /\ trigHeight' = 0
    /\ UNCHANGED <<channel, chain, closing, state, starting, plan, resolvers,
                   dbState>>

\* Offer the anchors to the sweeper and wait for a confirmation.
StepCommitmentBroadcasted ==
    /\ pc = "advance" /\ state = "CommitmentBroadcasted"
    /\ trigger \notin CloseTriggers
    /\ Return
    /\ UNCHANGED <<channel, chain, closing, state, plan, contracts,
                   offered, told, dbState, faults>>

\* The close triggers lead on from each of the first three states.  A breach
\* without resolutions in the log is one of an older version.
StepOnClose ==
    /\ pc = "advance" /\ trigger \in CloseTriggers
    /\ state \in {"Default", "BroadcastCommit", "CommitmentBroadcasted"}
    /\ CommitState(IF trigger = "coop" \/ (trigger = "breach" /\ ~logged)
                   THEN "FullyResolved" ELSE "ContractClosed")
    /\ UNCHANGED <<channel, chain, closing, trigger, trigHeight, starting, plan,
                   resolvers, faults>>

\* StateContractClosed: tell the switch what can be failed at once, ...
StepContractClosed ==
    /\ pc = "advance" /\ state = "ContractClosed"
    /\ IF NothingToResolve
       THEN CommitState("FullyResolved") /\ UNCHANGED <<plan, told>>
       ELSE \E up \in BOOLEAN :
               LET prep == PrepContractResolutions(trigHeight, trigger, up) IN
               /\ told' = [h \in Htlcs |-> IF h \in prep.fail
                                           THEN told[h] \cup {"fail"} ELSE told[h]]
               /\ plan' = prep.make
               /\ pc' = "insert"
               /\ UNCHANGED <<dbState, state>>
    /\ UNCHANGED <<channel, chain, closing, trigger, trigHeight, starting,
                   contracts, offered, rpc, faults>>

\* ... log the resolvers and launch them, ...
InsertUnresolvedContracts ==
    /\ pc = "insert"
    /\ contracts' = [c \in Contracts |-> IF plan[c] = "none" THEN contracts[c]
                                                             ELSE plan[c]]
    /\ rpc' = [c \in Contracts |-> IF plan[c] = "none" THEN "off" ELSE "resolve"]
    /\ plan' = NoPlan
    /\ pc' = "launched"
    /\ UNCHANGED <<channel, chain, closing, state, trigger, trigHeight, starting,
                   offered, told, dbState, faults>>

\* ... and only then leave the state.
CommitWaiting ==
    /\ pc = "launched"
    /\ CommitState("WaitingFullResolution")
    /\ UNCHANGED <<channel, chain, closing, trigger, trigHeight, starting, plan,
                   resolvers, faults>>

StepWaitingFullResolution ==
    /\ pc = "advance" /\ state = "WaitingFullResolution"
    /\ IF \A c \in Contracts : contracts[c] = "none"
       THEN /\ CommitState("FullyResolved")
            /\ UNCHANGED <<trigger, trigHeight, starting, rpc>>
       ELSE Return /\ UNCHANGED <<dbState, state>>
    /\ UNCHANGED <<channel, chain, closing, plan, contracts, offered, told, faults>>

\* MarkChannelResolved: the channel is marked fully closed, then the
\* arbitrator is stopped, which ends the resolvers.
StepFullyResolved ==
    /\ pc = "advance" /\ state = "FullyResolved"
    /\ fullyClosed' = TRUE
    /\ rpc' = AllOff
    /\ pc' = "stopping"
    /\ UNCHANGED <<channel, chain, logged, commitSet, closed, published, wiped,
                   state, trigger, trigHeight, starting, plan, contracts, offered,
                   told, dbState, faults>>

\* Stop waits for every goroutine of the arbitrator before the log is wiped.
\* The attendant is one of them, unless Start has not launched it yet.
WipeHistory ==
    /\ pc = "stopping" /\ starting # "no"
    /\ wiped' = TRUE
    /\ pc' = "stopped"
    /\ UNCHANGED <<channel, chain, logged, commitSet, closed, published,
                   fullyClosed, state, trigger, trigHeight, starting, plan,
                   resolvers, dbState, faults>>

-----------------------------------------------------------------------------
(***************************************************************************)
(* The attendant's events.  A block only matters in StateDefault, and only *)
(* if an HTLC demands an action; a close request only in StateDefault.     *)
(* Executing StateDefault has no effect but the commit of the next state.  *)
(***************************************************************************)
Advance(trig, ht) == trigger' = trig /\ trigHeight' = ht /\ pc' = "advance"

TakeBlock ==
    /\ pc = "idle" /\ state = "Default"
    /\ \E up \in BOOLEAN : DefaultActions(height, up) # {}
    /\ Advance("chain", height)
    /\ CommitState("BroadcastCommit")
    /\ UNCHANGED <<channel, chain, closing, starting, plan, resolvers, faults>>

ForceCloseRequest ==
    /\ pc = "idle" /\ state = "Default"
    /\ Advance("user", height)
    /\ CommitState("BroadcastCommit")
    /\ UNCHANGED <<channel, chain, closing, starting, plan, resolvers, faults>>

\* Mutant: the commit set is not written.
LogContractResolutionsOnly ==
    /\ pc = "idle" /\ closed = "open" /\ conf \in Commits \cup {"breach"}
    /\ logged' = TRUE
    /\ pc' = "mark"
    /\ UNCHANGED <<channel, chain, commitSet, closed, published, fullyClosed,
                   wiped, state, trigger, trigHeight, starting, plan, resolvers,
                   dbState, faults>>

\* A close event is handled in three writes: the resolutions, the commit set
\* and the channel's close summary.  A cooperative close has only the last.
LogContractResolutions ==
    /\ pc = "idle" /\ closed = "open" /\ conf \in Commits \cup {"breach"}
    /\ logged' = TRUE
    /\ pc' = "commitset"
    /\ UNCHANGED <<channel, chain, commitSet, closed, published, fullyClosed,
                   wiped, state, trigger, trigHeight, starting, plan, resolvers,
                   dbState, faults>>

InsertConfirmedCommitSet ==
    /\ pc = "commitset"
    /\ commitSet' = TRUE
    /\ pc' = "mark"
    /\ UNCHANGED <<channel, chain, logged, closed, published, fullyClosed, wiped,
                   state, trigger, trigHeight, starting, plan, resolvers, dbState,
                   faults>>

MarkChannelClosed ==
    /\ \/ pc = "mark"
       \/ pc = "idle" /\ closed = "open" /\ conf = "coop"
    /\ closed' = IF conf = "pending" THEN "remote" ELSE conf
    /\ Advance(closed', closeHeight)
    /\ UNCHANGED <<channel, chain, logged, commitSet, published, fullyClosed,
                   wiped, state, starting, plan, resolvers, dbState, faults>>

ResolutionSignal(c) ==
    /\ pc = "idle" /\ rpc[c] = "signal"
    /\ rpc' = [rpc EXCEPT ![c] = "off"]
    /\ Advance("chain", height)
    /\ UNCHANGED <<channel, chain, closing, state, starting, plan, contracts,
                   offered, told, dbState, faults>>

-----------------------------------------------------------------------------
(***************************************************************************)
(* The resolvers.  rpc[c] says where the goroutine of contract c is, and   *)
(* contracts[c] what the log holds of it: a contest resolver, the resolver *)
(* it turned into (timeout, success, commit sweep, breach), the same with  *)
(* its output given to the nursery, or one checkpointed as resolved.       *)
(***************************************************************************)
At(c, where, stage) == rpc[c] = where /\ contracts[c] \in stage
Goto(c, where) == rpc' = [rpc EXCEPT ![c] = where]
Log(c, stage) == contracts' = [contracts EXCEPT ![c] = stage]
Tell(h, msg) == told' = [told EXCEPT ![h] = @ \cup {msg}]
Elsewhere == UNCHANGED <<channel, chain, closing, attendant, dbState, faults>>

\* The peer spent the output with the preimage.
ClaimCleanUp(h) == Tell(h, "settle") /\ Goto(h, "resolved") /\ UNCHANGED contracts

\* An outgoing HTLC that has not expired: first look for a spend, then wait
\* for one or for the block that lets the timeout transaction in.
OutgoingContest(h) ==
    /\ Outgoing(h) /\ At(h, "resolve", {"contest"})
    /\ IF spent[h] # "no" THEN ClaimCleanUp(h)
       ELSE Goto(h, "watch") /\ UNCHANGED <<contracts, told>>
    /\ UNCHANGED offered
    /\ Elsewhere

OutgoingClaimed(h) ==
    /\ Outgoing(h) /\ At(h, "watch", {"contest"})
    /\ spent[h] # "no"
    /\ ClaimCleanUp(h)
    /\ UNCHANGED offered
    /\ Elsewhere

OutgoingExpires(h) ==
    /\ Outgoing(h) /\ At(h, "watch", {"contest"})
    /\ height >= kind[h].expiry - 1
    /\ Log(h, "final") /\ Goto(h, "resolve")
    /\ UNCHANGED <<offered, told>>
    /\ Elsewhere

\* An incoming HTLC: give up what cannot be decoded, has expired or is
\* refused, and claim what we know the preimage of.
IncomingDecided(h) ==
    IF verdict[h] = "preimage" THEN Log(h, "final") /\ Goto(h, "resolve")
                               ELSE Goto(h, "resolved") /\ UNCHANGED contracts

IncomingContest(h) ==
    /\ ~Outgoing(h) /\ At(h, "resolve", {"contest"})
    /\ IF kind[h].hop = "bad" THEN Goto(h, "delete") /\ UNCHANGED contracts
       ELSE IF height >= kind[h].expiry
            THEN Goto(h, "resolved") /\ UNCHANGED contracts
       ELSE IF verdict[h] # "unknown" THEN IncomingDecided(h)
       ELSE Goto(h, "watch") /\ UNCHANGED contracts
    /\ UNCHANGED <<offered, told>>
    /\ Elsewhere

IncomingVerdict(h) ==
    /\ ~Outgoing(h) /\ At(h, "watch", {"contest"})
    /\ verdict[h] # "unknown"
    /\ IncomingDecided(h)
    /\ UNCHANGED <<offered, told>>
    /\ Elsewhere

IncomingExpires(h) ==
    /\ ~Outgoing(h) /\ At(h, "watch", {"contest"})
    /\ height >= kind[h].expiry
    /\ Goto(h, "resolved")
    /\ UNCHANGED <<contracts, offered, told>>
    /\ Elsewhere

\* Hand the output to the nursery or the sweeper, which keep it, or wait for
\* the breach arbiter.
OfferOutput(c) ==
    /\ At(c, "resolve", {"final"})
    /\ c \in Htlcs => Outgoing(c)
    /\ offered' = offered \cup {c}
    /\ Goto(c, IF c \in Htlcs THEN "incubated" ELSE "wait")
    /\ UNCHANGED <<contracts, told>>
    /\ Elsewhere

\* What the wallet's PublishTransaction may answer when the claim of h is
\* published.  On our commitment the claim is always the same transaction,
\* and one that is known already is no error.  On the peer's commitment the
\* sweep is made anew by every process, so the one an earlier process left in
\* the mempool refuses it.  Once an input is spent on the chain the backends
\* differ: some refuse the transaction, some accept and drop it.
PublishTx(h) ==
    IF spent[h] = "no"
    THEN IF conf # "local" /\ h \in offered THEN {"refused"} ELSE {"accepted"}
    ELSE IF conf = "local" /\ spent[h] = "ours" /\ h \notin swept
         THEN {"accepted"} ELSE {"accepted", "refused"}

\* Publish the claim of an incoming HTLC, and leave it to the nursery on our
\* own commitment.  On the peer's the goroutine waits for the transaction it
\* has made itself, which does not confirm when the output is already spent.
PublishClaim(h) ==
    /\ ~Outgoing(h) /\ At(h, "resolve", {"final", "incubating"})
    /\ \E answer \in PublishTx(h) :
          IF answer = "refused" THEN Goto(h, "failed") /\ UNCHANGED offered
          ELSE /\ offered' = offered \cup {h}
               /\ Goto(h, IF contracts[h] = "incubating" THEN "wait"
                          ELSE IF conf = "local" THEN "incubated"
                          ELSE IF spent[h] = "no" THEN "wait" ELSE "blocked")
    /\ UNCHANGED <<contracts, told>>
    /\ Elsewhere

CheckpointIncubating(c) ==
    /\ At(c, "incubated", {"final"})
    /\ Log(c, "incubating") /\ Goto(c, "wait")
    /\ UNCHANGED <<offered, told>>
    /\ Elsewhere

ResumeIncubating(h) ==
    /\ Outgoing(h) /\ At(h, "resolve", {"incubating"})
    /\ Goto(h, "wait")
    /\ UNCHANGED <<contracts, offered, told>>
    /\ Elsewhere

\* The timeout resolver sees its output spent, and answers before it waits
\* for the second-level output of our own commitment.
TimeoutSpent(h) ==
    /\ Outgoing(h) /\ rpc[h] = "wait" /\ spent[h] # "no"
    /\ IF spent[h] = "preimage" THEN ClaimCleanUp(h)
       ELSE /\ Tell(h, "fail")
            /\ Goto(h, IF conf = "local" THEN "second" ELSE "resolved")
            /\ UNCHANGED contracts
    /\ UNCHANGED offered
    /\ Elsewhere

\* What the goroutine waits for last: the sweep of a second-level output, of
\* our claim on the remote commitment, of our own output, or the breach
\* arbiter's completion.
LastSpend(c) ==
    /\ \/ rpc[c] = "second"
       \/ rpc[c] = "wait" /\ (c \in Htlcs => ~Outgoing(c))
    /\ IF c \in Htlcs /\ conf # "local" THEN spent[c] = "ours" ELSE c \in swept
    /\ Goto(c, "resolved")
    /\ UNCHANGED <<contracts, offered, told>>
    /\ Elsewhere

\* The outcome is checkpointed, then the contract is deleted from the log.
CheckpointResolved(c) ==
    /\ rpc[c] = "resolved"
    /\ Log(c, "done") /\ Goto(c, "delete")
    /\ UNCHANGED <<offered, told>>
    /\ Elsewhere

\* Mutant: the attendant is not told of a resolved contract.
ResolveContractSilent(c) ==
    /\ rpc[c] = "delete"
    /\ Log(c, "none") /\ Goto(c, "off")
    /\ UNCHANGED <<offered, told>>
    /\ Elsewhere

ResolveContract(c) ==
    /\ rpc[c] = "delete"
    /\ Log(c, "none") /\ Goto(c, "signal")
    /\ UNCHANGED <<offered, told>>
    /\ Elsewhere

\* Resolve returns an error of the notifier, the wallet, the nursery, the
\* sweeper or the log, and the goroutine ends: the contract stays in the log,
\* and only the next Start launches it again.
ResolveFails(c) ==
    /\ rpc[c] \in {"resolve", "watch", "incubated", "wait", "second", "resolved"}
    /\ faults < MaxFaults /\ faults' = faults + 1
    /\ Goto(c, "failed")
    /\ UNCHANGED <<channel, chain, closing, attendant, contracts, offered, told,
                   dbState>>

-----------------------------------------------------------------------------
(***************************************************************************)
(* Stopping and starting.  Start replays the close trigger of a channel    *)
(* that is marked closed only if the machine had not reached               *)
(* StateContractClosed; a fully closed channel has no arbitrator any more. *)
(***************************************************************************)
Start ==
    /\ state' = dbState
    /\ starting' = dbState
    /\ trigger' = IF /\ closed # "open"
                     /\ dbState \in {"Default", "BroadcastCommit",
                                     "CommitmentBroadcasted"}
                  THEN closed ELSE "chain"
    /\ trigHeight' = IF closed = "open" THEN height ELSE closeHeight
    /\ pc' = "advance"
    /\ plan' = NoPlan
    /\ rpc' = AllOff

CrashAndRestart ==
    /\ ~fullyClosed
    /\ faults < MaxFaults /\ faults' = faults + 1
    /\ RestartWhenClosed \/ dbState # "ContractClosed"
    /\ Start
    /\ UNCHANGED <<channel, chain, closing, contracts, offered, told, dbState>>

ArbitratorInit ==
    /\ \E ch \in Channels :
          kind = ch.kind /\ hasCommit = ch.hasCommit /\ pendingSigned = ch.pend
    /\ height = 0 /\ conf = "none" /\ closeHeight = 0
    /\ spent = [h \in Htlcs |-> "no"] /\ swept = {}
    /\ verdict = [h \in Htlcs |-> "unknown"]
    /\ told = [h \in Htlcs |-> {}]
    /\ dbState = "Default" /\ logged = FALSE /\ commitSet = FALSE
    /\ closed = "open" /\ contracts = NoPlan
    /\ published = FALSE /\ offered = {}
    /\ fullyClosed = FALSE /\ wiped = FALSE
    /\ state = "Default" /\ pc = "idle" /\ trigger = "chain" /\ trigHeight = 0
    /\ starting = "no" /\ plan = NoPlan /\ rpc = AllOff
    /\ faults = 0

AttendantStep ==
    \/ StepDefault \/ StepBroadcastCommit \/ CommitBroadcast
    \/ StepCommitmentBroadcasted \/ StepOnClose \/ StepContractClosed
    \/ InsertUnresolvedContracts \/ CommitWaiting \/ StepWaitingFullResolution
    \/ StepFullyResolved \/ WipeHistory
    \/ LogContractResolutions \/ InsertConfirmedCommitSet \/ MarkChannelClosed
    \/ \E c \in Contracts : ResolutionSignal(c)

HtlcStep(h) ==
    \/ OutgoingContest(h) \/ OutgoingClaimed(h) \/ OutgoingExpires(h)
    \/ IncomingContest(h) \/ IncomingVerdict(h) \/ IncomingExpires(h)
    \/ PublishClaim(h) \/ ResumeIncubating(h) \/ TimeoutSpent(h)

ContractStep(c) ==
    \/ OfferOutput(c) \/ CheckpointIncubating(c) \/ LastSpend(c)
    \/ CheckpointResolved(c) \/ ResolveContract(c)

ResolverStep(c) == ContractStep(c) \/ (c \in Htlcs /\ HtlcStep(c))

OurTxConfirms(c) ==
    \/ SweepConfirms(c)
    \/ c \in Htlcs /\ (TimeoutTxConfirms(c) \/ ClaimTxConfirms(c))

ArbitratorNext ==
    \/ NewBlock \/ CommitmentConfirms \/ TakeBlock \/ ForceCloseRequest
    \/ PublishFails \/ CrashAndRestart \/ AttendantStep
    \/ \E c \in Contracts : ResolverStep(c) \/ ResolveFails(c) \/ OurTxConfirms(c)
    \/ \E h \in Htlcs : PeerClaims(h) \/ PeerTimesOut(h) \/ VerdictArrives(h)

ArbitratorSpec == ArbitratorInit /\ [][ArbitratorNext]_vars

(***************************************************************************)
(* The goroutines run, blocks are found, and the transactions we offer     *)
(* confirm.  Nothing is asked of the peer, the registry or the user.       *)
(***************************************************************************)
ArbitratorFairness ==
    /\ WF_vars(NewBlock) /\ WF_vars(\E c \in Contracts : OurTxConfirms(c))
    /\ WF_vars(AttendantStep) /\ \A c \in Contracts : WF_vars(ResolverStep(c))

FairArbitratorSpec == ArbitratorSpec /\ ArbitratorFairness

-----------------------------------------------------------------------------
\* Every variable has its type.
ArbitratorTypeOK ==
    /\ kind \in [Htlcs -> KindType] /\ height \in 0..MaxHeight
    /\ conf \in Commits \cup {"none", "coop", "breach"}
    /\ spent \in [Htlcs -> {"no", "preimage", "timeout", "ours", "peer"}]
    /\ swept \subseteq Contracts /\ offered \subseteq Contracts
    /\ verdict \in [Htlcs -> {"unknown", "preimage", "refused"}]
    /\ told \in [Htlcs -> SUBSET {"fail", "settle"}]
    /\ dbState \in States /\ state \in States
    /\ closed \in CloseTriggers \cup {"open"}
    /\ contracts \in [Contracts -> {"none", "contest", "final", "incubating", "done"}]
    /\ trigger \in CloseTriggers \cup {"chain", "user"}
    /\ starting \in States \cup {"no"}
    /\ plan \in [Contracts -> {"none", "contest", "final"}]
    /\ {logged, commitSet, published, fullyClosed, wiped} \subseteq BOOLEAN

\* What the switch is told of an outgoing HTLC is what the chain says: it is
\* settled only if the peer took the output with the preimage, and failed
\* only if the output went back to us or the confirmed commitment, a breach
\* included, has no output for it.  So it never hears two answers, however
\* often a restart has an answer repeated (DeliverResolutionMsg in stateStep
\* and in the resolvers).
AnswersMatchChain ==
    \A h \in Htlcs :
        /\ "settle" \in told[h] => conf \in kind[h].outs /\ spent[h] = "preimage"
        /\ "fail" \in told[h] => \/ conf \in kind[h].outs /\ spent[h] = "timeout"
                                 \/ conf \notin kind[h].outs \cup {"none"}

\* A channel that is marked closed has its resolutions and its commit set in
\* the log, so that Start can go on from there: the chain event that brought
\* them is not delivered again (the three writes of the close handlers).
ClosedIsRecoverable ==
    closed \in {"local", "remote", "breach"} => logged /\ commitSet

\* No HTLC is forgotten.  When the channel is given up as resolved, every
\* outgoing HTLC of any of the three commitments has been answered, and every
\* incoming one with an output has been claimed, had expired, was refused by
\* the registry or could not be decoded (constructChainActions decides which
\* resolvers exist, also when StateContractClosed is executed again).
EveryHtlcAccounted ==
    fullyClosed => \A h \in Htlcs :
        /\ Outgoing(h) /\ kind[h].sets # {} => told[h] # {}
        /\ ~Outgoing(h) /\ conf \in kind[h].outs =>
              \/ spent[h] # "no" \/ height >= kind[h].expiry
              \/ verdict[h] = "refused" \/ kind[h].hop = "bad"

\* While the arbitrator waits for its contracts, each contract of the log has
\* had its goroutine launched since the process started, except one that was
\* checkpointed as resolved before a stop; and the goroutine is still there,
\* unless its Resolve returned an error, which takes a fault before it or an
\* output that the peer took first (launchResolvers, relaunchResolvers,
\* resolveContract).
WaitingIsDriven ==
    state = "WaitingFullResolution" /\ pc = "idle" =>
        \A c \in Contracts : contracts[c] \notin {"none", "done"} =>
            /\ rpc[c] # "off"
            /\ rpc[c] = "failed" => \/ faults # 0
                                    \/ /\ c \in Htlcs /\ ~Outgoing(c)
                                       /\ spent[c] = "peer"

\* Nothing moves this contract as long as the process runs: it was
\* checkpointed as resolved and the process stopped before it was deleted
\* (then no later start moves it either); Resolve returned an error; or a
\* success resolver waits for a claim that cannot confirm, since the peer took
\* the output or since a sweep of an earlier process did.
Stranded(c) ==
    \/ contracts[c] = "done" /\ rpc[c] = "off"
    \/ rpc[c] \in {"failed", "blocked"}
    \/ /\ c \in Htlcs /\ contracts[c] \in {"final", "incubating"}
       /\ ~Outgoing(c) /\ spent[c] = "peer"

\* Once a spend of the funding output confirms, the channel is eventually
\* marked fully closed, whatever was running when it confirmed and wherever
\* the process stopped since, unless some contract is left stranded for good:
\* an error that a later start makes up for does not keep the channel open.
ChannelResolves ==
    conf # "none" ~> fullyClosed \/ [](\E c \in Contracts : Stranded(c))

=============================================================================
