-------------------------- MODULE LightningChannel --------------------------
(***************************************************************************)
(* The commitment state machine of one channel between two honest peers:   *)
(* lnwallet/channel.go (update logs, commitment chains, signing, revoking, *)
(* restoring, re-synchronising), the writes of channeldb/channel.go it     *)
(* makes, and the handlers of htlcswitch/link.go that drive it.            *)
(*                                                                         *)
(* Each party p has                                                        *)
(*   lc[p]    its LightningChannel object, lost when the link goes down;   *)
(*   db[p]    its channel bucket, every field written in one transaction;  *)
(*   link[p]  the state of its link: "down", "sync" (ChannelReestablish    *)
(*            sent, the peer's awaited), "up", or "failed" (l.fail);       *)
(*   net[p]   the messages in flight towards p, in order.                  *)
(*                                                                         *)
(* A commitment is described from the perspective of the party that holds  *)
(* the record: `our` and `their`, `out` (HTLCs it offered) and `in`.       *)
(***************************************************************************)
EXTENDS Integers, Sequences, FiniteSets, SequencesExt

CONSTANTS
    Party,              \* the two peers
    Initiator,          \* the one that funded the channel and pays the fees
    InitialBalance,     \* [Party -> Nat], what each put in
    InitialFeePerKB,    \* the fee rate of the first commitment
    FeeRates,           \* the rates an update_fee may carry
    HtlcAmounts,        \* the amounts an offered HTLC may have
    Size,               \* [commit, htlc, success, timeout]: transaction sizes
    Limit,              \* [minHtlc, maxPending, maxAccepted, feeFloor]
    DustLimit,          \* [Party -> Nat], dust limit of a party's commitments
    ChanReserve,        \* [Party -> Nat], the reserve a party must keep
    BatchSize,          \* local updates after which the link signs at once
    NewChannel,         \* whether neither party has revoked a commitment yet
    StopsMidHandler,    \* whether a process may also stop inside a handler
    MaxHtlcs,           \* bound: [Party -> Nat], HTLCs a party ever offers
    MaxFeeUpdates,      \* bound: fee updates the initiator ever sends
    MaxDisconnects      \* bound: times the connection is lost

ASSUME PartyAssumption ==
    Initiator \in Party /\ Cardinality(Party) = 2

ASSUME BoundAssumption ==
    /\ {MaxFeeUpdates, MaxDisconnects, BatchSize} \subseteq Nat
    /\ MaxHtlcs \in [Party -> Nat]
    /\ {NewChannel, StopsMidHandler} \subseteq BOOLEAN

VARIABLES lc, db, link, net, fees, drops

vars == <<lc, db, link, net, fees, drops>>

Peer(p) == CHOOSE q \in Party : q # p

Sides == {"local", "remote"}

Opposite(side) == IF side = "local" THEN "remote" ELSE "local"

-----------------------------------------------------------------------------
(* Update logs: a list of payment descriptors and the log's counters.      *)

Removals == {"Settle", "Fail"}

NoHeight == [side \in Sides |-> 0]

At(side, h) == [NoHeight EXCEPT ![side] = h]

\* One entry.  add and rem are the four commit heights; for a Settle or Fail
\* entry id is the parent's HTLC index; a fee update carries its rate in amt.
PaymentDescriptor(typ, idx, id, amt) ==
    [typ |-> typ, idx |-> idx, id |-> id, amt |-> amt,
     add |-> NoHeight, rem |-> NoHeight, fwd |-> FALSE]

newUpdateLog(logIndex, htlcCounter) ==
    [logIndex |-> logIndex, htlcCounter |-> htlcCounter,
     list |-> <<>>, modified |-> {}]

appendEntry(log, e) ==
    [log EXCEPT !.list = Append(@, e),
                !.logIndex = @ + 1,
                !.htlcCounter = IF e.typ = "Add" THEN @ + 1 ELSE @]

lookupHtlc(log, id) == {e \in ToSet(log.list) : e.typ = "Add" /\ e.id = id}

\* An HTLC that exists and that no settle or fail is already consuming.
modifiable(log, id) == lookupHtlc(log, id) # {} /\ id \notin log.modified

ParentAmt(log, id) == (CHOOSE e \in lookupHtlc(log, id) : TRUE).amt

Ids(seq) == {e.id : e \in ToSet(seq)}

RemovedIds(seq) == {e.id : e \in {x \in ToSet(seq) : x.typ \in Removals}}

SumAmt(seq) == FoldLeft(LAMBDA acc, e : acc + e.amt, 0, seq)

\* Entries whose removal both chains' tails have passed go, with the HTLC
\* they removed.
compactLogs(logs, localTail, remoteTail) ==
    LET done(e) == /\ e.typ # "Add"
                   /\ e.rem["remote"] # 0 /\ e.rem["local"] # 0
                   /\ remoteTail >= e.rem["remote"]
                   /\ localTail >= e.rem["local"]
        gone(side) == RemovedIds(SelectSeq(logs[Opposite(side)].list, done))
    IN  [side \in Sides |->
            [logs[side] EXCEPT
                !.list = SelectSeq(@, LAMBDA e :
                            ~done(e) /\ ~(e.typ = "Add" /\ e.id \in gone(side))),
                !.modified = @ \ gone(side)]]

-----------------------------------------------------------------------------
(* Commitments and the views they are built from.                          *)

tip(chain) == chain[Len(chain)]

tail(chain) == chain[1]

\* Mutant: whose transaction it is makes no difference.
HtlcIsDustOneSided(incoming, ours, rate, amt, limit) ==
    amt - rate * (IF incoming THEN Size.success ELSE Size.timeout) < limit

HtlcIsDust(incoming, ours, rate, amt, limit) ==
    amt - rate * (IF incoming = ours THEN Size.success ELSE Size.timeout) < limit

\* The party whose commitments p's chain `side` holds.
Owner(p, side) == IF side = "local" THEN p ELSE Peer(p)

NonDust(p, side, incoming, rate, htlcs) ==
    SelectSeq(htlcs, LAMBDA e :
        ~HtlcIsDust(incoming, side = "local", rate, e.amt, DustLimit[Owner(p, side)]))

CommitFee(p, side, rate, out, in) ==
    rate * (Size.commit + Size.htlc *
              ( Len(NonDust(p, side, FALSE, rate, out))
              + Len(NonDust(p, side, TRUE, rate, in)) ))

fetchHTLCView(c, theirIdx, ourIdx) ==
    [ours   |-> SelectSeq(c.log["local"].list, LAMBDA e : e.idx < ourIdx),
     theirs |-> SelectSeq(c.log["remote"].list, LAMBDA e : e.idx < theirIdx)]

\* fetchParent succeeds for every settle and fail of the updates.
ParentsFound(updates, parentLog, side) ==
    \A e \in ToSet(updates) :
        e.typ \in Removals => \E a \in lookupHtlc(parentLog, e.id) : a.add[side] # 0

\* evaluateHTLCView and computeView: the balances before fees, the fee rate
\* and the HTLCs of the commitment that the view extends the tip with.
computeView(c, p, view, side) ==
    LET base   == tip(c.chain[side])
        out    == SelectSeq(view.ours, LAMBDA e :
                     e.typ = "Add" /\ e.id \notin RemovedIds(view.theirs))
        in     == SelectSeq(view.theirs, LAMBDA e :
                     e.typ = "Add" /\ e.id \notin RemovedIds(view.ours))
        fresh(seq) == SumAmt(SelectSeq(seq, LAMBDA e : e.add[side] = 0))
        credit(seq, typ) == SumAmt(SelectSeq(seq, LAMBDA e :
                               e.typ = typ /\ e.rem[side] = 0))
        newFees == SelectSeq(view.ours \o view.theirs, LAMBDA e :
                      e.typ = "Fee" /\ e.add[side] = 0)
        feeBack(q) == IF q = Initiator THEN base.fee ELSE 0
    IN  [our   |-> base.our + feeBack(p) - fresh(out)
                     + credit(view.ours, "Settle") + credit(view.theirs, "Fail"),
         their |-> base.their + feeBack(Peer(p)) - fresh(in)
                     + credit(view.theirs, "Settle") + credit(view.ours, "Fail"),
         rate  |-> IF newFees = <<>> THEN base.rate ELSE Last(newFees).amt,
         out   |-> out,
         in    |-> in,
         found |-> /\ ParentsFound(view.ours, c.log["remote"], side)
                   /\ ParentsFound(view.theirs, c.log["local"], side)]

\* The balances once the initiator has paid the commitment fee.
Charged(balance, q, fee) == IF q = Initiator THEN balance - fee ELSE balance

\* Mutant: the limit on the pending amount is not enforced.
validateUpdatesUncapped(htlcs) ==
    /\ \A e \in ToSet(htlcs) : e.amt # 0 /\ e.amt >= Limit.minHtlc
    /\ Len(htlcs) <= Limit.maxAccepted

validateUpdates(htlcs) ==
    /\ \A e \in ToSet(htlcs) : e.amt # 0 /\ e.amt >= Limit.minHtlc
    /\ SumAmt(htlcs) <= Limit.maxPending
    /\ Len(htlcs) <= Limit.maxAccepted

\* The checks on the balances and the HTLCs of a commitment that is to follow
\* base, with the given fee.
CommitmentIsSane(p, base, v, our, their) ==
    /\ v.found
    /\ our >= 0 /\ their >= 0
    /\ v.rate >= Limit.feeFloor
    /\ our < base.our => our >= ChanReserve[p]
    /\ their < base.their => their >= ChanReserve[Peer(p)]
    /\ validateUpdates(v.in) /\ validateUpdates(v.out)

SaneWithFee(p, base, v, fee) ==
    CommitmentIsSane(p, base, v, Charged(v.our, p, fee), Charged(v.their, Peer(p), fee))

ViewIsSane(p, side, base, v) ==
    SaneWithFee(p, base, v, CommitFee(p, side, v.rate, v.out, v.in))

\* The checks on the commitment a view leads to, as it would be with the
\* HTLCs addOurs and addTheirs appended.
validateCommitmentSanity(c, p, side, theirIdx, ourIdx, addOurs, addTheirs) ==
    LET seen == fetchHTLCView(c, theirIdx, ourIdx)
    IN  ViewIsSane(p, side, tip(c.chain[side]),
                   computeView(c, p, [ours   |-> seen.ours \o addOurs,
                                      theirs |-> seen.theirs \o addTheirs], side))

\* The HTLC fields a commitment keeps (channeldb.HTLC): no commit heights.
CommitHtlcs(seq) ==
    [i \in DOMAIN seq |-> [id |-> seq[i].id, idx |-> seq[i].idx, amt |-> seq[i].amt]]

\* A commitment with the balances, HTLCs and fee rate of a view.
CommitmentOf(p, height, idx, v, fee) ==
    [height |-> height,
     ourIdx |-> idx.ourIdx, ourHtlc |-> idx.ourHtlc,
     theirIdx |-> idx.theirIdx, theirHtlc |-> idx.theirHtlc,
     our |-> Charged(v.our, p, fee), their |-> Charged(v.their, Peer(p), fee),
     fee |-> fee, rate |-> v.rate,
     out |-> CommitHtlcs(v.out), in |-> CommitHtlcs(v.in)]

CommitmentOfView(p, side, height, idx, v) ==
    CommitmentOf(p, height, idx, v, CommitFee(p, side, v.rate, v.out, v.in))

\* The next commitment of a chain, with the updates below the indexes idx.
NewCommitment(c, p, side, idx) ==
    CommitmentOfView(p, side, tip(c.chain[side]).height + 1, idx,
                     computeView(c, p, fetchHTLCView(c, idx.theirIdx, idx.ourIdx), side))

\* Mutant: settles and fails are not stamped, so they are applied again.
StampHeightsAddsOnly(log, upTo, skipped, side, h) ==
    [log EXCEPT !.list = [i \in DOMAIN @ |->
        IF @[i].idx < upTo /\ @[i].typ = "Add" /\ @[i].add[side] = 0
        THEN [@[i] EXCEPT !.add[side] = h] ELSE @[i]]]

\* What evaluating a view with mutateState does to a log: the entries that are
\* new on this chain get the height of the new commitment.
StampHeights(log, upTo, skipped, side, h) ==
    [log EXCEPT !.list = [i \in DOMAIN @ |->
        LET e == @[i]
        IN  CASE e.idx >= upTo -> e
              [] e.typ = "Add" /\ e.add[side] = 0 /\ e.id \notin skipped ->
                    [e EXCEPT !.add[side] = h]
              [] e.typ \in Removals /\ e.rem[side] = 0 -> [e EXCEPT !.rem[side] = h]
              [] e.typ = "Fee" /\ e.add[side] = 0 ->
                    [e EXCEPT !.add[side] = h, !.rem[side] = h]
              [] OTHER -> e]]

\* fetchCommitmentView: the channel with the commitment on its chain, and the
\* running totals that settles on our own commitment add to.
fetchCommitmentView(c, side, commit) ==
    LET view == fetchHTLCView(c, commit.theirIdx, commit.ourIdx)
        settled(seq) == IF side = "remote" THEN 0
                        ELSE SumAmt(SelectSeq(seq, LAMBDA e :
                                e.typ = "Settle" /\ e.rem["local"] = 0))
    IN  [c EXCEPT
            !.log["local"] = StampHeights(@, commit.ourIdx,
                                RemovedIds(view.theirs), side, commit.height),
            !.log["remote"] = StampHeights(@, commit.theirIdx,
                                RemovedIds(view.ours), side, commit.height),
            !.chain[side] = Append(@, commit),
            !.received = @ + settled(view.ours),
            !.sent = @ + settled(view.theirs)]

-----------------------------------------------------------------------------
(* The channel operations.  A step of a party is computed on a record      *)
(* r = [c, d, out, ok]: its channel object, its bucket, the messages it    *)
(* sends, in order, and FALSE once an error has made the link fail.        *)

Begin(p) == [c |-> lc[p], d |-> db[p], out |-> <<>>, ok |-> TRUE]

Errored(r) == [r EXCEPT !.ok = FALSE]

Sending(r, msgs) == [r EXCEPT !.out = @ \o msgs]

NoDiff == [commit |-> <<>>, updates |-> <<>>]

LogUpdate(e) == [typ |-> e.typ, id |-> e.id, amt |-> e.amt, idx |-> e.idx]

LogUpdates(seq) == [i \in DOMAIN seq |-> LogUpdate(seq[i])]

UpdateMsg(u) == [typ |-> u.typ, id |-> u.id, amt |-> u.amt]

\* The transaction a signature is over, from its owner's side: dust outputs
\* are trimmed, and the HTLC id stands for the payment hash and the expiry.
Transaction(p, side, commit) ==
    LET limit == DustLimit[Owner(p, side)]
        output(b) == IF b < limit THEN 0 ELSE b
        htlcs(incoming, seq) == {<<e.id, e.amt>> :
            e \in ToSet(NonDust(p, side, incoming, commit.rate, seq))}
        mine == [bal |-> output(commit.our), htlcs |-> htlcs(FALSE, commit.out)]
        others == [bal |-> output(commit.their), htlcs |-> htlcs(TRUE, commit.in)]
    IN  [height |-> commit.height,
         owner  |-> IF side = "local" THEN mine ELSE others,
         other  |-> IF side = "local" THEN others ELSE mine]

CommitSigMsg(p, commit) ==
    [typ |-> "CommitSig", tx |-> Transaction(p, "remote", commit)]

\* createCommitDiff's log updates: the local entries that are new on the
\* signed commitment.
createCommitDiff(c, commit) ==
    [commit  |-> commit,
     updates |-> LogUpdates(SelectSeq(c.log["local"].list, LAMBDA e :
                    \/ e.add["remote"] = commit.height
                    \/ e.rem["remote"] = commit.height))]

\* AppendRemoteCommitChain: one transaction stores the diff and acknowledges
\* the adds that its settles and fails answer.
AppendRemoteCommitChain(d, diff) ==
    [d EXCEPT !.diff = diff,
              !.lastWasRevoke = FALSE,
              !.acked = @ \cup RemovedIds(diff.updates)]

\* The commitment is put on the remote chain, stored and sent.
StoreSigned(r, p, commit, signed) ==
    Sending([r EXCEPT !.c = signed,
                      !.d = AppendRemoteCommitChain(@, createCommitDiff(signed, commit))],
            <<CommitSigMsg(p, commit)>>)

SendCommitment(r, p, commit) ==
    StoreSigned(r, p, commit, fetchCommitmentView(r.c, "remote", commit))

\* All local updates and the remote ones on the commitment we revoked for last.
RemoteIndexes(c) ==
    [ourIdx   |-> c.log["local"].logIndex, ourHtlc |-> c.log["local"].htlcCounter,
     theirIdx |-> tail(c.chain["local"]).theirIdx,
     theirHtlc |-> tail(c.chain["local"]).theirHtlc]

\* Extend the remote chain with all local updates and the acknowledged
\* remote ones; a no-op while the peer has not revoked the last one.
SignNextCommitment(r, p) ==
    CASE Len(r.c.chain["remote"]) > 1 -> r
      [] Len(r.c.chain["remote"]) = 1 /\
         validateCommitmentSanity(r.c, p, "remote", tail(r.c.chain["local"]).theirIdx,
                                  r.c.log["local"].logIndex, <<>>, <<>>) ->
            SendCommitment(r, p, NewCommitment(r.c, p, "remote", RemoteIndexes(r.c)))
      [] OTHER -> Errored(r)

updateCommitTx(r, p) == IF r.ok THEN SignNextCommitment(r, p) ELSE r

\* We have updates that the remote chain's tip does not cover yet.
OweCommitment(c) ==
    \/ c.log["local"].logIndex # tip(c.chain["remote"]).ourIdx
    \/ tip(c.chain["local"]).theirIdx # tip(c.chain["remote"]).theirIdx

PendingLocalUpdateCount(c) ==
    c.log["local"].logIndex - tip(c.chain["remote"]).ourIdx

\* Mutant: the handlers leave signing to the batch ticker.
signIfOwedNever(r, p) == r

signIfOwed(r, p) == IF r.ok /\ OweCommitment(r.c) THEN updateCommitTx(r, p) ELSE r

AppendTo(r, side, e) == [r EXCEPT !.c.log[side] = appendEntry(@, e)]

\* A settle or fail entry in log `side` for an HTLC of the opposite log.
AppendRemoval(r, side, typ, id) ==
    LET parents == r.c.log[Opposite(side)]
        e == PaymentDescriptor(typ, r.c.log[side].logIndex, id, ParentAmt(parents, id))
    IN  [AppendTo(r, side, e) EXCEPT
            !.c.log[Opposite(side)].modified = @ \cup {id}]

\* Remote entries on our commitment that the remote tail does not cover.
getUnsignedAckedUpdates(c) ==
    LogUpdates(SelectSeq(c.log["remote"].list, LAMBDA e :
        /\ e.idx >= tail(c.chain["remote"]).theirIdx
        /\ e.idx < tail(c.chain["local"]).theirIdx))

\* Local settles, fails and fees that the remote chain covers and our own
\* commitment does not.
unsignedLocalUpdates(c, remoteIdx, localIdx) ==
    LogUpdates(SelectSeq(c.log["local"].list, LAMBDA e :
        e.typ # "Add" /\ e.idx < remoteIdx /\ e.idx >= localIdx))

\* Mutant: the acknowledged remote updates that are not signed yet are not stored.
UpdateCommitmentNoAcked(d, c, commit) ==
    [d EXCEPT !.local = commit, !.ackedKey = TRUE, !.lastWasRevoke = TRUE,
              !.peerUnsigned = SelectSeq(@, LAMBDA u : u.idx >= commit.ourIdx),
              !.sent = c.sent, !.received = c.received]

\* Mutant: the totals are not stored.
UpdateCommitmentNoTotals(d, c, commit) ==
    [d EXCEPT !.local = commit, !.ackedKey = TRUE, !.lastWasRevoke = TRUE,
              !.unsignedAcked = getUnsignedAckedUpdates(c),
              !.peerUnsigned = SelectSeq(@, LAMBDA u : u.idx >= commit.ourIdx)]

\* UpdateCommitment: one transaction per revoked local commitment.
UpdateCommitment(d, c, commit) ==
    [d EXCEPT !.local = commit,
              !.ackedKey = TRUE,
              !.unsignedAcked = getUnsignedAckedUpdates(c),
              !.peerUnsigned = SelectSeq(@, LAMBDA u : u.idx >= commit.ourIdx),
              !.lastWasRevoke = TRUE,
              !.sent = c.sent,
              !.received = c.received]

RevokeMsg(height) == [typ |-> "Revoke", secret |-> height, next |-> height + 2]

\* All remote updates and the local ones that the peer's revocations acknowledged.
LocalIndexes(c) ==
    [ourIdx   |-> tail(c.chain["remote"]).ourIdx,
     ourHtlc  |-> tail(c.chain["remote"]).ourHtlc,
     theirIdx |-> c.log["remote"].logIndex, theirHtlc |-> c.log["remote"].htlcCounter]

AcceptCommitment(r, p, msg, commit) ==
    IF msg.tx = Transaction(p, "local", commit)
    THEN [r EXCEPT !.c = fetchCommitmentView(@, "local", commit)]
    ELSE Errored(r)

\* The peer's signature must be over the commitment we build ourselves.
ReceiveNewCommitment(r, p, msg) ==
    IF validateCommitmentSanity(r.c, p, "local", r.c.log["remote"].logIndex,
                                tail(r.c.chain["remote"]).ourIdx, <<>>, <<>>)
    THEN AcceptCommitment(r, p, msg, NewCommitment(r.c, p, "local", LocalIndexes(r.c)))
    ELSE Errored(r)

RevokeCurrentCommitment(r) ==
    LET c == [r.c EXCEPT !.chain["local"] = Tail(@)]
    IN  Sending([r EXCEPT !.c = c,
                          !.d = UpdateCommitment(@, c, tail(c.chain["local"]))],
                <<RevokeMsg(tail(r.c.chain["local"]).height)>>)

\* Mutant: being on our own commitment is enough.
LockedInEarly(c, remoteTail, e) ==
    /\ e.typ # "Fee" /\ ~e.fwd
    /\ (IF e.typ = "Add" THEN e.add ELSE e.rem)["local"] \in 1..tail(c.chain["local"]).height

\* Mutant: an entry that was locked in by an earlier revocation counts again.
LockedInAgain(c, remoteTail, e) ==
    /\ e.typ # "Fee"
    /\ LET h == IF e.typ = "Add" THEN e.add ELSE e.rem
       IN  h["local"] > 0 /\ h["remote"] \in 1..remoteTail

\* Mutant: off by one on our own chain.
LockedInLate(c, remoteTail, e) ==
    /\ e.typ # "Fee" /\ ~e.fwd
    /\ LET h == IF e.typ = "Add" THEN e.add ELSE e.rem
       IN  /\ h["remote"] = remoteTail
           /\ h["local"] \in 1..(tail(c.chain["local"]).height - 1)

\* The entries of the remote log that a revocation locks in on both chains.
LockedIn(c, remoteTail, e) ==
    /\ e.typ # "Fee" /\ ~e.fwd
    /\ LET h == IF e.typ = "Add" THEN e.add ELSE e.rem
       IN  /\ h["remote"] > 0 /\ h["local"] > 0
           /\ h["remote"] = remoteTail
           /\ h["local"] <= tail(c.chain["local"]).height

\* Mutant: the diff is cleared and its commitment is not promoted.
AdvanceCommitChainTailStale(d, msg, locked, localPeerUpdates) ==
    [d EXCEPT !.diff = NoDiff,
              !.curRevocation = d.nextRevocation,
              !.nextRevocation = msg.next,
              !.peerUnsigned = localPeerUpdates]

\* AdvanceCommitChainTail: one transaction per received revocation, with the
\* forwarding package of the locked in entries.  It returns before it stores
\* the local updates while unsignedAckedUpdatesKey is not in the bucket, that
\* is until UpdateCommitment has run once.
AdvanceCommitChainTail(d, msg, locked, localPeerUpdates) ==
    LET commit == d.diff.commit
    IN  [d EXCEPT !.remote = commit,
                  !.diff = NoDiff,
                  !.curRevocation = d.nextRevocation,
                  !.nextRevocation = msg.next,
                  !.unsignedAcked = SelectSeq(@, LAMBDA u : u.idx >= commit.theirIdx),
                  !.peerUnsigned = IF d.ackedKey THEN localPeerUpdates ELSE @,
                  !.fwdPkgs = @ \cup {[height |-> commit.height, typ |-> e.typ, id |-> e.id] :
                                         e \in locked}]

ReceiveRevocation(r, msg) ==
    LET c       == r.c
        height  == tail(c.chain["remote"]).height + 1
        locked  == {e \in ToSet(c.log["remote"].list) : LockedIn(c, height, e)}
        updates == unsignedLocalUpdates(c, tip(c.chain["remote"]).ourIdx,
                                        tail(c.chain["local"]).ourIdx)
        marked  == [c.log EXCEPT !["remote"].list = [i \in DOMAIN @ |->
                        [@[i] EXCEPT !.fwd = @ \/ c.log["remote"].list[i] \in locked]]]
    IN  IF r.d.diff = NoDiff \/ msg.secret # r.d.curRevocation
        THEN Errored(r)
        ELSE [r EXCEPT
                !.d = AdvanceCommitChainTail(@, msg, locked, updates),
                !.c.chain["remote"] = Tail(@),
                !.c.log = compactLogs(marked, tail(c.chain["local"]).height, height)]

-----------------------------------------------------------------------------
(* Restoring the channel object from the bucket, and re-synchronising.     *)

\* The adds of a stored commitment; heights is by HTLC id.
RestoredAdds(htlcs, heights) ==
    [i \in DOMAIN htlcs |->
        [PaymentDescriptor("Add", htlcs[i].idx, htlcs[i].id, htlcs[i].amt)
            EXCEPT !.add = heights[htlcs[i].id]]]

\* A restored update with commit height h on chain side: an add was added
\* there, a settle or fail removed something there, a fee counts as both.
RestoredUpdate(u, heights) ==
    [PaymentDescriptor(u.typ, u.idx, u.id, u.amt) EXCEPT
        !.add = IF u.typ \in Removals THEN @ ELSE heights,
        !.rem = IF u.typ = "Add" THEN @ ELSE heights]

RestoredUpdates(seq, heights) == [i \in DOMAIN seq |-> RestoredUpdate(seq[i], heights)]

\* restoreStateLogs: both logs from the commitments, the pending diff, the
\* remote updates we have not signed and our updates the peer has not signed.
RestoredLogs(d) ==
    LET pending == d.diff # NoDiff
        hLocal  == d.local.height
        hRemote == d.remote.height
        hPend   == d.diff.commit.height
        inHeights == [id \in Ids(d.local.in) |->
            [local  |-> hLocal,
             remote |-> CASE id \in Ids(d.remote.in) \cup RemovedIds(d.peerUnsigned) -> hRemote
                          [] id \notin Ids(d.remote.in) \cup RemovedIds(d.peerUnsigned)
                             /\ pending /\ id \in Ids(d.diff.commit.in) -> hPend
                          [] OTHER -> 0]]
        outHeights == [id \in Ids(d.remote.out) |->
            [remote |-> hRemote,
             local  |-> IF id \in Ids(d.local.out) \cup RemovedIds(d.unsignedAcked)
                        THEN hLocal ELSE 0]]
        ackedHeights(u) ==
            [local  |-> hLocal,
             remote |-> IF pending /\ u.idx < d.diff.commit.theirIdx THEN hPend ELSE 0]
        acked == SelectSeq(d.unsignedAcked, LAMBDA u : u.typ # "Add")
        newAdds == SelectSeq(d.diff.updates, LAMBDA u : u.typ = "Add")
    IN  [local |->
            [logIndex    |-> d.remote.ourIdx + Len(d.diff.updates),
             htlcCounter |-> d.remote.ourHtlc + Len(newAdds),
             list        |-> RestoredAdds(d.remote.out, outHeights)
                               \o RestoredUpdates(d.diff.updates, At("remote", hPend))
                               \o RestoredUpdates(d.peerUnsigned, At("remote", hRemote)),
             modified    |-> RemovedIds(d.unsignedAcked)],
         remote |->
            [logIndex    |-> d.local.theirIdx,
             htlcCounter |-> d.local.theirHtlc,
             list        |-> RestoredAdds(d.local.in, inHeights)
                               \o [i \in DOMAIN acked |->
                                     RestoredUpdate(acked[i], ackedHeights(acked[i]))],
             modified    |-> RemovedIds(d.diff.updates) \cup RemovedIds(d.peerUnsigned)]]

\* None of the panics and errors of the restore functions: the diff continues
\* the log and the HTLC counter, and every removal finds its HTLC.
RestoreSucceeds(d) ==
    LET logs == RestoredLogs(d)
    IN  /\ \A i \in DOMAIN d.diff.updates :
              LET u == d.diff.updates[i]
              IN  /\ u.idx = d.remote.ourIdx + i - 1
                  /\ u.typ = "Add" =>
                       u.id = d.remote.ourHtlc + Cardinality({j \in 1..(i - 1) :
                                                   d.diff.updates[j].typ = "Add"})
        /\ \A u \in ToSet(d.unsignedAcked) : u.idx < d.local.theirIdx
        /\ \A side \in Sides : \A e \in ToSet(logs[side].list) :
              e.typ \in Removals => lookupHtlc(logs[Opposite(side)], e.id) # {}

\* Mutant: the pending commitment is not put back on the remote chain.
NewLightningChannelForgets(d) ==
    [log |-> RestoredLogs(d),
     chain |-> [local |-> <<d.local>>, remote |-> <<d.remote>>],
     sent |-> d.sent, received |-> d.received]

NewLightningChannel(d) ==
    [log      |-> RestoredLogs(d),
     chain    |-> [local  |-> <<d.local>>,
                   remote |-> IF d.diff = NoDiff THEN <<d.remote>>
                              ELSE <<d.remote, d.diff.commit>>],
     sent     |-> d.sent,
     received |-> d.received]

ChanSyncMsg(d) ==
    [typ |-> "ChannelReestablish",
     nextLocal |-> d.local.height + 1, remoteTail |-> d.remote.height,
     point |-> d.local.height]

\* Mutant: the missed revocation is not sent again.
ResendRevocationSilent(r, p, msg) ==
    IF msg.remoteTail \in {tail(r.c.chain["local"]).height,
                           tail(r.c.chain["local"]).height - 1}
    THEN r ELSE Errored(r)

\* The peer's view of our chain: retransmit the last revocation if it missed
\* it, and then sign if we owe a commitment too.
ResendRevocation(r, p, msg) ==
    LET mine == tail(r.c.chain["local"]).height
    IN  CASE msg.remoteTail = mine -> r
          [] msg.remoteTail + 1 = mine ->
                signIfOwed(Sending(r, <<RevokeMsg(mine - 1)>>), p)
          [] OTHER -> Errored(r)

\* The peer's next commitment: retransmit the pending one if it missed it,
\* in the order in which the two were first sent.
ResendCommitment(before, r, p, msg) ==
    LET tipHeight  == tip(before.c.chain["remote"]).height
        tailHeight == tail(before.c.chain["remote"]).height
        diff == before.d.diff
        again == [i \in DOMAIN diff.updates |-> UpdateMsg(diff.updates[i])]
                    \o <<CommitSigMsg(p, diff.commit)>>
    IN  CASE msg.nextLocal > tipHeight + 1 \/ msg.nextLocal <= tailHeight -> Errored(r)
          [] msg.nextLocal = tipHeight + 1 -> r
          [] OTHER -> [r EXCEPT !.out = IF before.d.lastWasRevoke THEN again \o @
                                        ELSE @ \o again]

\* The commitment point the peer sent is the one we hold for that height.
CommitPointKnown(d, msg) ==
    /\ msg.nextLocal = d.remote.height + 1 => msg.point = d.curRevocation
    /\ msg.nextLocal = d.remote.height + 2 => msg.point = d.nextRevocation

\* The commitment is retransmitted unless the revocation gave an error.
ResendRest(before, r, p, msg) ==
    IF r.ok THEN ResendCommitment(before, r, p, msg) ELSE r

ProcessChanSyncMsg(r, p, msg) ==
    LET synced == ResendRest(r, ResendRevocation(r, p, msg), p, msg)
    IN  [synced EXCEPT !.ok = @ /\ CommitPointKnown(r.d, msg)]

-----------------------------------------------------------------------------
(* Actions: the link's event handlers, the connection and the crashes.     *)

NoChannel == [log |-> <<>>, chain |-> <<>>, sent |-> 0, received |-> 0]

Up(p) == link[p] = "up"

Receives(p, typs) == net[p] # <<>> /\ Head(net[p]).typ \in typs

\* The queues after p has taken `taken` messages and sent `out`; what is sent
\* to a link that is not running is lost.
Delivered(p, taken, out) ==
    [q \in Party |->
        IF q = p THEN SubSeq(net[p], taken + 1, Len(net[p]))
        ELSE IF link[q] \in {"sync", "up"} THEN net[q] \o out ELSE net[q]]

\* The outcome of a handler that ran to its end.
Finish(p, taken, r) ==
    /\ lc' = [lc EXCEPT ![p] = r.c]
    /\ db' = [db EXCEPT ![p] = r.d]
    /\ link' = [link EXCEPT ![p] = IF r.ok THEN @ ELSE "failed"]
    /\ net' = Delivered(p, taken, r.out)

\* The outcome of a handler the process died in: memory and unread messages
\* are lost, what was written and sent stays.
Die(p, r) ==
    /\ lc' = [lc EXCEPT ![p] = NoChannel]
    /\ db' = [db EXCEPT ![p] = r.d]
    /\ link' = [link EXCEPT ![p] = "down"]
    /\ net' = [Delivered(p, 0, r.out) EXCEPT ![p] = <<>>]

InitialCommitment(p) ==
    LET fee == CommitFee(p, "local", InitialFeePerKB, <<>>, <<>>)
    IN  [height |-> 0, ourIdx |-> 0, ourHtlc |-> 0, theirIdx |-> 0, theirHtlc |-> 0,
         our |-> Charged(InitialBalance[p], p, fee),
         their |-> Charged(InitialBalance[Peer(p)], Peer(p), fee),
         fee |-> fee, rate |-> InitialFeePerKB, out |-> <<>>, in |-> <<>>]

\* The heights and indexes are counted from the state the channel is in at
\* first; a channel that is not new has been through the dance before.
InitialBucket(p) ==
    [local |-> InitialCommitment(p), remote |-> InitialCommitment(p), diff |-> NoDiff,
     curRevocation |-> 0, nextRevocation |-> 1, lastWasRevoke |-> FALSE,
     ackedKey |-> ~NewChannel, unsignedAcked |-> <<>>, peerUnsigned |-> <<>>,
     fwdPkgs |-> {}, acked |-> {}, sent |-> 0, received |-> 0]

Init ==
    /\ db = [p \in Party |-> InitialBucket(p)]
    /\ lc = [p \in Party |-> NewLightningChannel(InitialBucket(p))]
    /\ link = [p \in Party |-> "up"]
    /\ net = [p \in Party |-> <<>>]
    /\ fees = 0
    /\ drops = 0

\* AddHTLC refuses an HTLC that either next commitment could not hold.
validateAddHtlc(c, p, pd) ==
    /\ validateCommitmentSanity(c, p, "remote", tail(c.chain["local"]).theirIdx,
                                c.log["local"].logIndex, <<pd>>, <<>>)
    /\ validateCommitmentSanity(c, p, "local", c.log["remote"].logIndex,
                                c.log["local"].logIndex, <<pd>>, <<>>)

\* handleDownstreamUpdateAdd: add, send, and sign once the batch is full.
AddHTLC(p, amt) ==
    LET log == lc[p].log["local"]
        pd  == PaymentDescriptor("Add", log.logIndex, log.htlcCounter, amt)
        r   == Sending(AppendTo(Begin(p), "local", pd), <<UpdateMsg(pd)>>)
    IN  /\ Up(p)
        /\ log.htlcCounter < MaxHtlcs[p]
        /\ validateAddHtlc(lc[p], p, pd)
        /\ Finish(p, 0, IF PendingLocalUpdateCount(r.c) < BatchSize THEN r
                        ELSE updateCommitTx(r, p))
        /\ UNCHANGED <<fees, drops>>

Forwarded(p, typs) == {pkg.id : pkg \in {f \in db[p].fwdPkgs : f.typ \in typs}}

\* handleDownstreamPkt: the answer to an HTLC that was handed on, signed for
\* at once.  A second answer finds the HTLC modified or gone and is dropped.
RemoveHTLC(p, id, typ) ==
    LET msg == [typ |-> typ, id |-> id, amt |-> ParentAmt(lc[p].log["remote"], id)]
        r   == Sending(AppendRemoval(Begin(p), "local", typ, id), <<msg>>)
    IN  /\ Up(p)
        /\ modifiable(lc[p].log["remote"], id)
        /\ Finish(p, 0, updateCommitTx(r, p))
        /\ UNCHANGED <<fees, drops>>

Least(a, b) == IF a <= b THEN a ELSE b

Floored(x) == IF x < 0 THEN 0 ELSE x

\* What the initiator could still spend, one more HTLC's fee put aside.
availableCommitmentBalance(c, p, view, side) ==
    LET v == computeView(c, p, view, side)
    IN  Floored(Floored(v.our - ChanReserve[p])
                  - (CommitFee(p, side, v.rate, v.out, v.in) + v.rate * Size.htlc))

validateFeeRate(c, p, rate) ==
    LET view == fetchHTLCView(c, tip(c.chain["local"]).theirIdx, c.log["local"].logIndex)
        v    == computeView(c, p, view, "local")
        \* the size of the local commitment: its fee at a rate of one
        size == Size.commit + Size.htlc *
                  ( Len(NonDust(p, "local", FALSE, v.rate, v.out))
                  + Len(NonDust(p, "local", TRUE, v.rate, v.in)) )
    IN  rate * size <= tip(c.chain["local"]).rate * size
                         + Least(availableCommitmentBalance(c, p, view, "local"),
                                 availableCommitmentBalance(c, p, view, "remote"))

\* The fee timer: updateChannelFee.  When signing is refused the error is only
\* logged; the update stays in the log.
UpdateFee(p, rate) ==
    LET pd == PaymentDescriptor("Fee", lc[p].log["local"].logIndex, 0, rate)
        r  == Sending(AppendTo(Begin(p), "local", pd), <<UpdateMsg(pd)>>)
    IN  /\ Up(p)
        /\ p = Initiator
        /\ fees < MaxFeeUpdates
        /\ rate # db[p].local.rate
        /\ validateFeeRate(lc[p], p, rate)
        /\ Finish(p, 0, [updateCommitTx(r, p) EXCEPT !.ok = TRUE])
        /\ fees' = fees + 1
        /\ UNCHANGED drops

\* The batch ticker, which only runs while local updates are pending.
BatchTick(p) ==
    /\ Up(p)
    /\ PendingLocalUpdateCount(lc[p]) > 0
    /\ Finish(p, 0, updateCommitTx(Begin(p), p))
    /\ UNCHANGED <<fees, drops>>

\* UpdateAddHTLC from the peer.
ReceiveHTLC(p) ==
    LET msg == Head(net[p])
        log == lc[p].log["remote"]
        pd  == PaymentDescriptor("Add", log.logIndex, log.htlcCounter, msg.amt)
        valid == /\ msg.id = log.htlcCounter
                 /\ validateCommitmentSanity(lc[p], p, "local", log.logIndex,
                        tail(lc[p].chain["remote"]).ourIdx, <<>>, <<pd>>)
    IN  /\ Up(p)
        /\ Receives(p, {"Add"})
        /\ Finish(p, 1, IF valid THEN AppendTo(Begin(p), "remote", pd)
                        ELSE Errored(Begin(p)))
        /\ UNCHANGED <<fees, drops>>

\* UpdateFulfillHTLC and UpdateFailHTLC from the peer.
ReceiveRemoval(p) ==
    LET msg == Head(net[p])
    IN  /\ Up(p)
        /\ Receives(p, Removals)
        /\ Finish(p, 1, IF modifiable(lc[p].log["local"], msg.id)
                        THEN AppendRemoval(Begin(p), "remote", msg.typ, msg.id)
                        ELSE Errored(Begin(p)))
        /\ UNCHANGED <<fees, drops>>

ReceiveUpdateFee(p) ==
    LET pd == PaymentDescriptor("Fee", lc[p].log["remote"].logIndex, 0, Head(net[p]).amt)
    IN  /\ Up(p)
        /\ Receives(p, {"Fee"})
        /\ Finish(p, 1, IF p = Initiator THEN Errored(Begin(p))
                        ELSE AppendTo(Begin(p), "remote", pd))
        /\ UNCHANGED <<fees, drops>>

RevokeIfAccepted(r) == IF r.ok THEN RevokeCurrentCommitment(r) ELSE r

Revoked(p) == RevokeIfAccepted(ReceiveNewCommitment(Begin(p), p, Head(net[p])))

\* CommitSig from the peer: accept, revoke, and sign if a commitment is owed.
ReceiveCommitSig(p) ==
    /\ Up(p)
    /\ Receives(p, {"CommitSig"})
    /\ Finish(p, 1, signIfOwed(Revoked(p), p))
    /\ UNCHANGED <<fees, drops>>

\* RevokeAndAck from the peer: advance its chain, hand on what is locked in,
\* and sign if a commitment is owed.
ReceiveRevokeAndAck(p) ==
    /\ Up(p)
    /\ Receives(p, {"Revoke"})
    /\ Finish(p, 1, signIfOwed(ReceiveRevocation(Begin(p), Head(net[p])), p))
    /\ UNCHANGED <<fees, drops>>

FinishSync(p, r) ==
    /\ lc' = [lc EXCEPT ![p] = r.c]
    /\ db' = [db EXCEPT ![p] = r.d]
    /\ link' = [link EXCEPT ![p] = IF r.ok THEN "up" ELSE "failed"]
    /\ net' = Delivered(p, 1, r.out)

\* syncChanStates: the peer's ChannelReestablish.
SyncChanStates(p) ==
    /\ link[p] = "sync"
    /\ Receives(p, {"ChannelReestablish"})
    /\ FinishSync(p, ProcessChanSyncMsg(Begin(p), p, Head(net[p])))
    /\ UNCHANGED <<fees, drops>>

\* The first side to go down uses up one disconnect; the other then follows.
CountDrop(p) ==
    IF link[Peer(p)] = "down" THEN UNCHANGED drops
    ELSE drops < MaxDisconnects /\ drops' = drops + 1

\* The link of p stops: the connection broke, a tick timed out, or p crashed
\* between two handlers.
Disconnect(p) ==
    /\ link[p] \in {"sync", "up"}
    /\ Die(p, Begin(p))
    /\ CountDrop(p)
    /\ UNCHANGED fees

\* p stops in a handler that has got as far as r.
StopWithin(p, r) ==
    /\ StopsMidHandler
    /\ Up(p)
    /\ r.ok
    /\ Die(p, r)
    /\ CountDrop(p)
    /\ UNCHANGED fees

\* p stops after it has revoked and before it signs.
StopAfterRevoke(p) ==
    /\ Receives(p, {"CommitSig"})
    /\ StopWithin(p, Revoked(p))

\* p stops after it has stored a revocation and before it signs.
StopAfterRevocation(p) ==
    /\ Receives(p, {"Revoke"})
    /\ StopWithin(p, ReceiveRevocation(Begin(p), Head(net[p])))

\* The peers connect again: both build their channel object from the bucket
\* and send ChannelReestablish.
Reconnect ==
    /\ \A p \in Party : link[p] = "down"
    /\ lc' = [p \in Party |-> NewLightningChannel(db[p])]
    /\ link' = [p \in Party |-> IF RestoreSucceeds(db[p]) THEN "sync" ELSE "failed"]
    /\ net' = [p \in Party |-> <<ChanSyncMsg(db[Peer(p)])>>]
    /\ UNCHANGED <<db, fees, drops>>

Receive(p) ==
    \/ ReceiveHTLC(p)
    \/ ReceiveRemoval(p)
    \/ ReceiveUpdateFee(p)
    \/ ReceiveCommitSig(p)
    \/ ReceiveRevokeAndAck(p)
    \/ SyncChanStates(p)

Next ==
    \/ \E p \in Party :
        \/ \E amt \in HtlcAmounts : AddHTLC(p, amt)
        \/ \E id \in Forwarded(p, {"Add"}), typ \in Removals : RemoveHTLC(p, id, typ)
        \/ \E rate \in FeeRates : UpdateFee(p, rate)
        \/ BatchTick(p)
        \/ Receive(p)
        \/ Disconnect(p)
        \/ StopAfterRevoke(p)
        \/ StopAfterRevocation(p)
    \/ Reconnect

Spec == Init /\ [][Next]_vars

HasMessage(p) == link[p] \in {"sync", "up"} /\ net[p] # <<>>

TickDue(p) ==
    Up(p) /\ PendingLocalUpdateCount(lc[p]) > 0 /\ Len(lc[p].chain["remote"]) = 1

PeerGone(p) == link[p] \in {"sync", "up"} /\ link[Peer(p)] = "down"

BothDown == \A p \in Party : link[p] = "down"

\* Weak fairness of the steps the code always gets to: the event loop serves
\* its messages and its batch ticker, a link whose peer is gone times out, and
\* the peers keep dialling each other.  (A disjunction is WF of the action it
\* names, with the action's enabling condition written out.)
Fairness ==
    /\ \A p \in Party :
        /\ []<>(~HasMessage(p)) \/ []<><<Receive(p)>>_vars
        /\ []<>(~TickDue(p)) \/ []<><<BatchTick(p)>>_vars
        /\ WF_vars(PeerGone(p) /\ Disconnect(p))
    /\ []<>(~BothDown) \/ []<><<Reconnect>>_vars

FairSpec == Spec /\ Fairness

-----------------------------------------------------------------------------
(* Properties.                                                             *)

\* Commitments of the peer that p has signed and the peer has not revoked, as
\* far as p knows.
SignedBy(p) ==
    {db[p].remote} \cup (IF db[p].diff = NoDiff THEN {} ELSE {db[p].diff.commit})

Commitments(p) == {db[p].local} \cup SignedBy(p)

EntryTypes == {"Add", "Settle", "Fail", "Fee"}

LogOK(log) ==
    /\ log.logIndex \in Nat /\ log.htlcCounter \in Nat
    /\ \A i \in DOMAIN log.list :
          /\ log.list[i].typ \in EntryTypes
          /\ log.list[i].idx \in 0..(log.logIndex - 1)
          /\ log.list[i].typ = "Add" => log.list[i].id \in 0..(log.htlcCounter - 1)

\* Type invariant: links, logs (entries lie below their log's counters), chains
\* of one or two commitments, and natural balances in every stored commitment.
TypeOK ==
    /\ link \in [Party -> {"down", "sync", "up", "failed"}]
    /\ fees \in 0..MaxFeeUpdates /\ drops \in 0..MaxDisconnects
    /\ \A p \in Party :
        /\ lc[p] # NoChannel <=> link[p] # "down"
        /\ lc[p] # NoChannel =>
              \A side \in Sides : LogOK(lc[p].log[side]) /\ Len(lc[p].chain[side]) \in 1..2
        /\ \A commit \in Commitments(p) :
              {commit.height, commit.our, commit.their, commit.fee} \subseteq Nat

\* Between honest peers no handler ever fails the link: every signature is over
\* the commitment the receiver builds (ReceiveNewCommitment), every update is
\* accepted (ReceiveHTLC, ReceiveHTLCSettle, ReceiveFailHTLC), every revocation
\* fits (ReceiveRevocation), every re-establishment succeeds
\* (ProcessChanSyncMsg) and no restore panics (restoreStateLogs), whatever
\* crossed on the wire and wherever a party stopped.
NoLinkFailure == \A p \in Party : link[p] # "failed"

\* A commitment of the peer as the peer itself should describe it.
Mirrored(commit) ==
    [commit EXCEPT !.our = commit.their, !.their = commit.our,
                   !.ourIdx = commit.theirIdx, !.theirIdx = commit.ourIdx,
                   !.ourHtlc = commit.theirHtlc, !.theirHtlc = commit.ourHtlc,
                   !.out = ToSet(commit.in), !.in = ToSet(commit.out)]

Described(commit) == [commit EXCEPT !.out = ToSet(@), !.in = ToSet(@)]

\* The commitment a party would broadcast is, field by field, one its peer has
\* stored as signed and not revoked: the two buckets never drift apart, dust
\* and log indexes included, at any point of a crash.
CommitmentsAgree ==
    \A p \in Party :
        \E commit \in SignedBy(Peer(p)) :
            Mirrored(commit) = Described(db[p].local)

Capacity == FoldFunction(+, 0, InitialBalance)

\* No commitment creates or destroys funds, and the totals sent and received
\* that UpdateCommitment stores explain the balance exactly: no settle is
\* counted twice or forgotten across restarts.
FundsAccounted ==
    \A p \in Party :
        /\ \A c \in Commitments(p) :
              c.our + c.their + c.fee + SumAmt(c.out) + SumAmt(c.in) = Capacity
        /\ LET c == db[p].local
           IN  c.our + (IF p = Initiator THEN c.fee ELSE 0) + SumAmt(c.out)
                  = InitialBalance[p] + db[p].received - db[p].sent

\* What is handed to the switch is irrevocable. A forwarded HTLC stays, until p
\* has signed for its removal, on every commitment either party could still
\* broadcast; an HTLC whose settle or fail is handed back is gone from all of
\* them. Otherwise p could pay downstream for an HTLC it cannot claim upstream.
ForwardedIsIrrevocable ==
    \A p \in Party :
        /\ \A id \in Forwarded(p, {"Add"}) \ db[p].acked :
              /\ \A commit \in Commitments(p) : id \in Ids(commit.in)
              /\ \A commit \in Commitments(Peer(p)) : id \in Ids(commit.out)
        /\ \A id \in Forwarded(p, Removals) :
              /\ \A commit \in Commitments(p) : id \notin Ids(commit.out)
              /\ id \notin Ids(db[Peer(p)].local.in)

\* Every HTLC and every removal enters exactly one forwarding package: the
\* restored commit heights never make ReceiveRevocation forward it again.
ForwardedOnce ==
    \A p \in Party : \A f, g \in db[p].fwdPkgs :
        f.id = g.id /\ (f.typ = "Add" <=> g.typ = "Add") => f = g

\* No HTLC falls between the cracks: an incoming one on the peer's commitment
\* has been forwarded, and an offered one the peer was committed to is still
\* on a commitment until its removal has been forwarded.
NoHtlcForgotten ==
    \A p \in Party :
        /\ Ids(db[p].remote.in) \subseteq Forwarded(p, {"Add"})
        /\ 0..(db[p].remote.ourHtlc - 1) \subseteq
              Ids(db[p].remote.out) \cup Ids(db[p].local.out) \cup Forwarded(p, Removals)

\* The limits each side announced hold on every commitment that exists, though
\* an HTLC is only checked against the views its sender and its receiver have
\* when it is added: HTLCs crossing on the wire never add up to more.
LimitsRespected ==
    \A p \in Party : \A commit \in Commitments(p) :
        /\ commit.our >= ChanReserve[p] /\ commit.their >= ChanReserve[Peer(p)]
        /\ \A htlcs \in {commit.out, commit.in} :
              SumAmt(htlcs) <= Limit.maxPending /\ Len(htlcs) <= Limit.maxAccepted

\* A party never signs two different commitments for one height, also when it
\* restarts between signing and the peer's revocation.
SignedOncePerHeight ==
    [][\A p \in Party :
          /\ db[p].diff # NoDiff
          /\ db'[p].diff # NoDiff
          /\ db[p].diff.commit.height = db'[p].diff.commit.height
          => db'[p].diff = db[p].diff]_vars

Settled(p) == Up(p) /\ net[p] = <<>> /\ ~OweCommitment(lc[p])

\* The dance always completes: once the updates and the disconnects stop, both
\* links are up, nothing is in flight and neither party owes a commitment.
DanceCompletes == <>[](\A p \in Party : Settled(p))

-----------------------------------------------------------------------------
(* The dance of heights that this specification implements.                *)

InFlight(p, typ) == {m \in ToSet(net[p]) : m.typ = typ}

\* Above every height that MaxHtlcs and MaxFeeUpdates let a run reach.
HeightBound == 100

Dance == INSTANCE CommitChains WITH
    MaxHeight <- HeightBound,
    local     <- [p \in Party |-> db[p].local.height],
    remote    <- [p \in Party |-> db[p].remote.height],
    pending   <- [p \in Party |-> db[p].diff # NoDiff],
    sigs      <- [p \in Party |-> {m.tx.height : m \in InFlight(p, "CommitSig")}],
    revs      <- [p \in Party |-> {m.secret : m \in InFlight(p, "Revoke")}],
    syncs     <- [p \in Party |-> {[next |-> m.nextLocal, tail |-> m.remoteTail] :
                                      m \in InFlight(p, "ChannelReestablish")}]

\* Every behaviour of the channel, seen through the stored heights and the
\* messages in flight, is one of CommitChains: what is proved there of heights
\* holds of this code.
ImplementsCommitChains == Dance!Spec
=============================================================================
