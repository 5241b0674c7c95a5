---------------------- MODULE ChannelArbitratorProofs -----------------------
(***************************************************************************)
(* Proofs about ChannelArbitrator, for any number of HTLCs, of any kinds,  *)
(* any number of blocks and any number of crashes.                         *)
(***************************************************************************)
EXTENDS ChannelArbitrator, TLAPS

(***************************************************************************)
(* The three writes of a close event come in order, and none is undone.    *)
(***************************************************************************)
CloseOrder ==
    /\ ClosedIsRecoverable
    /\ pc = "commitset" => logged
    /\ pc = "mark" => logged /\ commitSet

Stages == {"none", "contest", "final", "incubating", "done"}

Goroutine == {"off", "resolve", "watch", "incubated", "wait", "second", "resolved",
              "delete", "signal", "failed", "blocked"}

\* What the proof needs of the types.
Typed ==
    /\ kind \in [Htlcs -> KindType]
    /\ \A h \in Htlcs : kind[h].outs \subseteq kind[h].sets
    /\ spent \in [Htlcs -> {"no", "preimage", "timeout", "ours", "peer"}]
    /\ told \in [Htlcs -> SUBSET {"fail", "settle"}]
    /\ contracts \in [Contracts -> Stages]
    /\ rpc \in [Contracts -> Goroutine]
    /\ plan \in [Contracts -> {"none", "contest", "final"}]
    /\ dbState \in States
    /\ state = dbState

\* No resolver was ever launched.
Untouched == contracts = NoPlan /\ offered = {} /\ rpc = AllOff

\* Resolvers are created once: StateContractClosed is only executed before.
CreatedOnce ==
    /\ dbState \in {"Default", "BroadcastCommit", "CommitmentBroadcasted"} => Untouched
    /\ dbState = "ContractClosed" => pc = "launched" \/ Untouched
    /\ pc \in {"insert", "launched"} => dbState = "ContractClosed"
    /\ pc = "broadcast" => dbState = "BroadcastCommit"

\* The machine only leaves its first states for a confirmed spend.
ConfirmedFirst ==
    /\ dbState \in {"ContractClosed", "WaitingFullResolution", "FullyResolved"}
          => conf # "none"
    /\ closed # "open" => conf # "none"
    /\ trigger \in CloseTriggers => conf # "none"
    /\ pc \in {"commitset", "mark"} => conf # "none"

\* An outgoing HTLC's output is spent by the peer's claim or by a timeout
\* transaction that the HTLC's timeout resolver has offered.
SpendsExplained ==
    \A h \in Htlcs :
        /\ spent[h] # "no" => conf \in kind[h].outs
        /\ Outgoing(h) => spent[h] \in {"no", "preimage", "timeout"}
        /\ Outgoing(h) /\ spent[h] = "timeout" => h \in offered
        /\ Outgoing(h) /\ h \in offered => contracts[h] # "contest"

\* The inductive invariant.
AnswersInv ==
    /\ Typed
    /\ CreatedOnce
    /\ ConfirmedFirst
    /\ SpendsExplained
    /\ AnswersMatchChain

-----------------------------------------------------------------------------
(***************************************************************************)
(* A closed channel is recoverable.                                        *)
(***************************************************************************)

\* Whatever keeps the three writes and does not enter a close handler keeps
\* their order (the environment, the resolvers and most of the attendant).
LEMMA CloseOrderFrame ==
    ASSUME CloseOrder, UNCHANGED <<logged, commitSet, closed>>,
           pc' = pc \/ pc' \notin {"commitset", "mark"}
    PROVE  CloseOrder'
  BY Zenon DEF CloseOrder, ClosedIsRecoverable

\* Resolver goroutines and the outside world write nothing of the close.
LEMMA OutsideKeepsClose ==
    ASSUME NEW c \in Contracts, ResolverStep(c) \/ OurTxConfirms(c)
    PROVE  UNCHANGED <<logged, commitSet, closed, pc>>
  <1>1. CASE ContractStep(c)
    BY <1>1, Zenon DEF ContractStep, OfferOutput, CheckpointIncubating,
                LastSpend, CheckpointResolved, ResolveContract, Elsewhere, closing,
                attendant
  <1>2. CASE HtlcStep(c)
    BY <1>2, Zenon DEF HtlcStep, OutgoingContest, OutgoingClaimed, OutgoingExpires,
                IncomingContest, IncomingVerdict, IncomingExpires, PublishClaim,
                ResumeIncubating, TimeoutSpent,
                Elsewhere, closing, attendant
  <1>3. CASE OurTxConfirms(c)
    BY <1>3, Zenon DEF OurTxConfirms, SweepConfirms, TimeoutTxConfirms, ClaimTxConfirms,
                Spend, closing, attendant
  <1> QED BY <1>1, <1>2, <1>3, Zenon DEF ResolverStep

\* The attendant's three writes, and its other steps.
LEMMA AttendantKeepsOrder ==
    ASSUME CloseOrder, AttendantStep
    PROVE  CloseOrder'
  <1>1. CASE LogContractResolutions
    BY <1>1, Zenon DEF CloseOrder, ClosedIsRecoverable, LogContractResolutions
  <1>2. CASE InsertConfirmedCommitSet
    BY <1>2, Zenon DEF CloseOrder, ClosedIsRecoverable, InsertConfirmedCommitSet
  <1>3. CASE MarkChannelClosed
    BY <1>3, Zenon DEF CloseOrder, ClosedIsRecoverable, MarkChannelClosed, Advance
  <1>4. CASE StepDefault
    BY <1>4, CloseOrderFrame, Zenon DEF StepDefault, Return, CommitState, closing
  <1>5. CASE StepBroadcastCommit \/ CommitBroadcast
    BY <1>5, CloseOrderFrame, Zenon DEF StepBroadcastCommit, CommitBroadcast, CommitState,
                                 closing
  <1>6. CASE StepCommitmentBroadcasted \/ StepOnClose
    BY <1>6, CloseOrderFrame, Zenon DEF StepCommitmentBroadcasted, StepOnClose, Return,
                                 CommitState, closing
  <1>7. CASE StepContractClosed
    BY <1>7, CloseOrderFrame, Zenon DEF StepContractClosed, CommitState, closing
  <1>8. CASE InsertUnresolvedContracts \/ CommitWaiting
    BY <1>8, CloseOrderFrame, Zenon DEF InsertUnresolvedContracts, CommitWaiting,
                                 CommitState, closing
  <1>9. CASE StepWaitingFullResolution
    BY <1>9, CloseOrderFrame, Zenon DEF StepWaitingFullResolution, Return, CommitState,
                                 closing
  <1>10. CASE StepFullyResolved \/ WipeHistory
    BY <1>10, CloseOrderFrame, Zenon DEF StepFullyResolved, WipeHistory
  <1>11. ASSUME NEW c \in Contracts, ResolutionSignal(c)
         PROVE  CloseOrder'
    BY <1>11, CloseOrderFrame, Zenon DEF ResolutionSignal, Advance, closing
  <1> QED BY <1>1, <1>2, <1>3, <1>4, <1>5, <1>6, <1>7, <1>8, <1>9, <1>10, <1>11, Zenon
          DEF AttendantStep

\* The order of the writes is inductive.
LEMMA CloseOrderStep ==
    ASSUME CloseOrder, [ArbitratorNext]_vars
    PROVE  CloseOrder'
  <1>1. CASE AttendantStep
    BY <1>1, AttendantKeepsOrder, Zenon
  <1>2. ASSUME NEW c \in Contracts, ResolverStep(c) \/ OurTxConfirms(c)
        PROVE  CloseOrder'
    BY <1>2, OutsideKeepsClose, CloseOrderFrame, Zenon
  <1>3. ASSUME NEW h \in Htlcs, PeerClaims(h) \/ PeerTimesOut(h) \/ VerdictArrives(h)
        PROVE  CloseOrder'
    BY <1>3, CloseOrderFrame, Zenon DEF PeerClaims, PeerTimesOut, VerdictArrives, Spend,
                                 closing, attendant
  <1>4. CASE NewBlock \/ CommitmentConfirms
    BY <1>4, CloseOrderFrame, Zenon DEF NewBlock, CommitmentConfirms, closing, attendant
  <1>5. CASE TakeBlock \/ ForceCloseRequest
    BY <1>5, CloseOrderFrame, Zenon DEF TakeBlock, ForceCloseRequest, Advance, CommitState,
                                 closing
  <1>6. CASE PublishFails
    BY <1>6, CloseOrderFrame, Zenon DEF PublishFails, closing
  <1>7. CASE CrashAndRestart
    BY <1>7, CloseOrderFrame, Zenon DEF CrashAndRestart, Start, closing
  <1>8. CASE UNCHANGED vars
    BY <1>8, CloseOrderFrame, Zenon DEF vars, closing, attendant
  <1>9. ASSUME NEW c \in Contracts, ResolveFails(c) PROVE CloseOrder'
    BY <1>9, CloseOrderFrame, Zenon DEF ResolveFails, closing, attendant
  <1> QED BY <1>1, <1>2, <1>3, <1>4, <1>5, <1>6, <1>7, <1>8, <1>9, Zenon DEF ArbitratorNext

\* A channel marked closed always has its resolutions and its commit set in the
\* log, wherever the process stopped, restarts in StateContractClosed included.
THEOREM RecoverTheorem == ArbitratorSpec => []ClosedIsRecoverable
  <1>1. ArbitratorInit => CloseOrder
    BY Zenon DEF ArbitratorInit, CloseOrder, ClosedIsRecoverable
  <1>2. CloseOrder /\ [ArbitratorNext]_vars => CloseOrder'
    BY CloseOrderStep, Zenon
  <1>3. CloseOrder => ClosedIsRecoverable
    BY Zenon DEF CloseOrder
  <1> QED BY <1>1, <1>2, <1>3, PTL DEF ArbitratorSpec

-----------------------------------------------------------------------------
(***************************************************************************)
(* The switch hears what the chain says.  A process that stops in          *)
(* StateContractClosed may create a resolver a second time, so that case   *)
(* is left out: RestartWhenClosed is FALSE.                                *)
(***************************************************************************)

\* Most steps tell the switch nothing and leave alone what the answers depend on.
LEMMA AnswersFrame ==
    ASSUME AnswersInv, UNCHANGED <<kind, spent, conf, told, offered, contracts>>,
           Typed', CreatedOnce', ConfirmedFirst'
    PROVE  AnswersInv'
  BY Zenon DEF AnswersInv, SpendsExplained, AnswersMatchChain, Outgoing

\* While no spend has confirmed, no output is spent and nobody was told anything.
LEMMA NothingBefore ==
    ASSUME AnswersInv, conf = "none"
    PROVE  \A h \in Htlcs : spent[h] = "no" /\ told[h] = {}
  <1>1. \A h \in Htlcs : conf \notin kind[h].outs
    BY DEF AnswersInv, Typed, KindType, Commits
  <1>2. \A h \in Htlcs : spent[h] = "no"
    BY <1>1, Zenon DEF AnswersInv, SpendsExplained, Typed
  <1>3. \A h \in Htlcs : "settle" \notin told[h] /\ "fail" \notin told[h]
    BY <1>1, Zenon DEF AnswersInv, AnswersMatchChain
  <1> QED BY <1>2, <1>3, Zenon DEF AnswersInv, Typed

\* A spend of the funding output confirms.
LEMMA ConfirmsStep ==
    ASSUME AnswersInv, CommitmentConfirms
    PROVE  AnswersInv'
  <1>1. UNCHANGED <<kind, spent, told, offered, contracts, rpc, plan, dbState, state,
                    pc, closed, trigger>>
    BY Zenon DEF CommitmentConfirms, channel, attendant, resolvers, closing
  <1>2. /\ conf = "none" /\ conf' # "none"
        /\ \A h \in Htlcs : spent[h] = "no" /\ told[h] = {}
    BY NothingBefore, Zenon DEF CommitmentConfirms, Commits
  <1>3. Typed' /\ CreatedOnce'
    BY <1>1, Zenon DEF AnswersInv, Typed, CreatedOnce, Untouched
  <1>4. ConfirmedFirst'
    BY <1>2, Zenon DEF ConfirmedFirst
  <1>5. SpendsExplained' /\ AnswersMatchChain'
    BY <1>1, <1>2, Zenon DEF AnswersInv, SpendsExplained, AnswersMatchChain, Outgoing
  <1> QED BY <1>3, <1>4, <1>5, Zenon DEF AnswersInv

\* An output is spent by us or by the peer.
LEMMA SpendStep ==
    ASSUME AnswersInv, NEW h \in Htlcs,
           NEW how \in {"preimage", "timeout", "ours", "peer"}, Spend(h, how),
           Outgoing(h) => how = "preimage" \/ (how = "timeout" /\ h \in offered)
    PROVE  AnswersInv'
  <1>1. UNCHANGED <<kind, conf, told, offered, contracts, rpc, plan, dbState, state,
                    pc, closed, trigger>>
    BY Zenon DEF Spend, channel, attendant, resolvers, closing
  <1>2. /\ spent' = [spent EXCEPT ![h] = how]
        /\ conf \in kind[h].outs /\ spent[h] = "no"
    BY Zenon DEF Spend
  <1>3. Typed' /\ CreatedOnce' /\ ConfirmedFirst'
    BY <1>1, <1>2, Zenon DEF AnswersInv, Typed, CreatedOnce, ConfirmedFirst, Untouched
  <1>4. SpendsExplained'
    BY <1>1, <1>2, Zenon DEF AnswersInv, Typed, SpendsExplained, Outgoing
  <1>5. AnswersMatchChain'
    BY <1>1, <1>2, Zenon DEF AnswersInv, Typed, AnswersMatchChain
  <1> QED BY <1>3, <1>4, <1>5, Zenon DEF AnswersInv

\* The steps of the outside world.
LEMMA WorldStep ==
    ASSUME AnswersInv,
           \/ NewBlock \/ CommitmentConfirms
           \/ \E c \in Contracts : OurTxConfirms(c)
           \/ \E h \in Htlcs : PeerClaims(h) \/ PeerTimesOut(h) \/ VerdictArrives(h)
    PROVE  AnswersInv'
  <1>1. CASE NewBlock
    <2>1. UNCHANGED <<kind, spent, conf, told, offered, contracts, rpc, plan, dbState,
                      state, pc, closed, trigger>>
      BY <1>1, Zenon DEF NewBlock, channel, attendant, resolvers, closing
    <2>2. Typed' /\ CreatedOnce' /\ ConfirmedFirst'
      BY <2>1, Zenon DEF AnswersInv, Typed, CreatedOnce, ConfirmedFirst, Untouched
    <2> QED BY <2>1, <2>2, AnswersFrame, Zenon
  <1>2. CASE CommitmentConfirms
    BY <1>2, ConfirmsStep, Zenon
  <1>3. ASSUME NEW c \in Contracts, SweepConfirms(c)
        PROVE  AnswersInv'
    <2>1. UNCHANGED <<kind, spent, conf, told, offered, contracts, rpc, plan, dbState,
                      state, pc, closed, trigger>>
      BY <1>3, Zenon DEF SweepConfirms, channel, attendant, resolvers, closing
    <2>2. Typed' /\ CreatedOnce' /\ ConfirmedFirst'
      BY <2>1, Zenon DEF AnswersInv, Typed, CreatedOnce, ConfirmedFirst, Untouched
    <2> QED BY <2>1, <2>2, AnswersFrame, Zenon
  <1>4. ASSUME NEW h \in Htlcs, VerdictArrives(h)
        PROVE  AnswersInv'
    <2>1. UNCHANGED <<kind, spent, conf, told, offered, contracts, rpc, plan, dbState,
                      state, pc, closed, trigger>>
      BY <1>4, Zenon DEF VerdictArrives, channel, attendant, resolvers, closing
    <2>2. Typed' /\ CreatedOnce' /\ ConfirmedFirst'
      BY <2>1, Zenon DEF AnswersInv, Typed, CreatedOnce, ConfirmedFirst, Untouched
    <2> QED BY <2>1, <2>2, AnswersFrame, Zenon
  <1>5. ASSUME NEW h \in Htlcs,
               \/ TimeoutTxConfirms(h) \/ ClaimTxConfirms(h)
               \/ PeerClaims(h) \/ PeerTimesOut(h)
        PROVE  AnswersInv'
    BY <1>5, SpendStep, Zenon DEF TimeoutTxConfirms, ClaimTxConfirms, PeerClaims, PeerTimesOut
  <1> QED BY <1>1, <1>2, <1>3, <1>4, <1>5, Zenon DEF OurTxConfirms

\* What a step of a resolver has to respect: what it tells the switch is what
\* became of its output, and an output on offer is not contested again.
LEMMA ResolverFrame ==
    ASSUME AnswersInv, NEW c \in Contracts, rpc[c] # "off", Elsewhere,
           contracts' \in [Contracts -> Stages], rpc' \in [Contracts -> Goroutine],
           told' \in [Htlcs -> SUBSET {"fail", "settle"}], offered \subseteq offered',
           \A h \in Htlcs : Outgoing(h) /\ h \in offered' => contracts'[h] # "contest",
           \A h \in Htlcs :
              \/ told'[h] = told[h]
              \/ /\ told'[h] = told[h] \cup {"settle"}
                 /\ conf \in kind[h].outs /\ spent[h] = "preimage"
              \/ /\ told'[h] = told[h] \cup {"fail"}
                 /\ conf \in kind[h].outs /\ spent[h] = "timeout"
    PROVE  AnswersInv'
  <1>1. UNCHANGED <<kind, spent, conf, plan, dbState, state, pc, closed, trigger>>
    BY Zenon DEF Elsewhere, channel, chain, closing, attendant
  <1>2. ~Untouched
    BY Zenon DEF Untouched, AllOff
  <1>3. Typed' /\ ConfirmedFirst'
    BY <1>1, Zenon DEF AnswersInv, Typed, ConfirmedFirst
  <1>4. CreatedOnce'
    BY <1>1, <1>2, Zenon DEF AnswersInv, CreatedOnce
  <1>5. SpendsExplained'
    BY <1>1, Zenon DEF AnswersInv, SpendsExplained, Outgoing
  <1>6. AnswersMatchChain'
    BY <1>1 DEF AnswersInv, AnswersMatchChain
  <1> QED BY <1>3, <1>4, <1>5, <1>6, Zenon DEF AnswersInv

\* The steps that all resolvers share tell the switch nothing.
LEMMA ContractResolverStep ==
    ASSUME AnswersInv, NEW c \in Contracts, ContractStep(c)
    PROVE  AnswersInv'
  <1>1. /\ contracts \in [Contracts -> Stages] /\ rpc \in [Contracts -> Goroutine]
        /\ told \in [Htlcs -> SUBSET {"fail", "settle"}]
        /\ \A h \in Htlcs : Outgoing(h) /\ h \in offered => contracts[h] # "contest"
        /\ Htlcs \subseteq Contracts
    BY Zenon DEF AnswersInv, Typed, SpendsExplained, Contracts
  <1>2. /\ rpc[c] # "off" /\ Elsewhere /\ UNCHANGED told
        /\ offered \subseteq offered' /\ offered' \subseteq offered \cup {c}
        /\ \/ \E stage \in Stages \ {"contest"} :
                 contracts' = [contracts EXCEPT ![c] = stage]
           \/ UNCHANGED <<contracts, offered>>
           \/ UNCHANGED contracts /\ contracts[c] = "final"
        /\ \E where \in Goroutine : rpc' = [rpc EXCEPT ![c] = where]
    <2>1. CASE OfferOutput(c)
      BY <2>1, Zenon DEF OfferOutput, At, Goto, Goroutine, Stages
    <2>2. CASE CheckpointIncubating(c)
      BY <2>2, Zenon DEF CheckpointIncubating, At, Goto, Log, Goroutine, Stages
    <2>4. CASE LastSpend(c)
      BY <2>4, Zenon DEF LastSpend, Goto, Goroutine, Stages
    <2>5. CASE CheckpointResolved(c)
      BY <2>5, Zenon DEF CheckpointResolved, Goto, Log, Goroutine, Stages
    <2>6. CASE ResolveContract(c)
      BY <2>6, Zenon DEF ResolveContract, Goto, Log, Goroutine, Stages
    <2> QED BY <2>1, <2>2, <2>4, <2>5, <2>6, Zenon DEF ContractStep
  <1>3. /\ contracts' \in [Contracts -> Stages] /\ rpc' \in [Contracts -> Goroutine]
        /\ \A h \in Htlcs : Outgoing(h) /\ h \in offered' => contracts'[h] # "contest"
    BY <1>1, <1>2, Zenon
  <1> QED BY <1>1, <1>2, <1>3, ResolverFrame, Zenon

\* The steps of the resolvers of HTLCs.
LEMMA HtlcResolverStep ==
    ASSUME AnswersInv, NEW h \in Htlcs, HtlcStep(h)
    PROVE  AnswersInv'
  <1>1. /\ contracts \in [Contracts -> Stages] /\ rpc \in [Contracts -> Goroutine]
        /\ told \in [Htlcs -> SUBSET {"fail", "settle"}]
        /\ \A g \in Htlcs : Outgoing(g) /\ g \in offered => contracts[g] # "contest"
        /\ h \in Contracts
    BY Zenon DEF AnswersInv, Typed, SpendsExplained, Contracts
  <1>2. /\ spent[h] # "no" => conf \in kind[h].outs
        /\ Outgoing(h) => spent[h] \in {"no", "preimage", "timeout"}
        /\ Outgoing(h) /\ contracts[h] = "contest" => spent[h] # "timeout"
    BY Zenon DEF AnswersInv, SpendsExplained
  <1>3. /\ rpc[h] # "off" /\ Elsewhere
        /\ \/ UNCHANGED offered
           \/ offered' = offered \cup {h} /\ ~Outgoing(h)
        /\ \/ \E stage \in Stages \ {"contest"} :
                 contracts' = [contracts EXCEPT ![h] = stage]
           \/ UNCHANGED contracts
        /\ \E where \in Goroutine : rpc' = [rpc EXCEPT ![h] = where]
        /\ \/ UNCHANGED told
           \/ /\ told' = [told EXCEPT ![h] = @ \cup {"settle"}]
              /\ conf \in kind[h].outs /\ spent[h] = "preimage"
           \/ /\ told' = [told EXCEPT ![h] = @ \cup {"fail"}]
              /\ conf \in kind[h].outs /\ spent[h] = "timeout"
    <2>1. CASE OutgoingContest(h)
      BY <1>2, <2>1, Zenon DEF OutgoingContest, At, ClaimCleanUp, Tell, Goto, Goroutine, Stages
    <2>2. CASE OutgoingClaimed(h)
      BY <1>2, <2>2, Zenon DEF OutgoingClaimed, At, ClaimCleanUp, Tell, Goto, Goroutine, Stages
    <2>3. CASE OutgoingExpires(h)
      BY <2>3, Zenon DEF OutgoingExpires, At, Log, Goto, Goroutine, Stages
    <2>4. CASE IncomingContest(h)
      BY <2>4, Zenon DEF IncomingContest, IncomingDecided, At, Log, Goto, Goroutine, Stages
    <2>5. CASE IncomingVerdict(h)
      BY <2>5, Zenon DEF IncomingVerdict, IncomingDecided, At, Log, Goto, Goroutine, Stages
    <2>6. CASE IncomingExpires(h)
      BY <2>6, Zenon DEF IncomingExpires, At, Goto, Goroutine, Stages
    <2>7. CASE TimeoutSpent(h)
      BY <1>2, <2>7, Zenon DEF TimeoutSpent, ClaimCleanUp, Tell, Goto, Goroutine, Stages
    <2>8. CASE PublishClaim(h)
      BY <2>8, Zenon DEF PublishClaim, At, Goto, Goroutine, Stages
    <2>9. CASE ResumeIncubating(h)
      BY <2>9, Zenon DEF ResumeIncubating, At, Goto, Goroutine, Stages
    <2> QED BY <2>1, <2>2, <2>3, <2>4, <2>5, <2>6, <2>7, <2>8, <2>9, Zenon DEF HtlcStep
  <1>4. /\ contracts' \in [Contracts -> Stages] /\ rpc' \in [Contracts -> Goroutine]
        /\ told' \in [Htlcs -> SUBSET {"fail", "settle"}]
    BY <1>1, <1>3
  <1>5. \A g \in Htlcs : Outgoing(g) /\ g \in offered' => contracts'[g] # "contest"
    BY <1>1, <1>3, Zenon DEF Contracts
  <1>6. \A g \in Htlcs :
            \/ told'[g] = told[g]
            \/ /\ told'[g] = told[g] \cup {"settle"}
               /\ conf \in kind[g].outs /\ spent[g] = "preimage"
            \/ /\ told'[g] = told[g] \cup {"fail"}
               /\ conf \in kind[g].outs /\ spent[g] = "timeout"
    BY <1>1, <1>3
  <1> QED BY <1>1, <1>3, <1>4, <1>5, <1>6, ResolverFrame, Zenon

\* prepContractResolutions fails back at once only HTLCs without an output on
\* the transaction that confirmed, and plans resolvers of known kinds.
LEMMA PlanIsSound ==
    ASSUME Typed, conf # "none", NEW ht, NEW trig, NEW up
    PROVE  LET prep == PrepContractResolutions(ht, trig, up)
           IN  /\ \A h \in prep.fail : conf \notin kind[h].outs \cup {"none"}
               /\ prep.make \in [Contracts -> {"none", "contest", "final"}]
  <1>1. CASE conf = "breach"
    <2>1. \A h \in Htlcs : conf \notin kind[h].outs
      BY <1>1 DEF Typed, KindType, Commits
    <2>2. BreachFails \subseteq Htlcs
      BY Zenon DEF BreachFails
    <2>3. [NoPlan EXCEPT !["breach"] = "final"]
             \in [Contracts -> {"none", "contest", "final"}]
      BY Zenon DEF NoPlan, Contracts
    <2> QED BY <1>1, <2>1, <2>2, <2>3, Zenon DEF PrepContractResolutions
  <1>2. CASE conf # "breach"
    <2> DEFINE act == ConstructChainActions(ht, trig, up)
               make == [c \in Contracts |->
                           IF c \in Htlcs THEN ResolverFor(act[c])
                           ELSE IF c = "commit" /\ hasCommit THEN "final" ELSE "none"]
    <2>1. \A h \in Htlcs : act[h] = "failNow" => conf \notin kind[h].outs
      <3>1. CASE conf = "local"
        BY <3>1, Zenon DEF ConstructChainActions, CheckLocalChainActions, RemoteDangling,
                    CheckCommitChainActions, On, Output, Typed
      <3>2. CASE conf # "local"
        BY <3>2, Zenon DEF ConstructChainActions, CheckRemoteChainActions, RemoteDiff,
                    CheckCommitChainActions, On, Output, Typed
      <3> QED BY <3>1, <3>2, Zenon
    <2>2. make \in [Contracts -> {"none", "contest", "final"}]
      BY Zenon DEF ResolverFor
    <2>3. PrepContractResolutions(ht, trig, up)
             = [fail |-> {h \in Htlcs : act[h] = "failNow"}, make |-> make]
      BY <1>2, Zenon DEF PrepContractResolutions
    <2> HIDE DEF act, make
    <2> QED BY <2>1, <2>2, <2>3
  <1> QED BY <1>1, <1>2, Zenon

\* The attendant leaves StateContractClosed's work behind: the switch is told of
\* HTLCs that have no output, and the plan is made.
LEMMA ContractClosedStep ==
    ASSUME AnswersInv, StepContractClosed
    PROVE  AnswersInv'
  <1>1. /\ UNCHANGED <<kind, spent, conf, contracts, offered, rpc, closed, trigger>>
        /\ dbState = "ContractClosed" /\ pc = "advance" /\ state = dbState
    BY Zenon DEF StepContractClosed, channel, chain, closing, AnswersInv, Typed
  <1>2. Untouched /\ conf # "none"
    BY <1>1, Zenon DEF AnswersInv, CreatedOnce, ConfirmedFirst
  <1>3. CASE NothingToResolve
    <2>1. /\ UNCHANGED <<plan, told>>
          /\ dbState' = "FullyResolved" /\ state' = dbState' /\ pc' = "advance"
      BY <1>3, Zenon DEF StepContractClosed, CommitState
    <2>2. Typed' /\ CreatedOnce' /\ ConfirmedFirst'
      BY <1>1, <1>2, <2>1, Zenon DEF AnswersInv, Typed, States, CreatedOnce, ConfirmedFirst
    <2> QED BY <1>1, <2>1, <2>2, AnswersFrame, Zenon
  <1>4. CASE ~NothingToResolve
    <2>1. PICK up \in BOOLEAN :
             LET prep == PrepContractResolutions(trigHeight, trigger, up) IN
             /\ told' = [h \in Htlcs |-> IF h \in prep.fail
                                         THEN told[h] \cup {"fail"} ELSE told[h]]
             /\ plan' = prep.make /\ pc' = "insert"
             /\ UNCHANGED <<dbState, state>>
      BY <1>4, Zenon DEF StepContractClosed
    <2> DEFINE prep == PrepContractResolutions(trigHeight, trigger, up)
    <2>2. /\ \A h \in prep.fail : conf \notin kind[h].outs \cup {"none"}
          /\ prep.make \in [Contracts -> {"none", "contest", "final"}]
      BY <1>2, PlanIsSound, Zenon DEF AnswersInv
    <2>3. /\ told' = [h \in Htlcs |-> IF h \in prep.fail
                                      THEN told[h] \cup {"fail"} ELSE told[h]]
          /\ plan' = prep.make /\ pc' = "insert" /\ UNCHANGED <<dbState, state>>
      BY <2>1, Zenon
    <2> HIDE DEF prep
    <2>4. told' \in [Htlcs -> SUBSET {"fail", "settle"}]
      BY <2>3, Zenon DEF AnswersInv, Typed
    <2>5. Typed' /\ ConfirmedFirst'
      BY <1>1, <1>2, <2>2, <2>3, <2>4, Zenon DEF AnswersInv, Typed, ConfirmedFirst
    <2>6. CreatedOnce'
      BY <1>1, <1>2, <2>3, Zenon DEF CreatedOnce, Untouched
    <2>7. SpendsExplained'
      BY <1>1, Zenon DEF AnswersInv, SpendsExplained, Outgoing
    <2>8. AnswersMatchChain'
      BY <1>1, <2>2, <2>3, Zenon DEF AnswersInv, AnswersMatchChain
    <2> QED BY <2>5, <2>6, <2>7, <2>8, Zenon DEF AnswersInv
  <1> QED BY <1>3, <1>4, Zenon

\* The planned resolvers are logged and launched, for the first time.
LEMMA InsertStep ==
    ASSUME AnswersInv, InsertUnresolvedContracts
    PROVE  AnswersInv'
  <1>1. /\ UNCHANGED <<kind, spent, conf, offered, told, closed, trigger, dbState, state>>
        /\ pc = "insert" /\ pc' = "launched" /\ plan' = NoPlan
        /\ contracts' = [c \in Contracts |-> IF plan[c] = "none" THEN contracts[c]
                                                                 ELSE plan[c]]
        /\ rpc' = [c \in Contracts |-> IF plan[c] = "none" THEN "off" ELSE "resolve"]
    BY Zenon DEF InsertUnresolvedContracts, channel, chain, closing
  <1>2. dbState = "ContractClosed" /\ Untouched
    BY <1>1, Zenon DEF AnswersInv, CreatedOnce
  <1>3. Typed'
    BY <1>1, Zenon DEF AnswersInv, Typed, Stages, Goroutine, NoPlan
  <1>4. CreatedOnce' /\ ConfirmedFirst'
    BY <1>1, <1>2, Zenon DEF AnswersInv, CreatedOnce, ConfirmedFirst
  <1>5. SpendsExplained'
    BY <1>1, <1>2, Zenon DEF AnswersInv, SpendsExplained, Outgoing, Untouched
  <1>6. AnswersMatchChain'
    BY <1>1, Zenon DEF AnswersInv, AnswersMatchChain
  <1> QED BY <1>3, <1>4, <1>5, <1>6, Zenon DEF AnswersInv

\* The steps of the attendant that tell the switch nothing.
LEMMA QuietAttendantStep ==
    ASSUME AnswersInv,
           \/ StepDefault \/ StepBroadcastCommit \/ CommitBroadcast
           \/ StepCommitmentBroadcasted \/ StepOnClose \/ CommitWaiting
           \/ StepWaitingFullResolution \/ StepFullyResolved \/ WipeHistory
           \/ LogContractResolutions \/ InsertConfirmedCommitSet \/ MarkChannelClosed
           \/ TakeBlock \/ ForceCloseRequest \/ PublishFails
           \/ \E c \in Contracts : ResolutionSignal(c)
    PROVE  AnswersInv'
  <1> USE DEF AnswersInv, Typed, CreatedOnce, ConfirmedFirst
  <1>1. CASE StepDefault
    <2>1. UNCHANGED <<kind, spent, conf, told, offered, contracts, plan, closed, rpc>>
      BY <1>1, Zenon DEF StepDefault, Return, CommitState, channel, chain, closing
    <2>2. Typed' /\ CreatedOnce' /\ ConfirmedFirst'
      BY <1>1, <2>1, Zenon DEF StepDefault, Return, CommitState, Untouched, States, CloseTriggers
    <2> QED BY <2>1, <2>2, AnswersFrame, Zenon
  <1>2. CASE StepBroadcastCommit \/ CommitBroadcast
    <2>1. UNCHANGED <<kind, spent, conf, told, offered, contracts, plan, closed, rpc,
                      trigger>>
      BY <1>2, Zenon DEF StepBroadcastCommit, CommitBroadcast, channel, chain, closing, resolvers
    <2>2. Typed' /\ CreatedOnce' /\ ConfirmedFirst'
      BY <1>2, <2>1, Zenon DEF StepBroadcastCommit, CommitBroadcast, CommitState, Untouched, States
    <2> QED BY <2>1, <2>2, AnswersFrame, Zenon
  <1>3. CASE StepCommitmentBroadcasted
    <2>1. UNCHANGED <<kind, spent, conf, told, offered, contracts, plan, closed, rpc,
                      dbState, state>>
      BY <1>3, Zenon DEF StepCommitmentBroadcasted, Return, channel, chain, closing
    <2>2. Typed' /\ CreatedOnce' /\ ConfirmedFirst'
      BY <1>3, <2>1, Zenon DEF StepCommitmentBroadcasted, Return, Untouched, CloseTriggers
    <2> QED BY <2>1, <2>2, AnswersFrame, Zenon
  <1>4. CASE StepOnClose
    <2>1. UNCHANGED <<kind, spent, conf, told, offered, contracts, plan, closed, rpc,
                      trigger>>
      BY <1>4, Zenon DEF StepOnClose, channel, chain, closing, resolvers
    <2>2. Typed' /\ CreatedOnce' /\ ConfirmedFirst'
      BY <1>4, <2>1, Zenon DEF StepOnClose, CommitState, Untouched, States
    <2> QED BY <2>1, <2>2, AnswersFrame, Zenon
  <1>5. CASE CommitWaiting
    <2>1. UNCHANGED <<kind, spent, conf, told, offered, contracts, plan, closed, rpc,
                      trigger>>
      BY <1>5, Zenon DEF CommitWaiting, channel, chain, closing, resolvers
    <2>2. Typed' /\ CreatedOnce' /\ ConfirmedFirst'
      BY <1>5, <2>1, Zenon DEF CommitWaiting, CommitState, States
    <2> QED BY <2>1, <2>2, AnswersFrame, Zenon
  <1>6. CASE StepWaitingFullResolution
    <2>1. UNCHANGED <<kind, spent, conf, told, offered, contracts, plan, closed>>
      BY <1>6, Zenon DEF StepWaitingFullResolution, channel, chain, closing
    <2>2. rpc' \in [Contracts -> Goroutine]
      BY <1>6, Zenon DEF StepWaitingFullResolution, Return, RelaunchResolvers, Goroutine
    <2>3. /\ dbState = "WaitingFullResolution" /\ state' = dbState'
          /\ dbState' \in {"WaitingFullResolution", "FullyResolved"}
          /\ pc' \in {"advance", "idle"}
          /\ trigger' \in {trigger, "chain"}
      BY <1>6, Zenon DEF StepWaitingFullResolution, Return, CommitState
    <2>4. Typed' /\ CreatedOnce' /\ ConfirmedFirst'
      BY <2>1, <2>2, <2>3, Zenon DEF States, CloseTriggers
    <2> QED BY <2>1, <2>4, AnswersFrame, Zenon
  <1>7. CASE StepFullyResolved \/ WipeHistory
    <2>1. UNCHANGED <<kind, spent, conf, told, offered, contracts, plan, closed, trigger,
                      dbState, state>>
      BY <1>7, Zenon DEF StepFullyResolved, WipeHistory, channel, chain, resolvers
    <2>2. Typed' /\ CreatedOnce' /\ ConfirmedFirst'
      BY <1>7, <2>1, Zenon DEF StepFullyResolved, WipeHistory, resolvers, AllOff, Goroutine,
                        Untouched
    <2> QED BY <2>1, <2>2, AnswersFrame, Zenon
  <1>8. CASE LogContractResolutions \/ InsertConfirmedCommitSet
    <2>1. UNCHANGED <<kind, spent, conf, told, offered, contracts, plan, closed, rpc,
                      trigger, dbState, state>>
      BY <1>8, Zenon DEF LogContractResolutions, InsertConfirmedCommitSet, channel, chain,
                  resolvers
    <2>2. Typed' /\ CreatedOnce' /\ ConfirmedFirst'
      BY <1>8, <2>1, Zenon DEF LogContractResolutions, InsertConfirmedCommitSet, Untouched, Commits
    <2> QED BY <2>1, <2>2, AnswersFrame, Zenon
  <1>9. CASE MarkChannelClosed
    <2>1. UNCHANGED <<kind, spent, conf, told, offered, contracts, plan, rpc, dbState,
                      state>>
      BY <1>9, Zenon DEF MarkChannelClosed, channel, chain, resolvers
    <2>2. Typed' /\ CreatedOnce' /\ ConfirmedFirst'
      BY <1>9, <2>1, Zenon DEF MarkChannelClosed, Advance, Untouched
    <2> QED BY <2>1, <2>2, AnswersFrame, Zenon
  <1>10. CASE TakeBlock \/ ForceCloseRequest
    <2>1. UNCHANGED <<kind, spent, conf, told, offered, contracts, plan, closed, rpc>>
      BY <1>10, Zenon DEF TakeBlock, ForceCloseRequest, channel, chain, closing, resolvers
    <2>2. Typed' /\ CreatedOnce' /\ ConfirmedFirst'
      BY <1>10, <2>1, Zenon DEF TakeBlock, ForceCloseRequest, Advance, CommitState, Untouched,
                         States, CloseTriggers
    <2> QED BY <2>1, <2>2, AnswersFrame, Zenon
  <1>11. CASE PublishFails
    <2>1. UNCHANGED <<kind, spent, conf, told, offered, contracts, plan, closed, rpc,
                      dbState, state>>
      BY <1>11, Zenon DEF PublishFails, channel, chain, closing, resolvers
    <2>2. Typed' /\ CreatedOnce' /\ ConfirmedFirst'
      BY <1>11, <2>1, Zenon DEF PublishFails, Untouched, CloseTriggers
    <2> QED BY <2>1, <2>2, AnswersFrame, Zenon
  <1>12. ASSUME NEW c \in Contracts, ResolutionSignal(c)
         PROVE  AnswersInv'
    <2>1. /\ UNCHANGED <<kind, spent, conf, told, offered, contracts, plan, closed,
                         dbState, state>>
          /\ rpc' = [rpc EXCEPT ![c] = "off"]
          /\ pc = "idle" /\ pc' = "advance" /\ trigger' = "chain" /\ rpc[c] = "signal"
      BY <1>12, Zenon DEF ResolutionSignal, Advance, channel, chain, closing
    <2>2. ~Untouched
      BY <2>1, Zenon DEF Untouched, AllOff
    <2>3. Typed' /\ CreatedOnce' /\ ConfirmedFirst'
      BY <2>1, <2>2, Zenon DEF Goroutine, CloseTriggers
    <2> QED BY <2>1, <2>3, AnswersFrame, Zenon
  <1> QED BY <1>1, <1>2, <1>3, <1>4, <1>5, <1>6, <1>7, <1>8, <1>9, <1>10, <1>11, <1>12, Zenon

\* A restart that does not execute StateContractClosed again.
LEMMA RestartStep ==
    ASSUME RestartWhenClosed = FALSE, AnswersInv, CrashAndRestart
    PROVE  AnswersInv'
  <1>1. /\ UNCHANGED <<kind, spent, conf, told, offered, contracts, closed, dbState>>
        /\ rpc' = AllOff /\ plan' = NoPlan /\ pc' = "advance" /\ state' = dbState
        /\ trigger' \in {closed, "chain"} /\ (trigger' = closed => closed # "open"
                                                          \/ trigger' = "chain")
        /\ dbState # "ContractClosed"
    BY Zenon DEF CrashAndRestart, Start, channel, chain, closing
  <1>2. Typed'
    BY <1>1, Zenon DEF AnswersInv, Typed, AllOff, NoPlan, Goroutine
  <1>3. CreatedOnce'
    BY <1>1, Zenon DEF AnswersInv, CreatedOnce, Untouched
  <1>4. ConfirmedFirst'
    BY <1>1, Zenon DEF AnswersInv, ConfirmedFirst, CloseTriggers
  <1> QED BY <1>1, <1>2, <1>3, <1>4, AnswersFrame, Zenon

\* A goroutine that ends with an error leaves its contract in the log.
LEMMA FailureStep ==
    ASSUME AnswersInv, NEW c \in Contracts, ResolveFails(c)
    PROVE  AnswersInv'
  <1>1. /\ UNCHANGED <<kind, spent, conf, told, offered, contracts, plan, dbState, state,
                       pc, closed, trigger>>
        /\ rpc' = [rpc EXCEPT ![c] = "failed"] /\ rpc[c] # "off"
    BY Zenon DEF ResolveFails, Goto, channel, chain, closing, attendant
  <1>2. ~Untouched
    BY <1>1, Zenon DEF Untouched, AllOff
  <1>3. Typed' /\ ConfirmedFirst'
    BY <1>1, Zenon DEF AnswersInv, Typed, ConfirmedFirst, Goroutine
  <1>4. CreatedOnce'
    BY <1>1, <1>2, Zenon DEF AnswersInv, CreatedOnce
  <1> QED BY <1>1, <1>3, <1>4, AnswersFrame, Zenon

\* The invariant is inductive.
LEMMA AnswersInvStep ==
    ASSUME RestartWhenClosed = FALSE, AnswersInv, [ArbitratorNext]_vars
    PROVE  AnswersInv'
  <1>1. CASE AttendantStep
    BY <1>1, QuietAttendantStep, ContractClosedStep, InsertStep, Zenon DEF AttendantStep
  <1>2. CASE TakeBlock \/ ForceCloseRequest \/ PublishFails
    BY <1>2, QuietAttendantStep, Zenon
  <1>3. ASSUME NEW c \in Contracts, ResolverStep(c) PROVE AnswersInv'
    BY <1>3, ContractResolverStep, HtlcResolverStep, Zenon DEF ResolverStep
  <1>4. CASE \/ NewBlock \/ CommitmentConfirms
             \/ \E c \in Contracts : OurTxConfirms(c)
             \/ \E h \in Htlcs : PeerClaims(h) \/ PeerTimesOut(h) \/ VerdictArrives(h)
    BY <1>4, WorldStep, Zenon
  <1>5. CASE CrashAndRestart
    BY <1>5, RestartStep, Zenon
  <1>6. CASE UNCHANGED vars
    <2>1. UNCHANGED <<kind, spent, conf, told, offered, contracts, rpc, plan, dbState,
                      state, pc, closed, trigger>>
      BY <1>6, Zenon DEF vars, channel, chain, closing, attendant, resolvers
    <2>2. Typed' /\ CreatedOnce' /\ ConfirmedFirst'
      BY <2>1, Zenon DEF AnswersInv, Typed, CreatedOnce, ConfirmedFirst, Untouched
    <2> QED BY <2>1, <2>2, AnswersFrame, Zenon
  <1>7. ASSUME NEW c \in Contracts, ResolveFails(c) PROVE AnswersInv'
    BY <1>7, FailureStep, Zenon
  <1> QED BY <1>1, <1>2, <1>3, <1>4, <1>5, <1>6, <1>7, Zenon DEF ArbitratorNext

\* The invariant holds before anything has happened.
LEMMA AnswersInvInit == ArbitratorInit => AnswersInv
  <1> SUFFICES ASSUME ArbitratorInit PROVE AnswersInv
    OBVIOUS
  <1>1. PICK ch \in Channels : kind = ch.kind
    BY Zenon DEF ArbitratorInit
  <1>2. ch \in ChannelType /\ \A h \in Htlcs : Reachable(ch.kind[h], ch.pend)
    BY <1>1, ArbitratorAssumption, Zenon
  <1>3. /\ kind \in [Htlcs -> KindType]
        /\ \A h \in Htlcs : kind[h].outs \subseteq kind[h].sets
    BY <1>1, <1>2, Zenon DEF ChannelType, Reachable
  <1>4. Typed
    BY <1>3, Zenon DEF ArbitratorInit, Typed, NoPlan, AllOff, Stages, Goroutine, States
  <1>5. CreatedOnce /\ ConfirmedFirst
    BY Zenon DEF ArbitratorInit, CreatedOnce, ConfirmedFirst, Untouched, CloseTriggers
  <1>6. SpendsExplained /\ AnswersMatchChain
    BY Zenon DEF ArbitratorInit, SpendsExplained, AnswersMatchChain
  <1> QED BY <1>4, <1>5, <1>6, Zenon DEF AnswersInv

\* For every set of HTLCs, heights and crashes: the switch is told that an
\* outgoing HTLC was settled or failed only as the chain has decided it, so
\* never both (DeliverResolutionMsg in stateStep and in the resolvers).
THEOREM AnswersTheorem ==
    ASSUME RestartWhenClosed = FALSE
    PROVE  ArbitratorSpec => []AnswersMatchChain
  <1>1. ArbitratorInit => AnswersInv
    BY AnswersInvInit, Zenon
  <1>2. AnswersInv /\ [ArbitratorNext]_vars => AnswersInv'
    BY AnswersInvStep, Zenon
  <1>3. AnswersInv => AnswersMatchChain
    BY Zenon DEF AnswersInv
  <1> QED BY <1>1, <1>2, <1>3, PTL DEF ArbitratorSpec

-----------------------------------------------------------------------------
(***************************************************************************)
(* The arbitrator never waits for a contract whose goroutine it has not    *)
(* launched, and a goroutine only ends early after a fault or when the     *)
(* peer was first.                                                         *)
(***************************************************************************)

\* Each contract of the log, unless checkpointed as resolved, has its goroutine.
Driven == \A c \in Contracts : contracts[c] \notin {"none", "done"} => rpc[c] # "off"

\* From the launch of the resolvers on, each contract of the log is driven; only
\* in a Start that found StateWaitingFullResolution stored are they off, until
\* Start returns.  A goroutine that has signalled has deleted its contract.
DrivenInv ==
    /\ pc = "idle" => starting = "no"
    /\ pc = "launched" => Driven
    /\ state = "WaitingFullResolution" /\ starting # "WaitingFullResolution" => Driven
    /\ \A c \in Contracts : rpc[c] = "signal" => contracts[c] = "none"

\* The peer timed out an incoming HTLC that we did not claim in time.
TakenByPeer(c) == c \in Htlcs /\ ~Outgoing(c) /\ spent[c] = "peer"

\* Without a fault no resolver is launched for an output that is on offer
\* already, and Start has not run again; so the wallet refuses a claim only
\* when the peer was first.
LostOnlyByFault ==
    /\ faults \in Nat
    /\ faults = 0 => starting = "no"
    /\ \A c \in Contracts :
          /\ rpc[c] \in {"resolve", "watch"} /\ c \in offered => faults # 0
          /\ rpc[c] = "failed" => faults # 0 \/ TakenByPeer(c)
    /\ \A h \in Htlcs : ~Outgoing(h) => \/ spent[h] \in {"no", "peer"}
                                        \/ spent[h] = "ours" /\ h \in offered

\* Steps that move neither goroutines nor the log keep the contracts driven.
LEMMA DrivenFrame ==
    ASSUME DrivenInv, UNCHANGED <<contracts, rpc>>,
           UNCHANGED starting, pc' \in {pc} \cup {"advance", "broadcast", "insert",
                                                  "commitset", "mark", "stopped"},
           state' = state \/ state' # "WaitingFullResolution"
    PROVE  DrivenInv'
  BY Zenon DEF DrivenInv, Driven

\* A resolver's step leaves the other contracts alone, never ends its goroutine,
\* and signals once it has deleted its contract.
LEMMA ResolverDriven ==
    ASSUME Typed, DrivenInv, NEW c \in Contracts, ResolverStep(c)
    PROVE  DrivenInv'
  <1>1. UNCHANGED <<state, pc, starting>>
    <2>1. CASE ContractStep(c)
      BY <2>1, Zenon DEF ContractStep, OfferOutput, CheckpointIncubating,
                  LastSpend, CheckpointResolved, ResolveContract, Elsewhere, attendant
    <2>2. CASE HtlcStep(c)
      BY <2>2, Zenon DEF HtlcStep, OutgoingContest, OutgoingClaimed, OutgoingExpires,
                  IncomingContest, IncomingVerdict, IncomingExpires, PublishClaim,
                  ResumeIncubating, TimeoutSpent,
                  Elsewhere, attendant
    <2> QED BY <2>1, <2>2, Zenon DEF ResolverStep
  <1>2. /\ \A d \in Contracts \ {c} : rpc'[d] = rpc[d] /\ contracts'[d] = contracts[d]
        /\ rpc'[c] # "off"
        /\ rpc'[c] = "signal" => contracts'[c] = "none"
    <2>1. CASE ContractStep(c)
      BY <2>1, Zenon DEF ContractStep, OfferOutput, CheckpointIncubating,
                  LastSpend, CheckpointResolved, ResolveContract, Goto, Log, Typed
    <2>2. CASE HtlcStep(c)
      BY <2>2 DEF HtlcStep, OutgoingContest, OutgoingClaimed, OutgoingExpires,
                  IncomingContest, IncomingVerdict, IncomingExpires, PublishClaim,
                  ResumeIncubating, TimeoutSpent,
                  IncomingDecided, ClaimCleanUp, Goto, Log, Typed
    <2> QED BY <2>1, <2>2, Zenon DEF ResolverStep
  <1> QED BY <1>1, <1>2, Zenon DEF DrivenInv, Driven

\* Return leaves the contracts driven: Start relaunches what it found.
LEMMA ReturnDriven ==
    ASSUME DrivenInv, Return, UNCHANGED <<state, contracts>>
    PROVE  DrivenInv'
  <1>1. CASE starting = "WaitingFullResolution" /\ state = "WaitingFullResolution"
    <2>1. /\ pc' = "idle" /\ starting' = "no"
          /\ rpc' = [c \in Contracts |->
                        IF contracts[c] \in {"none", "done"} THEN "off" ELSE "resolve"]
      BY <1>1, Zenon DEF Return, RelaunchResolvers
    <2> QED BY <2>1, Zenon DEF DrivenInv, Driven
  <1>2. CASE ~(starting = "WaitingFullResolution" /\ state = "WaitingFullResolution")
    <2>1. pc' = "idle" /\ starting' = "no" /\ UNCHANGED rpc
      BY <1>2, Zenon DEF Return
    <2> QED BY <1>2, <2>1, Zenon DEF DrivenInv, Driven
  <1> QED BY <1>1, <1>2, Zenon

\* The attendant's steps keep the contracts driven.
LEMMA AttendantDriven ==
    ASSUME AnswersInv, DrivenInv, AttendantStep
    PROVE  DrivenInv'
  <1>1. CASE StepDefault
    <2>1. CASE Return /\ UNCHANGED state
      BY <1>1, <2>1, ReturnDriven, Zenon DEF StepDefault
    <2>2. CASE CommitState("BroadcastCommit") /\ UNCHANGED <<starting, rpc>>
      BY <1>1, <2>2, DrivenFrame, Zenon DEF StepDefault, CommitState
    <2> QED BY <1>1, <2>1, <2>2, Zenon DEF StepDefault
  <1>2. CASE StepBroadcastCommit \/ CommitBroadcast
    BY <1>2, DrivenFrame, Zenon DEF StepBroadcastCommit, CommitBroadcast, CommitState,
                             resolvers
  <1>3. CASE StepCommitmentBroadcasted
    BY <1>3, ReturnDriven, Zenon DEF StepCommitmentBroadcasted
  <1>4. CASE StepOnClose
    BY <1>4, DrivenFrame, Zenon DEF StepOnClose, CommitState, resolvers
  <1>5. CASE StepContractClosed
    BY <1>5, DrivenFrame, Zenon DEF StepContractClosed, CommitState
  <1>6. CASE InsertUnresolvedContracts
    <2>1. /\ pc = "insert" /\ pc' = "launched" /\ UNCHANGED <<state, starting>>
          /\ contracts' = [c \in Contracts |-> IF plan[c] = "none" THEN contracts[c]
                                                                   ELSE plan[c]]
          /\ rpc' = [c \in Contracts |-> IF plan[c] = "none" THEN "off" ELSE "resolve"]
      BY <1>6, Zenon DEF InsertUnresolvedContracts
    <2>2. contracts = NoPlan
      BY <2>1, Zenon DEF AnswersInv, CreatedOnce, Untouched
    <2>3. Driven' /\ \A c \in Contracts : rpc'[c] # "signal"
      BY <2>1, <2>2, Zenon DEF Driven, NoPlan
    <2> QED BY <2>1, <2>3, Zenon DEF DrivenInv
  <1>7. CASE CommitWaiting
    <2>1. /\ pc = "launched" /\ pc' = "advance"
          /\ UNCHANGED <<contracts, rpc, starting>>
      BY <1>7, Zenon DEF CommitWaiting, CommitState, resolvers
    <2> QED BY <2>1, Zenon DEF DrivenInv, Driven
  <1>8. CASE StepWaitingFullResolution
    <2>1. CASE Return /\ UNCHANGED state
      BY <1>8, <2>1, ReturnDriven, Zenon DEF StepWaitingFullResolution
    <2>2. CASE CommitState("FullyResolved") /\ UNCHANGED <<starting, rpc>>
      BY <1>8, <2>2, DrivenFrame, Zenon DEF StepWaitingFullResolution, CommitState
    <2> QED BY <1>8, <2>1, <2>2, Zenon DEF StepWaitingFullResolution
  <1>9. CASE StepFullyResolved
    <2>1. /\ state = "FullyResolved" /\ pc' = "stopping" /\ rpc' = AllOff
          /\ UNCHANGED <<state, starting>>
      BY <1>9, Zenon DEF StepFullyResolved
    <2> QED BY <2>1, Zenon DEF DrivenInv, AllOff
  <1>10. CASE WipeHistory \/ LogContractResolutions \/ InsertConfirmedCommitSet
    BY <1>10, DrivenFrame, Zenon DEF WipeHistory, LogContractResolutions,
                              InsertConfirmedCommitSet, resolvers
  <1>11. CASE MarkChannelClosed
    BY <1>11, DrivenFrame, Zenon DEF MarkChannelClosed, Advance, resolvers
  <1>12. ASSUME NEW c \in Contracts, ResolutionSignal(c) PROVE DrivenInv'
    <2>1. /\ rpc[c] = "signal" /\ rpc' = [rpc EXCEPT ![c] = "off"]
          /\ pc' = "advance" /\ UNCHANGED <<state, starting, contracts>>
          /\ pc = "idle"
      BY <1>12, Zenon DEF ResolutionSignal, Advance
    <2>2. rpc \in [Contracts -> Goroutine] /\ contracts[c] = "none"
      BY <2>1, Zenon DEF AnswersInv, Typed, DrivenInv
    <2> QED BY <2>1, <2>2, Zenon DEF DrivenInv, Driven
  <1> QED BY <1>1, <1>2, <1>3, <1>4, <1>5, <1>6, <1>7, <1>8, <1>9, <1>10, <1>11, <1>12, Zenon
          DEF AttendantStep

\* What a step has to respect: a goroutine it moves is not launched for an output
\* on offer without a fault, and fails only with one or after the peer's spend.
LEMMA LostFrame ==
    ASSUME LostOnlyByFault, UNCHANGED kind, faults' \in Nat, faults # 0 => faults' # 0,
           starting' \in {starting, "no"} \/ faults' # 0, offered \subseteq offered',
           \A c \in Contracts :
              \/ rpc'[c] \notin {"resolve", "watch", "failed"}
              \/ rpc'[c] = rpc[c] /\ (c \in offered' => c \in offered)
              \/ rpc'[c] \in {"resolve", "watch"} /\ (c \in offered' => faults' # 0)
              \/ rpc'[c] = "failed" /\ (faults' # 0 \/ TakenByPeer(c)),
           \A h \in Htlcs :
              \/ spent'[h] = spent[h]
              \/ spent[h] = "no" /\ (~Outgoing(h) =>
                    spent'[h] = "peer" \/ (spent'[h] = "ours" /\ h \in offered))
    PROVE  LostOnlyByFault'
  <1>1. \A c \in Contracts : TakenByPeer(c) => TakenByPeer(c)'
    BY Zenon DEF TakenByPeer, Outgoing
  <1>2. faults' = 0 => starting' = "no"
    BY Zenon DEF LostOnlyByFault
  <1>3. ASSUME NEW c \in Contracts
        PROVE  /\ rpc'[c] \in {"resolve", "watch"} /\ c \in offered' => faults' # 0
               /\ rpc'[c] = "failed" => faults' # 0 \/ TakenByPeer(c)'
    BY <1>1, Zenon DEF LostOnlyByFault
  <1>4. ASSUME NEW h \in Htlcs, ~Outgoing(h)'
        PROVE  \/ spent'[h] \in {"no", "peer"}
               \/ spent'[h] = "ours" /\ h \in offered'
    BY <1>4, Zenon DEF LostOnlyByFault, Outgoing
  <1> QED BY <1>2, <1>3, <1>4, Zenon DEF LostOnlyByFault

\* The steps of a resolver: only a claim that is refused ends its goroutine.
LEMMA ResolverLost ==
    ASSUME AnswersInv, LostOnlyByFault, NEW c \in Contracts, ResolverStep(c)
    PROVE  LostOnlyByFault'
  <1>1. UNCHANGED <<kind, spent, starting, faults>>
    <2>1. CASE ContractStep(c)
      BY <2>1, Zenon DEF ContractStep, OfferOutput, CheckpointIncubating, LastSpend,
                  CheckpointResolved, ResolveContract, Elsewhere, channel, chain, attendant
    <2>2. CASE HtlcStep(c)
      BY <2>2, Zenon DEF HtlcStep, OutgoingContest, OutgoingClaimed, OutgoingExpires,
                  IncomingContest, IncomingVerdict, IncomingExpires, PublishClaim,
                  ResumeIncubating, TimeoutSpent, Elsewhere, channel, chain, attendant
    <2> QED BY <2>1, <2>2, Zenon DEF ResolverStep
  <1>2. rpc \in [Contracts -> Goroutine] /\ faults \in Nat
    BY Zenon DEF AnswersInv, Typed, LostOnlyByFault
  <1>3. /\ \A d \in Contracts \ {c} : rpc'[d] = rpc[d]
        /\ offered \subseteq offered' /\ offered' \subseteq offered \cup {c}
        /\ \/ rpc'[c] \notin {"resolve", "watch", "failed"}
           \/ rpc[c] \in {"resolve", "watch"} /\ rpc'[c] \in {"resolve", "watch"}
              /\ UNCHANGED offered
           \/ rpc'[c] = "failed" /\ c \in Htlcs /\ PublishClaim(c)
    <2>1. CASE ContractStep(c)
      BY <1>2, <2>1, Zenon DEF ContractStep, OfferOutput, CheckpointIncubating, LastSpend,
                  CheckpointResolved, ResolveContract, Goto
    <2>2. CASE HtlcStep(c) /\ ~PublishClaim(c) /\ c \in Htlcs
      BY <1>2, <2>2, Zenon DEF HtlcStep, OutgoingContest, OutgoingClaimed, OutgoingExpires,
                  IncomingContest, IncomingVerdict, IncomingExpires, ResumeIncubating,
                  TimeoutSpent, IncomingDecided, ClaimCleanUp, At, Goto
    <2>3. CASE PublishClaim(c) /\ c \in Htlcs
      BY <1>2, <2>3, Zenon DEF PublishClaim, Goto
    <2> QED BY <2>1, <2>2, <2>3, Zenon DEF ResolverStep
  <1>4. CASE rpc'[c] = "failed" /\ c \in Htlcs /\ PublishClaim(c)
    <2>1. ~Outgoing(c) /\ rpc[c] = "resolve" /\ "refused" \in PublishTx(c)
      BY <1>2, <1>4, Zenon DEF PublishClaim, At, Goto
    <2>2. \/ spent[c] = "no" /\ c \in offered
          \/ spent[c] # "no"
      BY <2>1, Zenon DEF PublishTx
    <2>3. faults # 0 \/ TakenByPeer(c)
      BY <1>4, <2>1, <2>2, Zenon DEF LostOnlyByFault, TakenByPeer
    <2> QED BY <1>1, <1>2, <1>3, <1>4, <2>3, LostFrame, Zenon
  <1> QED BY <1>1, <1>2, <1>3, <1>4, LostFrame, Zenon DEF LostOnlyByFault

\* Return launches the goroutines again only at the end of a Start.
LEMMA ReturnLost ==
    ASSUME LostOnlyByFault, Return, UNCHANGED <<kind, spent, offered, faults>>
    PROVE  LostOnlyByFault'
  <1>1. starting' = "no" /\ faults' \in Nat
    BY Zenon DEF Return, LostOnlyByFault
  <1>2. CASE UNCHANGED rpc
    BY <1>1, <1>2, LostFrame, Zenon
  <1>3. CASE RelaunchResolvers /\ starting # "no"
    <2>1. faults' # 0 /\ \A c \in Contracts : rpc'[c] \in {"off", "resolve"}
      BY <1>3, Zenon DEF RelaunchResolvers, LostOnlyByFault
    <2> QED BY <1>1, <2>1, LostFrame, Zenon
  <1> QED BY <1>2, <1>3, Zenon DEF Return

\* The attendant launches resolvers once, before anything is on offer.
LEMMA AttendantLost ==
    ASSUME AnswersInv, LostOnlyByFault, AttendantStep
    PROVE  LostOnlyByFault'
  <1>1. UNCHANGED <<kind, spent, offered, faults>> /\ faults' \in Nat
    BY Zenon DEF AttendantStep, StepDefault, StepBroadcastCommit, CommitBroadcast,
                 StepCommitmentBroadcasted, StepOnClose, StepContractClosed,
                 InsertUnresolvedContracts, CommitWaiting, StepWaitingFullResolution,
                 StepFullyResolved, WipeHistory, LogContractResolutions,
                 InsertConfirmedCommitSet, MarkChannelClosed, ResolutionSignal, channel,
                 chain, resolvers, LostOnlyByFault
  <1>2. CASE UNCHANGED <<rpc, starting>>
    BY <1>1, <1>2, LostFrame, Zenon
  <1>3. CASE Return
    BY <1>1, <1>3, ReturnLost, Zenon
  <1>4. CASE InsertUnresolvedContracts
    <2>1. offered = {}
      BY <1>4, Zenon DEF InsertUnresolvedContracts, AnswersInv, CreatedOnce, Untouched
    <2>2. UNCHANGED starting /\ \A c \in Contracts : rpc'[c] \in {"off", "resolve"}
      BY <1>4, Zenon DEF InsertUnresolvedContracts
    <2> QED BY <1>1, <2>1, <2>2, LostFrame, Zenon
  <1>5. CASE StepFullyResolved
    <2>1. UNCHANGED starting /\ \A c \in Contracts : rpc'[c] = "off"
      BY <1>5, Zenon DEF StepFullyResolved, AllOff
    <2> QED BY <1>1, <2>1, LostFrame, Zenon
  <1>6. ASSUME NEW c \in Contracts, ResolutionSignal(c) PROVE LostOnlyByFault'
    <2>1. UNCHANGED starting /\ \A d \in Contracts : rpc'[d] \in {rpc[d], "off"}
      BY <1>6, Zenon DEF ResolutionSignal, AnswersInv, Typed
    <2> QED BY <1>1, <2>1, LostFrame, Zenon
  <1>7. CASE \/ StepBroadcastCommit \/ CommitBroadcast \/ StepOnClose
             \/ StepContractClosed \/ CommitWaiting \/ WipeHistory
             \/ LogContractResolutions \/ InsertConfirmedCommitSet \/ MarkChannelClosed
    BY <1>2, <1>7, Zenon DEF StepBroadcastCommit, CommitBroadcast, StepOnClose,
          StepContractClosed, CommitWaiting, WipeHistory, LogContractResolutions,
          InsertConfirmedCommitSet, MarkChannelClosed, resolvers
  <1>8. CASE StepDefault \/ StepCommitmentBroadcasted \/ StepWaitingFullResolution
    BY <1>2, <1>3, <1>8, Zenon DEF StepDefault, StepCommitmentBroadcasted,
          StepWaitingFullResolution
  <1> QED BY <1>4, <1>5, <1>6, <1>7, <1>8, Zenon DEF AttendantStep

\* No goroutine is lost without a fault, whatever happens.
LEMMA LostStep ==
    ASSUME AnswersInv, LostOnlyByFault, [ArbitratorNext]_vars
    PROVE  LostOnlyByFault'
  <1>0. faults \in Nat /\ faults + 1 \in Nat /\ faults + 1 # 0
    BY DEF LostOnlyByFault
  <1>1. CASE AttendantStep
    BY <1>1, AttendantLost, Zenon
  <1>2. ASSUME NEW c \in Contracts, ResolverStep(c) PROVE LostOnlyByFault'
    BY <1>2, ResolverLost, Zenon
  <1>3. ASSUME NEW h \in Htlcs,
               \/ TimeoutTxConfirms(h) \/ ClaimTxConfirms(h)
               \/ PeerClaims(h) \/ PeerTimesOut(h)
        PROVE  LostOnlyByFault'
    <2>1. PICK how : Spend(h, how) /\ (~Outgoing(h) =>
                        how = "peer" \/ (how = "ours" /\ h \in offered))
      BY <1>3, Zenon DEF TimeoutTxConfirms, ClaimTxConfirms, PeerClaims, PeerTimesOut
    <2>2. /\ UNCHANGED <<kind, offered, rpc, starting, faults>>
          /\ spent' = [spent EXCEPT ![h] = how] /\ spent[h] = "no"
      BY <2>1, Zenon DEF Spend, channel, attendant, resolvers
    <2>3. \A g \in Htlcs : \/ spent'[g] = spent[g]
                           \/ g = h /\ spent'[g] = how
      BY <2>2, Zenon DEF AnswersInv, Typed
    <2> QED BY <1>0, <2>1, <2>2, <2>3, LostFrame, Zenon
  <1>4. ASSUME NEW c \in Contracts, SweepConfirms(c) PROVE LostOnlyByFault'
    <2>1. UNCHANGED <<kind, spent, offered, rpc, starting, faults>>
      BY <1>4, Zenon DEF SweepConfirms, channel, attendant, resolvers
    <2> QED BY <1>0, <2>1, LostFrame, Zenon
  <1>5. ASSUME NEW h \in Htlcs, VerdictArrives(h) PROVE LostOnlyByFault'
    <2>1. UNCHANGED <<kind, spent, offered, rpc, starting, faults>>
      BY <1>5, Zenon DEF VerdictArrives, channel, attendant, resolvers
    <2> QED BY <1>0, <2>1, LostFrame, Zenon
  <1>6. CASE NewBlock \/ CommitmentConfirms \/ UNCHANGED vars
    <2>1. UNCHANGED <<kind, spent, offered, rpc, starting, faults>>
      BY <1>6, Zenon DEF NewBlock, CommitmentConfirms, vars, channel, chain, attendant,
                         resolvers
    <2> QED BY <1>0, <2>1, LostFrame, Zenon
  <1>7. CASE TakeBlock \/ ForceCloseRequest
    <2>1. UNCHANGED <<kind, spent, offered, rpc, starting, faults>>
      BY <1>7, Zenon DEF TakeBlock, ForceCloseRequest, channel, chain, resolvers
    <2> QED BY <1>0, <2>1, LostFrame, Zenon
  <1>8. CASE PublishFails
    <2>1. UNCHANGED <<kind, spent, offered, rpc, starting>> /\ faults' = faults + 1
      BY <1>8, Zenon DEF PublishFails, channel, chain, resolvers
    <2> QED BY <1>0, <2>1, LostFrame, Zenon
  <1>9. CASE CrashAndRestart
    <2>1. /\ UNCHANGED <<kind, spent, offered>> /\ faults' = faults + 1
          /\ \A c \in Contracts : rpc'[c] = "off"
      BY <1>9, Zenon DEF CrashAndRestart, Start, AllOff, channel, chain
    <2> QED BY <1>0, <2>1, LostFrame, Zenon
  <1>10. ASSUME NEW c \in Contracts, ResolveFails(c) PROVE LostOnlyByFault'
    <2>1. /\ UNCHANGED <<kind, spent, offered, starting>> /\ faults' = faults + 1
          /\ \A d \in Contracts : rpc'[d] \in {rpc[d], "failed"}
      BY <1>10, Zenon DEF ResolveFails, Goto, channel, chain, attendant, AnswersInv, Typed
    <2> QED BY <1>0, <2>1, LostFrame, Zenon
  <1> QED BY <1>1, <1>2, <1>3, <1>4, <1>5, <1>6, <1>7, <1>8, <1>9, <1>10, Zenon
          DEF ArbitratorNext, OurTxConfirms

\* While the arbitrator waits, each contract of its log has had its goroutine
\* launched, and it is still there unless its Resolve returned an error, which
\* takes a fault or an output that the peer took first; for every set of HTLCs
\* and any number of errors and of restarts outside StateContractClosed
\* (launchResolvers, relaunchResolvers, resolveContract).
THEOREM DrivenTheorem ==
    ASSUME RestartWhenClosed = FALSE
    PROVE  ArbitratorSpec => []WaitingIsDriven
  <1>1. ArbitratorInit => AnswersInv /\ DrivenInv /\ LostOnlyByFault
    <2>1. ArbitratorInit => LostOnlyByFault
      BY DEF ArbitratorInit, LostOnlyByFault, AllOff
    <2> QED BY <2>1, AnswersInvInit, Zenon DEF ArbitratorInit, DrivenInv, AllOff
  <1>2. AnswersInv /\ DrivenInv /\ LostOnlyByFault /\ [ArbitratorNext]_vars
        => AnswersInv' /\ DrivenInv' /\ LostOnlyByFault'
    <2> SUFFICES ASSUME AnswersInv, DrivenInv, [ArbitratorNext]_vars PROVE DrivenInv'
      BY AnswersInvStep, LostStep, Zenon
    <2>1. CASE AttendantStep
      BY <2>1, AttendantDriven, Zenon
    <2>2. ASSUME NEW c \in Contracts, ResolverStep(c) PROVE DrivenInv'
      BY <2>2, ResolverDriven, Zenon DEF AnswersInv
    <2>3. ASSUME NEW c \in Contracts, OurTxConfirms(c) PROVE DrivenInv'
      BY <2>3, DrivenFrame, Zenon DEF OurTxConfirms, SweepConfirms, TimeoutTxConfirms,
                               ClaimTxConfirms, Spend, attendant, resolvers
    <2>4. ASSUME NEW h \in Htlcs, PeerClaims(h) \/ PeerTimesOut(h) \/ VerdictArrives(h)
          PROVE  DrivenInv'
      BY <2>4, DrivenFrame, Zenon DEF PeerClaims, PeerTimesOut, VerdictArrives, Spend,
                               attendant, resolvers
    <2>5. CASE NewBlock \/ CommitmentConfirms
      BY <2>5, DrivenFrame, Zenon DEF NewBlock, CommitmentConfirms, attendant, resolvers
    <2>6. CASE TakeBlock \/ ForceCloseRequest
      BY <2>6, DrivenFrame, Zenon DEF TakeBlock, ForceCloseRequest, Advance, CommitState,
                               resolvers
    <2>7. CASE PublishFails
      <3>1. /\ state = "BroadcastCommit" /\ starting = "no" /\ pc' = "idle"
            /\ UNCHANGED <<state, starting, contracts, rpc>>
        BY <2>7, Zenon DEF PublishFails, resolvers
      <3> QED BY <3>1, Zenon DEF DrivenInv, Driven
    <2>8. CASE CrashAndRestart
      <3>1. /\ state' = dbState /\ starting' = dbState /\ pc' = "advance"
            /\ rpc' = AllOff
        BY <2>8, Zenon DEF CrashAndRestart, Start
      <3> QED BY <3>1, Zenon DEF DrivenInv, AllOff
    <2>9. CASE UNCHANGED vars
      BY <2>9, DrivenFrame, Zenon DEF vars, attendant, resolvers
    <2>10. ASSUME NEW c \in Contracts, ResolveFails(c) PROVE DrivenInv'
      <3>1. /\ UNCHANGED <<state, pc, starting, contracts>>
            /\ rpc' = [rpc EXCEPT ![c] = "failed"]
        BY <2>10, Zenon DEF ResolveFails, Goto, attendant
      <3>2. \A d \in Contracts : rpc'[d] = rpc[d] \/ rpc'[d] = "failed"
        BY <3>1, Zenon DEF AnswersInv, Typed
      <3> QED BY <3>1, <3>2, Zenon DEF DrivenInv, Driven
    <2> QED BY <2>1, <2>2, <2>3, <2>4, <2>5, <2>6, <2>7, <2>8, <2>9, <2>10, Zenon
            DEF ArbitratorNext
  <1>3. DrivenInv /\ LostOnlyByFault => WaitingIsDriven
    BY Zenon DEF DrivenInv, WaitingIsDriven, Driven, LostOnlyByFault, TakenByPeer
  <1> QED BY <1>1, <1>2, <1>3, PTL DEF ArbitratorSpec
-----------------------------------------------------------------------------
(***************************************************************************)
(* No HTLC is forgotten.                                                   *)
(***************************************************************************)

\* What EveryHtlcAccounted asks of one HTLC.
Accounted(h) ==
    /\ Outgoing(h) /\ kind[h].sets # {} => told[h] # {}
    /\ ~Outgoing(h) /\ conf \in kind[h].outs =>
          \/ spent[h] # "no" \/ height >= kind[h].expiry
          \/ verdict[h] = "refused" \/ kind[h].hop = "bad"

\* A close is handled as the spend that confirmed: the trigger is the stored close
\* summary, and StateContractClosed is executed once, with a close trigger.
CloseKnown ==
    /\ \A h \in Htlcs : Reachable(kind[h], pendingSigned)
    /\ conf = "coop" => \A h \in Htlcs : kind[h].sets = {}
    /\ pc \in {"commitset", "mark"} => conf \in Commits \cup {"breach"}
    /\ closed # "open" => closed = (IF conf = "pending" THEN "remote" ELSE conf)
    /\ trigger \in CloseTriggers => trigger = closed
    /\ dbState = "ContractClosed" =>
          /\ conf \in Commits \cup {"breach"}
          /\ pc \in {"advance", "insert", "launched"}
          /\ pc = "advance" => trigger \in CloseTriggers

\* An HTLC is accounted for, or a resolver for it is planned or in the log, from
\* the execution of StateContractClosed on; a resolver that is done has accounted.
AccountedInv ==
    /\ height \in Nat /\ verdict \in [Htlcs -> {"unknown", "preimage", "refused"}]
    /\ fullyClosed => dbState = "FullyResolved"
    /\ \A h \in Htlcs :
          /\ h \in swept => spent[h] # "no"
          /\ pc = "insert" => plan[h] # "none" \/ Accounted(h)
          /\ pc = "launched" \/ dbState = "WaitingFullResolution" =>
                contracts[h] # "none" \/ Accounted(h)
          /\ dbState = "FullyResolved" => Accounted(h)
          /\ rpc[h] \in {"resolved", "delete", "signal"} \/ contracts[h] = "done" =>
                Accounted(h)
          /\ rpc[h] = "second" => Outgoing(h) /\ told[h] # {}

\* Once an HTLC is accounted for it stays so: told answers, spends, refusals and
\* blocks are not taken back.
LEMMA AccountedStable ==
    ASSUME Typed, height \in Nat, height' \in Nat, height <= height',
           UNCHANGED <<kind, conf>>, NEW h \in Htlcs, Accounted(h),
           spent[h] # "no" => spent'[h] # "no", told[h] \subseteq told'[h],
           verdict[h] = "refused" => verdict'[h] = "refused"
    PROVE  Accounted(h)'
  <1>1. kind[h].expiry \in Nat
    BY Zenon DEF Typed, KindType
  <1> QED BY <1>1 DEF Accounted, Outgoing

\* Steps that do not write the log of contracts.
LEMMA AccountedFrame ==
    ASSUME Typed, AccountedInv, UNCHANGED <<kind, conf, contracts>>,
           height' \in Nat, height <= height',
           verdict' \in [Htlcs -> {"unknown", "preimage", "refused"}],
           \A h \in Htlcs : /\ spent[h] # "no" => spent'[h] # "no"
                            /\ told[h] \subseteq told'[h]
                            /\ verdict[h] = "refused" => verdict'[h] = "refused"
                            /\ h \in swept' => h \in swept \/ spent[h] # "no"
                            /\ rpc'[h] \in {rpc[h], "off", "resolve", "failed"},
           fullyClosed' => dbState' = "FullyResolved",
           pc' = "insert" => \/ pc = "insert" /\ UNCHANGED plan
                             \/ \A h \in Htlcs : plan'[h] # "none" \/ Accounted(h)',
           pc' = "launched" \/ dbState' = "WaitingFullResolution" =>
               pc = "launched" \/ dbState = "WaitingFullResolution",
           dbState' = "FullyResolved" =>
               dbState = "FullyResolved" \/ \A h \in Htlcs : Accounted(h)
    PROVE  AccountedInv'
  <1>1. \A h \in Htlcs : Accounted(h) => Accounted(h)'
    BY AccountedStable, Zenon DEF AccountedInv
  <1>2. ASSUME NEW h \in Htlcs
        PROVE  /\ h \in swept' => spent'[h] # "no"
               /\ pc' = "insert" => plan'[h] # "none" \/ Accounted(h)'
               /\ pc' = "launched" \/ dbState' = "WaitingFullResolution" =>
                     contracts'[h] # "none" \/ Accounted(h)'
               /\ dbState' = "FullyResolved" => Accounted(h)'
               /\ rpc'[h] \in {"resolved", "delete", "signal"} \/ contracts'[h] = "done" =>
                     Accounted(h)'
               /\ rpc'[h] = "second" => Outgoing(h)' /\ told'[h] # {}
    BY <1>1, Zenon DEF AccountedInv, Outgoing
  <1> QED BY <1>2, Zenon DEF AccountedInv

\* A resolver's step: an HTLC whose resolver is about to be resolved is accounted
\* for by what the resolver has seen.
LEMMA ResolverAccounted ==
    ASSUME Typed, AccountedInv, NEW c \in Contracts, ResolverStep(c)
    PROVE  AccountedInv'
  <1>1. UNCHANGED <<kind, conf, height, verdict, spent, swept, fullyClosed, dbState, pc, plan>>
    <2>1. CASE ContractStep(c)
      BY <2>1, Zenon DEF ContractStep, OfferOutput, CheckpointIncubating,
                  LastSpend, CheckpointResolved, ResolveContract, Elsewhere, attendant,
                  channel, chain, closing
    <2>2. CASE HtlcStep(c)
      BY <2>2, Zenon DEF HtlcStep, OutgoingContest, OutgoingClaimed, OutgoingExpires,
                  IncomingContest, IncomingVerdict, IncomingExpires, PublishClaim,
                  ResumeIncubating, TimeoutSpent,
                  Elsewhere, attendant, channel, chain, closing
    <2> QED BY <2>1, <2>2, Zenon DEF ResolverStep
  <1>2. /\ \A d \in Contracts \ {c} : rpc'[d] = rpc[d] /\ contracts'[d] = contracts[d]
        /\ \A h \in Htlcs : told[h] \subseteq told'[h]
    <2>1. CASE ContractStep(c)
      BY <2>1, Zenon DEF ContractStep, OfferOutput, CheckpointIncubating,
                  LastSpend, CheckpointResolved, ResolveContract, Goto, Log, Typed
    <2>2. CASE HtlcStep(c)
      BY <2>2 DEF HtlcStep, OutgoingContest, OutgoingClaimed, OutgoingExpires,
                  IncomingContest, IncomingVerdict, IncomingExpires, PublishClaim,
                  ResumeIncubating, TimeoutSpent,
                  IncomingDecided, ClaimCleanUp, Goto, Log, Tell, Typed
    <2> QED BY <2>1, <2>2, Zenon DEF ResolverStep
  <1>3. \A h \in Htlcs : Accounted(h) => Accounted(h)'
    BY <1>1, <1>2, AccountedStable DEF AccountedInv
  <1>4. CASE c \notin Htlcs
    BY <1>1, <1>2, <1>3, <1>4, Zenon DEF AccountedInv, Contracts, Outgoing
  <1>5. CASE c \in Htlcs
    <2> DEFINE Ends == {"resolved", "delete", "signal"}
    <2>1. CASE ContractStep(c)
      <3>1. CASE OfferOutput(c) \/ CheckpointIncubating(c)
        <4>1. rpc'[c] \notin Ends \cup {"second"} /\ contracts'[c] \notin {"none", "done"}
          BY <3>1, Zenon DEF OfferOutput, CheckpointIncubating, At, Goto, Log, Typed
        <4> QED BY <1>1, <1>2, <1>3, <4>1, Zenon DEF AccountedInv, Contracts, Outgoing
      <3>2. CASE LastSpend(c)
        <4>1. rpc'[c] = "resolved" /\ UNCHANGED <<contracts, told>>
          BY <3>2, Zenon DEF LastSpend, Goto, Typed
        <4>2. Accounted(c)
          BY <1>5, <3>2, Zenon DEF LastSpend, AccountedInv, Accounted
        <4> QED BY <1>1, <1>2, <1>3, <4>1, <4>2, Zenon DEF AccountedInv, Contracts, Outgoing
      <3>3. CASE CheckpointResolved(c) \/ ResolveContract(c)
        <4>1. rpc[c] \in Ends /\ rpc'[c] \in Ends /\ UNCHANGED told
          BY <3>3, Zenon DEF CheckpointResolved, ResolveContract, Goto, Typed
        <4>2. Accounted(c)
          BY <1>5, <4>1, Zenon DEF AccountedInv
        <4> QED BY <1>1, <1>2, <1>3, <4>1, <4>2, Zenon DEF AccountedInv, Contracts, Outgoing
      <3> QED BY <2>1, <3>1, <3>2, <3>3, Zenon DEF ContractStep
    <2>2. CASE HtlcStep(c)
      <3>1. contracts'[c] \notin {"none", "done"} \/ contracts'[c] = contracts[c]
        BY <2>2, Zenon DEF HtlcStep, OutgoingContest, OutgoingClaimed, OutgoingExpires,
                    IncomingContest, IncomingVerdict, IncomingExpires, PublishClaim,
                    ResumeIncubating, TimeoutSpent,
                    IncomingDecided, ClaimCleanUp, Log, Typed
      <3>2. CASE Outgoing(c)
        <4>1. rpc'[c] \in Ends \cup {"second"} => told'[c] # {}
          <5>1. told \in [Htlcs -> SUBSET {"fail", "settle"}] /\ rpc \in [Contracts -> Goroutine]
            BY Zenon DEF Typed
          <5>2. \/ rpc'[c] \in {"watch", "resolve", "wait"}
                \/ \E msg \in {"fail", "settle"} : Tell(c, msg)
            BY <2>2, <3>2, <5>1, Zenon
               DEF HtlcStep, OutgoingContest, OutgoingClaimed, OutgoingExpires, TimeoutSpent,
                   IncomingContest, IncomingVerdict, IncomingExpires, PublishClaim,
                   ResumeIncubating, ClaimCleanUp, Goto
          <5>3. ASSUME NEW msg \in {"fail", "settle"}, Tell(c, msg) PROVE msg \in told'[c]
            BY <1>5, <5>1, <5>3, Zenon DEF Tell
          <5> QED BY <5>2, <5>3, Zenon
        <4>2. rpc'[c] \in Ends => Accounted(c)'
          BY <1>1, <3>2, <4>1, Zenon DEF Accounted, Outgoing
        <4> QED BY <1>1, <1>2, <1>3, <3>1, <3>2, <4>1, <4>2 DEF AccountedInv, Contracts, Outgoing
      <3>3. CASE ~Outgoing(c)
        <4>1. /\ rpc'[c] \in Ends => Accounted(c)
              /\ rpc'[c] # "second"
          BY <1>5, <2>2, <3>3, Zenon
             DEF HtlcStep, OutgoingContest, OutgoingClaimed, OutgoingExpires, TimeoutSpent,
                 IncomingContest, IncomingVerdict, IncomingExpires, PublishClaim,
                 ResumeIncubating, IncomingDecided, Goto,
                 Typed, Accounted, AccountedInv
        <4> QED BY <1>1, <1>2, <1>3, <3>1, <3>3, <4>1 DEF AccountedInv, Contracts, Outgoing
      <3> QED BY <3>2, <3>3, Zenon
    <2> QED BY <1>5, <2>1, <2>2, Zenon DEF ResolverStep
  <1> QED BY <1>4, <1>5, Zenon

\* Steps that leave the close alone, or leave StateContractClosed.
LEMMA CloseFrame ==
    ASSUME CloseKnown, UNCHANGED <<kind, pendingSigned, conf, closed>>,
           trigger' \in {trigger, "chain", "user"},
           pc' \in {"commitset", "mark"} => pc' = pc,
           dbState' = "ContractClosed" =>
              /\ dbState = "ContractClosed" /\ pc' \in {"advance", "insert", "launched"}
              /\ pc' = "advance" => pc = "advance" /\ trigger' = trigger
    PROVE  CloseKnown'
  BY Zenon DEF CloseKnown, Reachable, CloseTriggers

\* The attendant's writes of a close event, and its reaction to the trigger.
LEMMA AttendantClose ==
    ASSUME AnswersInv, CloseOrder, CloseKnown, AttendantStep
    PROVE  CloseKnown'
  <1>1. CASE StepDefault \/ StepBroadcastCommit \/ CommitBroadcast \/ StepCommitmentBroadcasted
    <2>1. UNCHANGED <<kind, pendingSigned, conf, closed>>
      BY <1>1, Zenon DEF StepDefault, StepBroadcastCommit, CommitBroadcast, StepCommitmentBroadcasted,
                  channel, chain, closing
    <2>2. /\ trigger' \in {trigger, "chain"} /\ pc' \in {"idle", "advance", "broadcast"}
          /\ dbState' # "ContractClosed"
      BY <1>1, Zenon DEF StepDefault, StepBroadcastCommit, CommitBroadcast, StepCommitmentBroadcasted,
                  Return, CommitState, AnswersInv, Typed
    <2> QED BY <2>1, <2>2, CloseFrame, Zenon
  <1>2. CASE StepOnClose
    <2>1. /\ UNCHANGED <<kind, pendingSigned, conf, closed, trigger>>
          /\ trigger \in CloseTriggers /\ pc' = "advance"
          /\ dbState' \in {"FullyResolved", "ContractClosed"}
          /\ trigger = "coop" => dbState' = "FullyResolved"
      BY <1>2, Zenon DEF StepOnClose, CommitState, channel, chain, closing
    <2>2. dbState' = "ContractClosed" => conf \in Commits \cup {"breach"}
      BY <2>1, Zenon DEF CloseKnown, CloseTriggers, Commits
    <2> QED BY <2>1, <2>2, Zenon DEF CloseKnown, Reachable
  <1>3. CASE StepContractClosed \/ InsertUnresolvedContracts \/ CommitWaiting
    <2>1. UNCHANGED <<kind, pendingSigned, conf, closed, trigger>>
      BY <1>3, Zenon DEF StepContractClosed, InsertUnresolvedContracts, CommitWaiting, channel, chain, closing
    <2>2. /\ pc' \in {"advance", "insert", "launched"}
          /\ pc' = "advance" => dbState' # "ContractClosed"
          /\ dbState' = "ContractClosed" => dbState = "ContractClosed"
      BY <1>3, Zenon DEF StepContractClosed, InsertUnresolvedContracts, CommitWaiting, CommitState
    <2> QED BY <2>1, <2>2, CloseFrame, Zenon
  <1>4. CASE StepWaitingFullResolution \/ StepFullyResolved
    <2>1. UNCHANGED <<kind, pendingSigned, conf, closed>>
      BY <1>4, Zenon DEF StepWaitingFullResolution, StepFullyResolved, channel, chain, closing
    <2>2. /\ trigger' \in {trigger, "chain"} /\ pc' \in {"idle", "advance", "stopping"}
          /\ dbState' # "ContractClosed"
      BY <1>4, Zenon DEF StepWaitingFullResolution, StepFullyResolved, Return, CommitState, AnswersInv, Typed
    <2> QED BY <2>1, <2>2, CloseFrame, Zenon
  <1>5. CASE WipeHistory
    <2>1. UNCHANGED <<kind, pendingSigned, conf, closed, trigger, dbState>> /\ pc' = "stopped"
          /\ pc = "stopping"
      BY <1>5, Zenon DEF WipeHistory, channel, chain
    <2>2. dbState # "ContractClosed"
      BY <2>1, Zenon DEF CloseKnown
    <2> QED BY <2>1, <2>2, CloseFrame, Zenon
  <1>6. CASE LogContractResolutions \/ InsertConfirmedCommitSet
    <2>1. /\ UNCHANGED <<kind, pendingSigned, conf, closed, trigger, dbState>>
          /\ pc' \in {"commitset", "mark"} /\ pc \in {"idle", "commitset"}
      BY <1>6, Zenon DEF LogContractResolutions, InsertConfirmedCommitSet, channel, chain
    <2>2. conf \in Commits \cup {"breach"}
      BY <1>6, Zenon DEF LogContractResolutions, InsertConfirmedCommitSet, CloseKnown
    <2> QED BY <2>1, <2>2, Zenon DEF CloseKnown, Reachable
  <1>7. CASE MarkChannelClosed
    <2>1. /\ UNCHANGED <<kind, pendingSigned, conf, dbState>> /\ pc \in {"mark", "idle"}
          /\ closed' = IF conf = "pending" THEN "remote" ELSE conf
          /\ trigger' = closed' /\ pc' = "advance"
      BY <1>7, Zenon DEF MarkChannelClosed, Advance, channel, chain
    <2> QED BY <2>1, Zenon DEF CloseKnown, Reachable
  <1>8. ASSUME NEW c \in Contracts, ResolutionSignal(c) PROVE CloseKnown'
    <2>1. /\ UNCHANGED <<kind, pendingSigned, conf, closed, dbState>> /\ trigger' = "chain"
          /\ pc' = "advance" /\ pc = "idle"
      BY <1>8, Zenon DEF ResolutionSignal, Advance, channel, chain, closing
    <2> QED BY <2>1, CloseFrame, Zenon DEF CloseKnown
  <1> QED BY <1>1, <1>2, <1>3, <1>4, <1>5, <1>6, <1>7, <1>8, Zenon DEF AttendantStep

\* Whatever happens, a close is handled as the spend that confirmed.
LEMMA CloseKnownStep ==
    ASSUME RestartWhenClosed = FALSE, AnswersInv, CloseOrder, CloseKnown, [ArbitratorNext]_vars
    PROVE  CloseKnown'
  <1>1. CASE AttendantStep
    BY <1>1, AttendantClose, Zenon
  <1>2. ASSUME NEW c \in Contracts, ResolverStep(c) PROVE CloseKnown'
    <2>1. CASE ContractStep(c)
      BY <2>1, CloseFrame, Zenon
         DEF ContractStep, OfferOutput, CheckpointIncubating, LastSpend,
             CheckpointResolved, ResolveContract, Elsewhere, attendant, channel, chain, closing, CloseKnown
    <2>2. CASE HtlcStep(c)
      BY <2>2, CloseFrame, Zenon
         DEF HtlcStep, OutgoingContest, OutgoingClaimed, OutgoingExpires, IncomingContest,
             IncomingVerdict, IncomingExpires, PublishClaim,
             ResumeIncubating, TimeoutSpent, Elsewhere, attendant, channel, chain,
             closing, CloseKnown
    <2> QED BY <1>2, <2>1, <2>2, Zenon DEF ResolverStep
  <1>3. ASSUME NEW c \in Contracts, OurTxConfirms(c) PROVE CloseKnown'
    BY <1>3, CloseFrame, Zenon DEF OurTxConfirms, SweepConfirms, TimeoutTxConfirms, ClaimTxConfirms,
                            Spend, attendant, channel, closing, CloseKnown
  <1>4. ASSUME NEW h \in Htlcs, PeerClaims(h) \/ PeerTimesOut(h) \/ VerdictArrives(h)
        PROVE  CloseKnown'
    BY <1>4, CloseFrame, Zenon DEF PeerClaims, PeerTimesOut, VerdictArrives, Spend, attendant, channel,
                            closing, CloseKnown
  <1>5. CASE NewBlock
    BY <1>5, CloseFrame, Zenon DEF NewBlock, attendant, channel, closing, CloseKnown
  <1>6. CASE CommitmentConfirms
    <2>1. /\ conf = "none" /\ UNCHANGED <<kind, pendingSigned, closed, dbState, trigger, pc>>
          /\ conf' = "coop" => \A h \in Htlcs : kind[h].sets = {}
      BY <1>6, Zenon DEF CommitmentConfirms, attendant, channel, closing
    <2>2. closed = "open" /\ dbState # "ContractClosed" /\ pc \notin {"commitset", "mark"}
      BY <2>1, Zenon DEF AnswersInv, ConfirmedFirst
    <2> QED BY <2>1, <2>2, Zenon DEF CloseKnown, Reachable
  <1>7. CASE TakeBlock \/ ForceCloseRequest \/ PublishFails
    <2>1. UNCHANGED <<kind, pendingSigned, conf, closed>> /\ pc' \in {"idle", "advance"}
      BY <1>7, Zenon DEF TakeBlock, ForceCloseRequest, PublishFails, Advance, CommitState, channel, chain,
                  closing
    <2>2. trigger' \in {"chain", "user"} /\ dbState' # "ContractClosed"
      BY <1>7, Zenon DEF TakeBlock, ForceCloseRequest, PublishFails, Advance, CommitState, AnswersInv, Typed
    <2> QED BY <2>1, <2>2, CloseFrame, Zenon
  <1>8. CASE CrashAndRestart
    <2>1. /\ UNCHANGED <<kind, pendingSigned, conf, closed, dbState>> /\ pc' = "advance"
          /\ trigger' \in {"chain", closed} /\ dbState # "ContractClosed"
      BY <1>8, Zenon DEF CrashAndRestart, Start, channel, chain, closing
    <2> QED BY <2>1, Zenon DEF CloseKnown, Reachable, CloseTriggers
  <1>9. CASE UNCHANGED vars
    BY <1>9, CloseFrame, Zenon DEF vars, attendant, channel, chain, closing, CloseKnown
  <1>10. ASSUME NEW c \in Contracts, ResolveFails(c) PROVE CloseKnown'
    BY <1>10, CloseFrame, Zenon DEF ResolveFails, attendant, channel, chain, closing, CloseKnown
  <1> QED BY <1>1, <1>2, <1>3, <1>4, <1>5, <1>6, <1>7, <1>8, <1>9, <1>10, Zenon
          DEF ArbitratorNext

\* prepContractResolutions forgets no HTLC: one that is on any of the three
\* commitments is failed back now, or has a resolver if it has an output.
LEMMA PlanIsComplete ==
    ASSUME Typed, CloseKnown, conf \in Commits \cup {"breach"}, NEW ht, NEW up,
           NEW trig \in CloseTriggers, NEW h \in Htlcs
    PROVE  LET prep == PrepContractResolutions(ht, trig, up)
           IN  /\ Outgoing(h) /\ kind[h].sets # {} => h \in prep.fail \/ prep.make[h] # "none"
               /\ ~Outgoing(h) /\ conf \in kind[h].outs => prep.make[h] # "none"
  <1>1. /\ trig # "chain" /\ h \in Contracts
        /\ kind[h].sets \subseteq Commits /\ kind[h].outs \subseteq kind[h].sets
        /\ Outgoing(h) => ("local" \in kind[h].sets => "remote" \in kind[h].sets)
        /\ "pending" \in kind[h].sets => pendingSigned
        /\ Outgoing(h) => ("local" \in kind[h].sets /\ pendingSigned => "pending" \in kind[h].sets)
        /\ kind[h].dir \in {"in", "out"}
    BY DEF Typed, KindType, CloseKnown, Reachable, CloseTriggers, Contracts, Outgoing
  <1>2. CASE conf = "breach"
    <2>1. Outgoing(h) /\ kind[h].sets # {} => h \in BreachFails
      BY <1>1, Zenon DEF BreachFails, On, Commits
    <2>2. conf \notin kind[h].outs
      BY <1>1, <1>2, Zenon DEF Commits
    <2> QED BY <1>2, <2>1, <2>2, Zenon DEF PrepContractResolutions
  <1>3. CASE conf # "breach"
    <2> DEFINE act == ConstructChainActions(ht, trig, up)
    <2>1. /\ Outgoing(h) /\ kind[h].sets # {} => act[h] \in {"failNow", "timeout", "watch"}
          /\ ~Outgoing(h) /\ conf \in kind[h].outs => act[h] = "watch"
      <3>1. CASE conf = "local"
        BY <1>1, <3>1, Zenon DEF ConstructChainActions, CheckLocalChainActions, RemoteDangling,
                          CheckCommitChainActions, On, Output, Commits
      <3>2. CASE conf = "remote"
        BY <1>1, <3>2, Zenon DEF ConstructChainActions, CheckRemoteChainActions, RemoteDiff,
                          CheckCommitChainActions, On, Output, Commits
      <3>3. CASE conf = "pending"
        BY <1>1, <3>3, Zenon DEF ConstructChainActions, CheckRemoteChainActions, RemoteDiff,
                          CheckCommitChainActions, On, Output, Commits
      <3> QED BY <1>3, <3>1, <3>2, <3>3, Zenon DEF Commits
    <2> HIDE DEF act
    <2>2. PrepContractResolutions(ht, trig, up) =
            [fail |-> {g \in Htlcs : act[g] = "failNow"},
             make |-> [c \in Contracts |-> IF c \in Htlcs THEN ResolverFor(act[c])
                                           ELSE IF c = "commit" /\ hasCommit THEN "final"
                                           ELSE "none"]]
      BY <1>3, Zenon DEF PrepContractResolutions, act
    <2>3. act[h] \in {"timeout", "watch"} => ResolverFor(act[h]) # "none"
      BY Zenon DEF ResolverFor
    <2> QED BY <1>1, <2>1, <2>2, <2>3
  <1> QED BY <1>2, <1>3, Zenon

\* The attendant's steps keep the HTLCs accounted for.
LEMMA AttendantAccounted ==
    ASSUME AnswersInv, CloseOrder, CloseKnown, AccountedInv, AttendantStep
    PROVE  AccountedInv'
  <1> USE DEF AnswersInv
  <1>1. UNCHANGED <<kind, conf, height, verdict, spent, swept>> /\ height <= height
    <2>1. UNCHANGED <<channel, chain>>
      <3>1. CASE \/ StepDefault \/ StepBroadcastCommit \/ CommitBroadcast
                 \/ StepCommitmentBroadcasted \/ StepOnClose \/ StepContractClosed
        BY <3>1, Zenon DEF StepDefault, StepBroadcastCommit, CommitBroadcast,
                    StepCommitmentBroadcasted, StepOnClose, StepContractClosed
      <3>2. CASE \/ InsertUnresolvedContracts \/ CommitWaiting \/ StepWaitingFullResolution
                 \/ StepFullyResolved \/ WipeHistory
        BY <3>2, Zenon DEF InsertUnresolvedContracts, CommitWaiting, StepWaitingFullResolution,
                    StepFullyResolved, WipeHistory
      <3>3. CASE \/ LogContractResolutions \/ InsertConfirmedCommitSet \/ MarkChannelClosed
                 \/ \E c \in Contracts : ResolutionSignal(c)
        BY <3>3, Zenon DEF LogContractResolutions, InsertConfirmedCommitSet, MarkChannelClosed,
                    ResolutionSignal
      <3> QED BY <3>1, <3>2, <3>3, Zenon DEF AttendantStep
    <2> QED BY <2>1 DEF channel, chain, AccountedInv
  <1>2. height \in Nat /\ verdict \in [Htlcs -> {"unknown", "preimage", "refused"}]
    BY Zenon DEF AccountedInv
  <1>3. CASE StepDefault \/ StepBroadcastCommit \/ CommitBroadcast \/ StepCommitmentBroadcasted
    <2>1. UNCHANGED <<told, contracts, fullyClosed, plan>> /\ pc' \notin {"insert", "launched"}
      BY <1>3, Zenon DEF StepDefault, StepBroadcastCommit, CommitBroadcast, StepCommitmentBroadcasted,
                  Return, CommitState, closing, resolvers
    <2>2. /\ dbState' \notin {"WaitingFullResolution", "FullyResolved"}
          /\ dbState \notin {"WaitingFullResolution", "FullyResolved"}
      BY <1>3, Zenon DEF StepDefault, StepBroadcastCommit, CommitBroadcast, StepCommitmentBroadcasted,
                  CommitState, Typed, CreatedOnce
    <2>3. \A h \in Htlcs : rpc'[h] \in {rpc[h], "off", "resolve"}
      BY <1>3, Zenon DEF StepDefault, StepBroadcastCommit, CommitBroadcast, StepCommitmentBroadcasted,
                  Return, RelaunchResolvers, Contracts, resolvers
    <2>4. ~fullyClosed
      BY <2>2, Zenon DEF AccountedInv
    <2> QED BY <1>1, <1>2, <2>1, <2>2, <2>3, <2>4, AccountedFrame, Zenon
  <1>4. CASE StepOnClose
    <2>1. /\ UNCHANGED <<told, contracts, rpc, fullyClosed, plan>> /\ pc' = "advance"
          /\ dbState \notin {"WaitingFullResolution", "FullyResolved"}
          /\ trigger \in CloseTriggers
          /\ dbState' = "FullyResolved" => trigger = "coop" \/ (trigger = "breach" /\ ~logged)
          /\ dbState' \in {"ContractClosed", "FullyResolved"}
      BY <1>4, Zenon DEF StepOnClose, CommitState, closing, resolvers, Typed
    <2>2. dbState' = "FullyResolved" => \A h \in Htlcs : kind[h].sets = {}
      BY <2>1, Zenon DEF CloseKnown, CloseOrder, ClosedIsRecoverable, CloseTriggers
    <2>3. dbState' = "FullyResolved" => \A h \in Htlcs : Accounted(h)
      BY <2>2, Zenon DEF Accounted, Typed
    <2>4. ~fullyClosed
      BY <2>1, Zenon DEF AccountedInv
    <2> QED BY <1>1, <1>2, <2>1, <2>3, <2>4, AccountedFrame, Zenon
  <1>5. CASE StepContractClosed
    <2>1. /\ UNCHANGED <<contracts, rpc, fullyClosed>> /\ dbState = "ContractClosed"
          /\ pc = "advance" /\ trigger \in CloseTriggers /\ conf \in Commits \cup {"breach"}
      BY <1>5, Zenon DEF StepContractClosed, closing, Typed, CloseKnown
    <2>2. ~fullyClosed
      BY <2>1, Zenon DEF AccountedInv
    <2>3. CASE NothingToResolve
      <3>1. dbState' = "FullyResolved" /\ pc' = "advance" /\ UNCHANGED <<plan, told>>
        BY <1>5, <2>3, Zenon DEF StepContractClosed, CommitState
      <3>2. \A h \in Htlcs : Accounted(h)
        BY <2>3, Zenon DEF NothingToResolve, Accounted, Typed
      <3> QED BY <1>1, <1>2, <2>1, <2>2, <3>1, <3>2, AccountedFrame, Zenon
    <2>4. CASE ~NothingToResolve
      <3>1. PICK up \in BOOLEAN :
                LET prep == PrepContractResolutions(trigHeight, trigger, up) IN
                /\ told' = [h \in Htlcs |-> IF h \in prep.fail
                                            THEN told[h] \cup {"fail"} ELSE told[h]]
                /\ plan' = prep.make
                /\ pc' = "insert"
                /\ UNCHANGED <<dbState, state>>
        BY <1>5, <2>4, Zenon DEF StepContractClosed
      <3>2. ASSUME NEW h \in Htlcs PROVE plan'[h] # "none" \/ Accounted(h)'
        <4>1. /\ Outgoing(h) /\ kind[h].sets # {} => "fail" \in told'[h] \/ plan'[h] # "none"
              /\ ~Outgoing(h) /\ conf \in kind[h].outs => plan'[h] # "none"
          BY <2>1, <3>1, PlanIsComplete, Zenon
        <4> QED BY <1>1, <4>1, Zenon DEF Accounted, Outgoing
      <3>3. \A h \in Htlcs : told[h] \subseteq told'[h]
        BY <3>1, Zenon
      <3> QED BY <1>1, <1>2, <2>1, <2>2, <3>1, <3>2, <3>3, AccountedFrame, Zenon
    <2> QED BY <2>3, <2>4, Zenon
  <1>6. CASE InsertUnresolvedContracts
    <2>1. /\ UNCHANGED <<told, fullyClosed, dbState>> /\ pc = "insert" /\ pc' = "launched"
          /\ contracts' = [c \in Contracts |-> IF plan[c] = "none" THEN contracts[c]
                                                                   ELSE plan[c]]
          /\ rpc' = [c \in Contracts |-> IF plan[c] = "none" THEN "off" ELSE "resolve"]
      BY <1>6, Zenon DEF InsertUnresolvedContracts, closing
    <2>2. /\ dbState = "ContractClosed" /\ contracts = NoPlan
          /\ plan \in [Contracts -> {"none", "contest", "final"}]
      BY <2>1, Zenon DEF CreatedOnce, Untouched, Typed
    <2>3. \A h \in Htlcs : Accounted(h) => Accounted(h)'
      BY <1>1, <1>2, <2>1, AccountedStable, Zenon
    <2>4. \A h \in Htlcs : /\ plan[h] # "none" => contracts'[h] # "none"
                           /\ contracts'[h] # "done" /\ rpc'[h] \in {"off", "resolve"}
      BY <2>1, <2>2, Zenon DEF Contracts, NoPlan
    <2> QED BY <1>1, <1>2, <2>1, <2>2, <2>3, <2>4, Zenon DEF AccountedInv
  <1>7. CASE CommitWaiting
    <2>1. /\ UNCHANGED <<told, contracts, rpc, fullyClosed, plan>>
          /\ pc = "launched" /\ pc' = "advance" /\ dbState' = "WaitingFullResolution"
      BY <1>7, Zenon DEF CommitWaiting, CommitState, closing, resolvers
    <2>2. ~fullyClosed
      BY <2>1, Zenon DEF AccountedInv, CreatedOnce
    <2> QED BY <1>1, <1>2, <2>1, <2>2, AccountedFrame, Zenon
  <1>8. CASE StepWaitingFullResolution
    <2>1. /\ UNCHANGED <<told, contracts, fullyClosed, plan>> /\ pc' \in {"idle", "advance"}
          /\ dbState = "WaitingFullResolution"
          /\ \A h \in Htlcs : rpc'[h] \in {rpc[h], "off", "resolve"}
      BY <1>8, Zenon DEF StepWaitingFullResolution, Return, RelaunchResolvers, CommitState, closing,
                  Contracts, Typed
    <2>2. dbState' = "FullyResolved" => \A h \in Htlcs : contracts[h] = "none"
      BY <1>8, <2>1, Zenon DEF StepWaitingFullResolution, Contracts
    <2>3. ~fullyClosed
      BY <2>1, Zenon DEF AccountedInv
    <2>4. dbState' = "FullyResolved" => \A h \in Htlcs : Accounted(h)
      BY <2>1, <2>2, Zenon DEF AccountedInv
    <2> QED BY <1>1, <1>2, <2>1, <2>3, <2>4, AccountedFrame, Zenon
  <1>9. CASE StepFullyResolved
    <2>1. /\ UNCHANGED <<told, contracts, plan, dbState>> /\ pc' = "stopping"
          /\ dbState = "FullyResolved" /\ rpc' = AllOff
      BY <1>9, Zenon DEF StepFullyResolved, Typed
    <2>2. \A h \in Htlcs : rpc'[h] = "off"
      BY <2>1, Zenon DEF AllOff, Contracts
    <2> QED BY <1>1, <1>2, <2>1, <2>2, AccountedFrame, Zenon
  <1>10. CASE WipeHistory \/ LogContractResolutions \/ InsertConfirmedCommitSet \/ MarkChannelClosed
    <2>1. /\ UNCHANGED <<told, contracts, rpc, plan, dbState, fullyClosed>>
          /\ pc' \notin {"insert", "launched"}
      BY <1>10, Zenon DEF WipeHistory, LogContractResolutions, InsertConfirmedCommitSet,
                   MarkChannelClosed, Advance, resolvers
    <2> QED BY <1>1, <1>2, <2>1, AccountedFrame, Zenon DEF AccountedInv
  <1>11. ASSUME NEW c \in Contracts, ResolutionSignal(c) PROVE AccountedInv'
    <2>1. /\ UNCHANGED <<told, contracts, plan, dbState, fullyClosed>>
          /\ pc' = "advance" /\ rpc' = [rpc EXCEPT ![c] = "off"]
      BY <1>11, Zenon DEF ResolutionSignal, Advance, closing
    <2>2. \A h \in Htlcs : rpc'[h] \in {rpc[h], "off"}
      BY <2>1, Zenon DEF Typed, Contracts
    <2> QED BY <1>1, <1>2, <2>1, <2>2, AccountedFrame, Zenon DEF AccountedInv
  <1> QED BY <1>3, <1>4, <1>5, <1>6, <1>7, <1>8, <1>9, <1>10, <1>11, Zenon DEF AttendantStep

\* The HTLCs stay accounted for, whatever happens.
LEMMA AccountedStep ==
    ASSUME RestartWhenClosed = FALSE, AnswersInv, CloseOrder, CloseKnown, AccountedInv,
           [ArbitratorNext]_vars
    PROVE  AccountedInv'
  <1> USE DEF AnswersInv
  <1>2. height \in Nat /\ verdict \in [Htlcs -> {"unknown", "preimage", "refused"}]
        /\ height <= height
    BY DEF AccountedInv
  <1>3. CASE AttendantStep
    BY <1>3, AttendantAccounted, Zenon
  <1>4. ASSUME NEW c \in Contracts, ResolverStep(c) PROVE AccountedInv'
    BY <1>4, ResolverAccounted, Zenon
  <1>5. ASSUME NEW c \in Contracts, SweepConfirms(c) PROVE AccountedInv'
    <2>1. UNCHANGED <<kind, conf, height, verdict, spent, fullyClosed, dbState, pc, plan, contracts,
                      rpc, told>>
      BY <1>5, Zenon DEF SweepConfirms, attendant, channel, closing, resolvers
    <2>2. \A h \in Htlcs : h \in swept' => h \in swept \/ spent[h] # "no"
      BY <1>5, ArbitratorAssumption, Zenon DEF SweepConfirms
    <2> QED BY <1>2, <2>1, <2>2, AccountedFrame, Zenon DEF AccountedInv
  <1>6. ASSUME NEW h \in Htlcs, NEW how \in {"preimage", "timeout", "ours", "peer"}, Spend(h, how)
        PROVE  AccountedInv'
    <2>1. UNCHANGED <<kind, conf, height, verdict, swept, fullyClosed, dbState, pc, plan, contracts,
                      rpc, told>>
      BY <1>6, Zenon DEF Spend, attendant, channel, closing, resolvers
    <2>2. \A g \in Htlcs : spent[g] # "no" => spent'[g] # "no"
      BY <1>6, Zenon DEF Spend, Typed
    <2> QED BY <1>2, <2>1, <2>2, AccountedFrame, Zenon DEF AccountedInv
  <1>7. ASSUME NEW h \in Htlcs, VerdictArrives(h) PROVE AccountedInv'
    <2>1. UNCHANGED <<kind, conf, height, spent, swept, fullyClosed, dbState, pc, plan, contracts,
                      rpc, told>>
      BY <1>7, Zenon DEF VerdictArrives, attendant, channel, closing, resolvers
    <2>2. /\ verdict' \in [Htlcs -> {"unknown", "preimage", "refused"}]
          /\ \A g \in Htlcs : verdict[g] = "refused" => verdict'[g] = "refused"
      BY <1>2, <1>7, Zenon DEF VerdictArrives
    <2> QED BY <1>2, <2>1, <2>2, AccountedFrame, Zenon DEF AccountedInv
  <1>8. CASE NewBlock
    <2>1. UNCHANGED <<kind, conf, verdict, spent, swept, fullyClosed, dbState, pc, plan, contracts,
                      rpc, told>>
      BY <1>8, Zenon DEF NewBlock, attendant, channel, closing, resolvers
    <2>2. height' \in Nat /\ height <= height'
      BY <1>2, <1>8 DEF NewBlock
    <2> QED BY <1>2, <2>1, <2>2, AccountedFrame, Zenon DEF AccountedInv
  <1>9. CASE CommitmentConfirms
    <2>1. /\ UNCHANGED <<kind, height, verdict, spent, swept, fullyClosed, dbState, pc, plan,
                         contracts, rpc, told>>
          /\ conf = "none"
      BY <1>9, Zenon DEF CommitmentConfirms, attendant, channel, closing, resolvers
    <2>2. /\ dbState \in {"Default", "BroadcastCommit", "CommitmentBroadcasted"}
          /\ pc \notin {"insert", "launched"} /\ contracts = NoPlan /\ rpc = AllOff
      BY <2>1, Zenon DEF ConfirmedFirst, CreatedOnce, Untouched, Typed, States
    <2>3. \A h \in Htlcs : rpc[h] = "off" /\ contracts[h] = "none"
      BY <2>2, Zenon DEF AllOff, NoPlan, Contracts
    <2> QED BY <2>1, <2>2, <2>3, Zenon DEF AccountedInv
  <1>10. CASE TakeBlock \/ ForceCloseRequest \/ PublishFails
    <2>1. UNCHANGED <<kind, conf, height, verdict, spent, swept, fullyClosed, plan, contracts, rpc,
                      told>>
      BY <1>10, Zenon DEF TakeBlock, ForceCloseRequest, PublishFails, channel, chain, closing, resolvers
    <2>2. /\ pc' \in {"advance", "idle"} /\ dbState' = "BroadcastCommit"
          /\ dbState \in {"Default", "BroadcastCommit"}
      BY <1>10, Zenon DEF TakeBlock, ForceCloseRequest, PublishFails, CommitState, Typed
    <2> QED BY <1>2, <2>1, <2>2, AccountedFrame, Zenon DEF AccountedInv
  <1>11. CASE CrashAndRestart
    <2>1. /\ UNCHANGED <<kind, conf, height, verdict, spent, swept, fullyClosed, contracts, told,
                         dbState>>
          /\ pc' = "advance" /\ rpc' = AllOff
      BY <1>11, Zenon DEF CrashAndRestart, Start, channel, chain, closing
    <2>2. \A h \in Htlcs : rpc'[h] = "off"
      BY <2>1, Zenon DEF AllOff, Contracts
    <2> QED BY <1>2, <2>1, <2>2, AccountedFrame, Zenon DEF AccountedInv
  <1>12. CASE UNCHANGED vars
    <2>1. UNCHANGED <<kind, conf, height, verdict, spent, swept, fullyClosed, dbState, pc, plan,
                      contracts, rpc, told>>
      BY <1>12, Zenon DEF vars, channel, chain, closing, attendant, resolvers
    <2> QED BY <1>2, <2>1, AccountedFrame, Zenon DEF AccountedInv
  <1>13. ASSUME NEW c \in Contracts, OurTxConfirms(c) PROVE AccountedInv'
    BY <1>5, <1>6, <1>13, Zenon DEF OurTxConfirms, TimeoutTxConfirms, ClaimTxConfirms
  <1>14. ASSUME NEW h \in Htlcs, PeerClaims(h) \/ PeerTimesOut(h) PROVE AccountedInv'
    BY <1>6, <1>14, Zenon DEF PeerClaims, PeerTimesOut
  <1>15. ASSUME NEW c \in Contracts, ResolveFails(c) PROVE AccountedInv'
    <2>1. /\ UNCHANGED <<kind, conf, height, verdict, spent, swept, fullyClosed, dbState, pc, plan,
                         contracts, told>>
          /\ rpc' = [rpc EXCEPT ![c] = "failed"]
      BY <1>15, Zenon DEF ResolveFails, Goto, channel, chain, closing, attendant
    <2>2. \A h \in Htlcs : rpc'[h] \in {rpc[h], "failed"}
      BY <2>1, Zenon DEF Typed, Contracts
    <2> QED BY <1>2, <2>1, <2>2, AccountedFrame, Zenon DEF AccountedInv
  <1> QED BY <1>3, <1>4, <1>7, <1>8, <1>9, <1>10, <1>11, <1>12, <1>13, <1>14, <1>15, Zenon
          DEF ArbitratorNext

\* For every set of HTLCs, of any kinds, and any restarts outside
\* StateContractClosed: a channel is only given up as resolved when every HTLC on
\* any of its commitments is accounted for (constructChainActions, the resolvers).
THEOREM AccountedTheorem ==
    ASSUME RestartWhenClosed = FALSE
    PROVE  ArbitratorSpec => []EveryHtlcAccounted
  <1>1. ArbitratorInit => AnswersInv /\ CloseOrder /\ CloseKnown /\ AccountedInv
    <2> SUFFICES ASSUME ArbitratorInit
                 PROVE  AnswersInv /\ CloseOrder /\ CloseKnown /\ AccountedInv
      OBVIOUS
    <2>1. CloseOrder
      BY DEF ArbitratorInit, CloseOrder, ClosedIsRecoverable
    <2>2. CloseKnown
      BY ArbitratorAssumption, Zenon DEF ArbitratorInit, CloseKnown, CloseTriggers
    <2>3. AccountedInv
      BY Zenon DEF ArbitratorInit, AccountedInv, NoPlan, AllOff, Contracts
    <2> QED BY <2>1, <2>2, <2>3, AnswersInvInit, Zenon
  <1>2. /\ AnswersInv /\ CloseOrder /\ CloseKnown /\ AccountedInv
        /\ [ArbitratorNext]_vars
        => AnswersInv' /\ CloseOrder' /\ CloseKnown' /\ AccountedInv'
    BY AnswersInvStep, CloseOrderStep, CloseKnownStep, AccountedStep, Zenon
  <1>3. AccountedInv => EveryHtlcAccounted
    BY Zenon DEF AccountedInv, EveryHtlcAccounted, Accounted
  <1> QED BY <1>1, <1>2, <1>3, PTL DEF ArbitratorSpec
=============================================================================
