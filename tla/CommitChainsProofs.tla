------------------------- MODULE CommitChainsProofs -------------------------
(***************************************************************************)
(* The promise of the commitment dance holds for any bound on heights:     *)
(* IInv is inductive, and chains that overlap are what makes every         *)
(* message, however late, fit the party that reads it.                     *)
(***************************************************************************)
EXTENDS CommitChains, TLAPS

\* Peer is an involution without fixed points that, with p, covers Party.
LEMMA PeerFacts ==
    ASSUME NEW p \in Party
    PROVE  /\ Peer(p) \in Party
           /\ Peer(p) # p
           /\ Peer(Peer(p)) = p
           /\ \A q \in Party : q = p \/ q = Peer(p)
<1>1. PICK a \in Party, b \in Party : a # b /\ Party = {a, b}
  BY TwoParties, Zenon
<1>2. \A q \in Party : Peer(q) \in Party /\ Peer(q) # q
  <2>. TAKE q \in Party
  <2>1. \E r \in Party : r # q
    BY <1>1, Zenon
  <2>. QED
    BY <2>1, Zenon DEF Peer
<1>. QED
  BY <1>1, <1>2, Zenon

\* The initial heights and empty wires satisfy the invariant.
LEMMA InitIInv == Init => IInv
<1>. SUFFICES ASSUME Init PROVE IInv
  OBVIOUS
<1>1. \A p \in Party : Peer(p) \in Party
  BY PeerFacts, Zenon
<1>. QED
  BY <1>1, Zenon DEF Init, IInv, TypeOK, ChainsOverlap, InFlightFits

\* A party that has signed nothing ahead knows the peer's height exactly.
LEMMA NotPending ==
    ASSUME IInv, NEW p \in Party, ~pending[p]
    PROVE  local[Peer(p)] = remote[p]
BY Zenon DEF IInv, ChainsOverlap

\* SignNextCommitment preserves the invariant.
LEMMA SignIInv ==
    ASSUME IInv, NEW p \in Party, Sign(p)
    PROVE  IInv'
<1>. DEFINE q == Peer(p)
<1>1. q \in Party /\ q # p /\ Peer(q) = p /\ \A r \in Party : r = p \/ r = q
  BY PeerFacts, Zenon
<1>2. local[q] = remote[p]
  BY NotPending, Zenon DEF Sign
<1>3. TypeOK'
  BY <1>1 DEF IInv, TypeOK, Sign, Adding, NextSig
<1>4. ChainsOverlap'
  BY <1>1, Zenon DEF IInv, TypeOK, ChainsOverlap, Sign
<1>5. InFlightFits'
  BY <1>1, <1>2 DEF IInv, TypeOK, InFlightFits, Sign, Adding, NextSig, ChanSyncMsg
<1>. QED
  BY <1>3, <1>4, <1>5, Zenon DEF IInv

\* Accepting a signature, revoking, and perhaps signing preserve the invariant.
LEMMA ReceiveSigIInv ==
    ASSUME IInv, NEW p \in Party, NEW h \in sigs[p], NEW signs \in BOOLEAN,
           ReceiveSig(p, h, signs)
    PROVE  IInv'
<1>. DEFINE q == Peer(p)
<1>1. q \in Party /\ q # p /\ Peer(q) = p /\ \A r \in Party : r = p \/ r = q
  BY PeerFacts, Zenon
<1>3. TypeOK'
  BY <1>1 DEF IInv, TypeOK, InFlightFits, Adding, Listening, NextSig, ReceiveSig
<1>4. ChainsOverlap'
  BY <1>1 DEF IInv, TypeOK, ChainsOverlap, InFlightFits, Adding, Listening, NextSig, ReceiveSig
<1>5. InFlightFits'
  BY <1>1 DEF IInv, TypeOK, ChainsOverlap, InFlightFits, ChanSyncMsg, Adding, Listening, NextSig, ReceiveSig
<1>. QED
  BY <1>3, <1>4, <1>5, Zenon DEF IInv

\* Accepting a revocation, and perhaps signing, preserve the invariant.
LEMMA ReceiveRevIInv ==
    ASSUME IInv, NEW p \in Party, NEW h \in revs[p], NEW signs \in BOOLEAN,
           ReceiveRev(p, h, signs)
    PROVE  IInv'
<1>. DEFINE q == Peer(p)
<1>1. q \in Party /\ q # p /\ Peer(q) = p /\ \A r \in Party : r = p \/ r = q
  BY PeerFacts, Zenon
<1>3. TypeOK'
  BY <1>1 DEF IInv, TypeOK, InFlightFits, Adding, Listening, NextSig, ReceiveRev
<1>4. ChainsOverlap'
  BY <1>1 DEF IInv, TypeOK, ChainsOverlap, InFlightFits, Adding, Listening, NextSig, ReceiveRev
<1>5. InFlightFits'
  BY <1>1 DEF IInv, TypeOK, ChainsOverlap, InFlightFits, ChanSyncMsg, Adding, Listening, NextSig, ReceiveRev
<1>. QED
  BY <1>3, <1>4, <1>5, Zenon DEF IInv

\* Answering a ChannelReestablish preserves the invariant.
LEMMA SyncIInv ==
    ASSUME IInv, NEW p \in Party, NEW m \in syncs[p], NEW signs \in BOOLEAN,
           Sync(p, m, signs)
    PROVE  IInv'
<1>. DEFINE q == Peer(p)
<1>1. q \in Party /\ q # p /\ Peer(q) = p /\ \A r \in Party : r = p \/ r = q
  BY PeerFacts, Zenon
<1>3. TypeOK'
  BY <1>1 DEF IInv, TypeOK, InFlightFits, Adding, Listening, NextSig, Sync, InSync, Tip
<1>4. ChainsOverlap'
  BY <1>1 DEF IInv, TypeOK, ChainsOverlap, InFlightFits, Adding, Listening, NextSig, Sync, InSync, Tip
<1>5. InFlightFits'
  BY <1>1 DEF IInv, TypeOK, ChainsOverlap, InFlightFits, ChanSyncMsg, Adding, Listening, NextSig, Sync, InSync, Tip
<1>. QED
  BY <1>3, <1>4, <1>5, Zenon DEF IInv

\* Losing a link preserves the invariant.
LEMMA DisconnectIInv ==
    ASSUME IInv, NEW p \in Party, Disconnect(p)
    PROVE  IInv'
<1>. DEFINE q == Peer(p)
<1>1. q \in Party /\ q # p /\ Peer(q) = p /\ \A r \in Party : r = p \/ r = q
  BY PeerFacts, Zenon
<1>3. TypeOK'
  BY <1>1, Zenon DEF IInv, TypeOK, InFlightFits, Disconnect, Listening
<1>4. ChainsOverlap'
  BY <1>1, Zenon DEF IInv, TypeOK, ChainsOverlap, InFlightFits, Disconnect, Listening
<1>5. InFlightFits'
  BY <1>1 DEF IInv, TypeOK, ChainsOverlap, InFlightFits, ChanSyncMsg, Disconnect, Listening
<1>. QED
  BY <1>3, <1>4, <1>5, Zenon DEF IInv

\* Stopping between revoking and signing preserves the invariant.
LEMMA StopAfterRevokeIInv ==
    ASSUME IInv, NEW p \in Party, NEW h \in sigs[p], StopAfterRevoke(p, h)
    PROVE  IInv'
<1>. DEFINE q == Peer(p)
<1>1. q \in Party /\ q # p /\ Peer(q) = p /\ \A r \in Party : r = p \/ r = q
  BY PeerFacts, Zenon
<1>3. TypeOK'
  BY <1>1 DEF IInv, TypeOK, InFlightFits, StopAfterRevoke, Adding, Listening
<1>4. ChainsOverlap'
  BY <1>1 DEF IInv, TypeOK, ChainsOverlap, InFlightFits, StopAfterRevoke, Adding, Listening
<1>5. InFlightFits'
  BY <1>1 DEF IInv, TypeOK, ChainsOverlap, InFlightFits, ChanSyncMsg, StopAfterRevoke, Adding, Listening
<1>. QED
  BY <1>3, <1>4, <1>5, Zenon DEF IInv

\* Stopping after a revocation is stored preserves the invariant.
LEMMA StopAfterRevocationIInv ==
    ASSUME IInv, NEW p \in Party, NEW h \in revs[p], StopAfterRevocation(p, h)
    PROVE  IInv'
<1>. DEFINE q == Peer(p)
<1>1. q \in Party /\ q # p /\ Peer(q) = p /\ \A r \in Party : r = p \/ r = q
  BY PeerFacts, Zenon
<1>3. TypeOK'
  BY <1>1 DEF IInv, TypeOK, InFlightFits, StopAfterRevocation
<1>4. ChainsOverlap'
  BY <1>1 DEF IInv, TypeOK, ChainsOverlap, InFlightFits, StopAfterRevocation
<1>5. InFlightFits'
  BY <1>1 DEF IInv, TypeOK, ChainsOverlap, InFlightFits, ChanSyncMsg, StopAfterRevocation
<1>. QED
  BY <1>3, <1>4, <1>5, Zenon DEF IInv

\* Reconnecting preserves the invariant.
LEMMA ReconnectIInv ==
    ASSUME IInv, Reconnect
    PROVE  IInv'
<1>1. \A p \in Party : Peer(p) \in Party
  BY PeerFacts, Zenon
<1>2. TypeOK'
  BY <1>1 DEF IInv, TypeOK, Reconnect, ChanSyncMsg
<1>3. ChainsOverlap'
  BY Zenon DEF IInv, ChainsOverlap, Reconnect
<1>4. InFlightFits'
  BY <1>1, Zenon DEF IInv, TypeOK, InFlightFits, Reconnect, ChanSyncMsg
<1>. QED
  BY <1>2, <1>3, <1>4, Zenon DEF IInv

\* The invariant is inductive.
LEMMA NextIInv == IInv /\ [Next]_vars => IInv'
<1>. SUFFICES ASSUME IInv, [Next]_vars PROVE IInv'
  OBVIOUS
<1>1. CASE UNCHANGED vars
  BY <1>1, Zenon DEF vars, IInv, TypeOK, ChainsOverlap, InFlightFits, ChanSyncMsg
<1>2. CASE Reconnect
  BY <1>2, ReconnectIInv, Zenon
<1>3. ASSUME NEW p \in Party, Sign(p) PROVE IInv'
  BY <1>3, SignIInv, Zenon
<1>4. ASSUME NEW p \in Party, NEW h \in sigs[p], NEW signs \in BOOLEAN,
             ReceiveSig(p, h, signs)
      PROVE  IInv'
  BY <1>4, ReceiveSigIInv, Zenon
<1>5. ASSUME NEW p \in Party, NEW h \in revs[p], NEW signs \in BOOLEAN,
             ReceiveRev(p, h, signs)
      PROVE  IInv'
  BY <1>5, ReceiveRevIInv, Zenon
<1>6. ASSUME NEW p \in Party, NEW m \in syncs[p], NEW signs \in BOOLEAN,
             Sync(p, m, signs)
      PROVE  IInv'
  BY <1>6, SyncIInv, Zenon
<1>7. ASSUME NEW p \in Party, Disconnect(p) PROVE IInv'
  BY <1>7, DisconnectIInv, Zenon
<1>8. ASSUME NEW p \in Party, NEW h \in sigs[p], StopAfterRevoke(p, h) PROVE IInv'
  BY <1>8, StopAfterRevokeIInv, Zenon
<1>9. ASSUME NEW p \in Party, NEW h \in revs[p], StopAfterRevocation(p, h) PROVE IInv'
  BY <1>9, StopAfterRevocationIInv, Zenon
<1>. QED
  BY <1>1, <1>2, <1>3, <1>4, <1>5, <1>6, <1>7, <1>8, <1>9, Zenon DEF Next

\* Every reachable state satisfies the inductive invariant.
LEMMA Invariance == Spec => []IInv
<1>. QED
  BY InitIInv, NextIInv, PTL DEF Spec

\* Overlapping chains and fitting messages leave no handler a wrong height.
LEMMA IInvNoMismatch == IInv => NoHeightMismatch
<1>. SUFFICES ASSUME IInv, NEW p \in Party
              PROVE  /\ link[p] = "up" =>
                            /\ \A h \in sigs[p] : h = local[p] + 1
                            /\ \A h \in revs[p] : pending[p] /\ h = remote[p]
                     /\ link[p] = "sync" => \A m \in syncs[p] : InSync(p, m)
  BY Zenon DEF NoHeightMismatch
<1>1. Peer(p) \in Party /\ Peer(Peer(p)) = p
  BY PeerFacts, Zenon
<1>2. \A h \in sigs[p] : h = local[p] + 1
  BY <1>1 DEF IInv, InFlightFits
<1>3. \A h \in revs[p] : pending[p] /\ h = remote[p]
  BY Zenon DEF IInv, InFlightFits
<1>4. ASSUME NEW m \in syncs[p] PROVE InSync(p, m)
  BY <1>1, <1>4 DEF IInv, TypeOK, InFlightFits, ChainsOverlap, ChanSyncMsg, InSync, Tip
<1>. QED
  BY <1>2, <1>3, <1>4, Zenon

\* Type correctness of the commitment chains of both parties.
THEOREM TypeCorrect == Spec => []TypeOK
<1>1. IInv => TypeOK
  BY Zenon DEF IInv
<1>. QED
  BY Invariance, <1>1, PTL

\* In every reachable state each party is at most one commitment ahead of what
\* its peer has stored, and only while the peer holds that one as pending.
THEOREM ChainsAlwaysOverlap == Spec => []ChainsOverlap
<1>1. IInv => ChainsOverlap
  BY Zenon DEF IInv
<1>. QED
  BY Invariance, <1>1, PTL

\* For any number of commitments, disconnects and restarts at any point of a
\* handler, re-synchronisation succeeds and every signature and revocation is
\* for the height its receiver expects.
THEOREM ResyncIsSafe == Spec => []NoHeightMismatch
<1>. QED
  BY Invariance, IInvNoMismatch, PTL

\* A step from a state of the invariant advances heights as promised.
LEMMA StepAdvances == IInv /\ [Next]_vars => [AdvancesByOne]_vars
<1>. SUFFICES ASSUME IInv, Next, NEW p \in Party
              PROVE  /\ local'[p] # local[p] =>
                            /\ local'[p] = local[p] + 1
                            /\ pending[Peer(p)] /\ local'[p] = Tip(Peer(p))
                     /\ remote'[p] # remote[p] =>
                            remote'[p] = remote[p] + 1 /\ local[Peer(p)] = remote'[p]
  BY Zenon DEF AdvancesByOne
<1>. USE PeerFacts DEF IInv, TypeOK, InFlightFits, Tip
<1>1. CASE Reconnect
  BY <1>1, Zenon DEF Reconnect
<1>2. ASSUME NEW q \in Party,
             \/ Sign(q)
             \/ Disconnect(q)
             \/ \E m \in syncs[q], signs \in BOOLEAN : Sync(q, m, signs)
      PROVE  UNCHANGED <<local, remote>>
  BY <1>2, Zenon DEF Sign, Disconnect, Sync
<1>3. ASSUME NEW q \in Party, NEW h \in sigs[q],
             \/ \E signs \in BOOLEAN : ReceiveSig(q, h, signs)
             \/ StopAfterRevoke(q, h)
      PROVE  /\ local' = [local EXCEPT ![q] = h]
             /\ remote' = remote
             /\ h = local[q] + 1 /\ pending[Peer(q)] /\ h = Tip(Peer(q))
  BY <1>3, Zenon DEF ReceiveSig, StopAfterRevoke
<1>4. ASSUME NEW q \in Party, NEW h \in revs[q],
             \/ \E signs \in BOOLEAN : ReceiveRev(q, h, signs)
             \/ StopAfterRevocation(q, h)
      PROVE  /\ remote' = [remote EXCEPT ![q] = h + 1]
             /\ local' = local
             /\ h = remote[q] /\ local[Peer(q)] = h + 1
  BY <1>4, Zenon DEF ReceiveRev, StopAfterRevocation
<1>. QED
  BY <1>1, <1>2, <1>3, <1>4 DEF Next

\* No step of any behaviour moves a chain otherwise: a revoked commitment is
\* never taken up again and an unsigned one is never revoked for.
THEOREM HeightsOnlyAdvance == Spec => HeightsAdvance
<1>. QED
  BY Invariance, StepAdvances, PTL DEF Spec, HeightsAdvance
=============================================================================
