---------------------------- MODULE CommitChains ----------------------------
(***************************************************************************)
(* What the commitment dance of a channel promises, with everything left   *)
(* out but commitment heights: each party stores the height of its own     *)
(* commitment and of the peer's last revoked-up-to one, may have signed    *)
(* one commitment ahead of it, and after a reconnection both compare       *)
(* heights and send again what the other missed.                           *)
(*                                                                         *)
(* The messages towards a party are sets: the promise does not depend on   *)
(* their order, except that nothing is read before ChannelReestablish.     *)
(* LightningChannel implements this specification.                         *)
(***************************************************************************)
EXTENDS Integers

CONSTANTS Party,        \* the two peers
          MaxHeight     \* bound: the highest commitment that is signed

ASSUME TwoParties == \E a, b \in Party : a # b /\ Party = {a, b}

ASSUME MaxHeightAssumption == MaxHeight \in Nat

VARIABLES
    local,      \* local[p]: height of p's own stored commitment
    remote,     \* remote[p]: height of the peer's commitment p knows unrevoked
    pending,    \* pending[p]: p has stored a commitment diff above remote[p]
    link,       \* "down", "sync" (reestablishing) or "up"
    sigs,       \* sigs[p]: heights of the commitment signatures in flight to p
    revs,       \* revs[p]: heights whose revocation is in flight to p
    syncs       \* syncs[p]: the ChannelReestablish messages in flight to p

vars == <<local, remote, pending, link, sigs, revs, syncs>>

Peer(p) == CHOOSE q \in Party : q # p

Tip(p) == IF pending[p] THEN remote[p] + 1 ELSE remote[p]

Init ==
    /\ local = [p \in Party |-> 0]
    /\ remote = [p \in Party |-> 0]
    /\ pending = [p \in Party |-> FALSE]
    /\ link = [p \in Party |-> "up"]
    /\ sigs = [p \in Party |-> {}]
    /\ revs = [p \in Party |-> {}]
    /\ syncs = [p \in Party |-> {}]

Listening(p) == link[p] \in {"sync", "up"}

\* A message towards p: lost when p's link is not running.
Adding(inFlight, p, msgs) ==
    [inFlight EXCEPT ![p] = IF Listening(p) THEN @ \cup msgs ELSE @]

\* The height of the next commitment, if p signs one now.
NextSig(p, tail, signs) == IF signs THEN {tail + 1} ELSE {}

MaySign(p, tail, signs) == signs => tail < MaxHeight

\* SignNextCommitment: store the diff and send the signature, unless the peer
\* still has to revoke the one before.
Sign(p) ==
    /\ link[p] = "up"
    /\ ~pending[p]
    /\ MaySign(p, remote[p], TRUE)
    /\ pending' = [pending EXCEPT ![p] = TRUE]
    /\ sigs' = Adding(sigs, Peer(p), NextSig(p, remote[p], TRUE))
    /\ UNCHANGED <<local, remote, link, revs, syncs>>

\* Mutant: the new commitment is revoked instead of the one before it.
ReceiveSigRevokesNew(p, h, signs) ==
    /\ link[p] = "up"
    /\ h \in sigs[p]
    /\ h = local[p] + 1
    /\ ~signs
    /\ local' = [local EXCEPT ![p] = h]
    /\ sigs' = [sigs EXCEPT ![p] = @ \ {h}]
    /\ revs' = Adding(revs, Peer(p), {h})
    /\ UNCHANGED <<remote, pending, link, syncs>>

\* ReceiveNewCommitment and RevokeCurrentCommitment; the handler then signs if
\* it owes a commitment and may.
ReceiveSig(p, h, signs) ==
    /\ link[p] = "up"
    /\ h \in sigs[p]
    /\ h = local[p] + 1
    /\ signs => ~pending[p]
    /\ MaySign(p, remote[p], signs)
    /\ local' = [local EXCEPT ![p] = h]
    /\ pending' = [pending EXCEPT ![p] = @ \/ signs]
    /\ sigs' = [Adding(sigs, Peer(p), NextSig(p, remote[p], signs))
                    EXCEPT ![p] = @ \ {h}]
    /\ revs' = Adding(revs, Peer(p), {h - 1})
    /\ UNCHANGED <<remote, link, syncs>>

\* Mutant: the commitment that is signed at once counts as revoked for, too.
ReceiveRevSkips(p, h, signs) ==
    /\ link[p] = "up"
    /\ h \in revs[p]
    /\ pending[p] /\ h = remote[p]
    /\ MaySign(p, h + 1, signs)
    /\ remote' = [remote EXCEPT ![p] = IF signs THEN h + 2 ELSE h + 1]
    /\ pending' = [pending EXCEPT ![p] = signs]
    /\ sigs' = Adding(sigs, Peer(p), NextSig(p, h + 1, signs))
    /\ revs' = [revs EXCEPT ![p] = @ \ {h}]
    /\ UNCHANGED <<local, link, syncs>>

\* ReceiveRevocation; the handler then signs if it owes a commitment.
ReceiveRev(p, h, signs) ==
    /\ link[p] = "up"
    /\ h \in revs[p]
    /\ pending[p] /\ h = remote[p]
    /\ MaySign(p, h + 1, signs)
    /\ remote' = [remote EXCEPT ![p] = h + 1]
    /\ pending' = [pending EXCEPT ![p] = signs]
    /\ sigs' = Adding(sigs, Peer(p), NextSig(p, h + 1, signs))
    /\ revs' = [revs EXCEPT ![p] = @ \ {h}]
    /\ UNCHANGED <<local, link, syncs>>

\* The heights in a ChannelReestablish that ProcessChanSyncMsg can work with.
InSync(p, m) ==
    /\ m.tail = local[p] \/ m.tail + 1 = local[p]
    /\ m.next = Tip(p) + 1 \/ (m.next = Tip(p) /\ m.next > remote[p])

\* ProcessChanSyncMsg: send the last revocation again if the peer missed it
\* (and then sign if a commitment is owed), and the pending commitment if the
\* peer missed that.
Sync(p, m, signs) ==
    /\ link[p] = "sync"
    /\ m \in syncs[p]
    /\ InSync(p, m)
    /\ signs => m.tail + 1 = local[p] /\ ~pending[p]
    /\ MaySign(p, remote[p], signs)
    /\ link' = [link EXCEPT ![p] = "up"]
    /\ syncs' = [syncs EXCEPT ![p] = @ \ {m}]
    /\ pending' = [pending EXCEPT ![p] = @ \/ signs]
    /\ revs' = Adding(revs, Peer(p),
                      IF m.tail + 1 = local[p] THEN {local[p] - 1} ELSE {})
    /\ sigs' = Adding(sigs, Peer(p),
                      IF m.next = Tip(p) THEN {Tip(p)} ELSE NextSig(p, remote[p], signs))
    /\ UNCHANGED <<local, remote>>

\* p stops with nothing but its stored heights; unread messages are lost.
Disconnect(p) ==
    /\ Listening(p)
    /\ link' = [link EXCEPT ![p] = "down"]
    /\ sigs' = [sigs EXCEPT ![p] = {}]
    /\ revs' = [revs EXCEPT ![p] = {}]
    /\ syncs' = [syncs EXCEPT ![p] = {}]
    /\ UNCHANGED <<local, remote, pending>>

\* p stops inside the handler of a signature, having revoked.
StopAfterRevoke(p, h) ==
    /\ link[p] = "up"
    /\ h \in sigs[p]
    /\ h = local[p] + 1
    /\ local' = [local EXCEPT ![p] = h]
    /\ link' = [link EXCEPT ![p] = "down"]
    /\ sigs' = [sigs EXCEPT ![p] = {}]
    /\ revs' = [Adding(revs, Peer(p), {h - 1}) EXCEPT ![p] = {}]
    /\ syncs' = [syncs EXCEPT ![p] = {}]
    /\ UNCHANGED <<remote, pending>>

\* Mutant: the diff is removed before the commitment it holds is stored.
StopBetweenWrites(p, h) ==
    /\ link[p] = "up"
    /\ h \in revs[p]
    /\ pending[p] /\ h = remote[p]
    /\ pending' = [pending EXCEPT ![p] = FALSE]
    /\ link' = [link EXCEPT ![p] = "down"]
    /\ sigs' = [sigs EXCEPT ![p] = {}]
    /\ revs' = [revs EXCEPT ![p] = {}]
    /\ syncs' = [syncs EXCEPT ![p] = {}]
    /\ UNCHANGED <<local, remote>>

\* p stops inside the handler of a revocation, having stored it.
StopAfterRevocation(p, h) ==
    /\ link[p] = "up"
    /\ h \in revs[p]
    /\ pending[p] /\ h = remote[p]
    /\ remote' = [remote EXCEPT ![p] = h + 1]
    /\ pending' = [pending EXCEPT ![p] = FALSE]
    /\ link' = [link EXCEPT ![p] = "down"]
    /\ sigs' = [sigs EXCEPT ![p] = {}]
    /\ revs' = [revs EXCEPT ![p] = {}]
    /\ syncs' = [syncs EXCEPT ![p] = {}]
    /\ UNCHANGED local

ChanSyncMsg(p) == [next |-> local[p] + 1, tail |-> remote[p]]

\* Both connect again and send their heights.
Reconnect ==
    /\ \A p \in Party : link[p] = "down"
    /\ link' = [p \in Party |-> "sync"]
    /\ sigs' = [p \in Party |-> {}]
    /\ revs' = [p \in Party |-> {}]
    /\ syncs' = [p \in Party |-> {ChanSyncMsg(Peer(p))}]
    /\ UNCHANGED <<local, remote, pending>>

Next ==
    \/ \E p \in Party :
        \/ Sign(p)
        \/ \E h \in sigs[p], signs \in BOOLEAN : ReceiveSig(p, h, signs)
        \/ \E h \in revs[p], signs \in BOOLEAN : ReceiveRev(p, h, signs)
        \/ \E m \in syncs[p], signs \in BOOLEAN : Sync(p, m, signs)
        \/ Disconnect(p)
        \/ \E h \in sigs[p] : StopAfterRevoke(p, h)
        \/ \E h \in revs[p] : StopAfterRevocation(p, h)
    \/ Reconnect

Spec == Init /\ [][Next]_vars

-----------------------------------------------------------------------------
(* Properties.                                                             *)

\* Type invariant.
TypeOK ==
    /\ local \in [Party -> Nat]
    /\ remote \in [Party -> Nat]
    /\ pending \in [Party -> BOOLEAN]
    /\ link \in [Party -> {"down", "sync", "up"}]
    /\ sigs \in [Party -> SUBSET Nat]
    /\ revs \in [Party -> SUBSET Nat]
    /\ syncs \in [Party -> SUBSET [next : Nat, tail : Nat]]

\* A party is never more than one commitment ahead of what its peer has stored
\* about it, and only ahead while the peer has that commitment pending: so the
\* peer can always be brought up to date by one revocation.
ChainsOverlap ==
    \A p \in Party :
        \/ local[Peer(p)] = remote[p]
        \/ local[Peer(p)] = remote[p] + 1 /\ pending[p]

\* Between honest peers ProcessChanSyncMsg never reports data loss or chains
\* that cannot be synced, and no signature or revocation that arrives is for a
\* wrong height, wherever either party stopped: each of these fails the link.
NoHeightMismatch ==
    \A p \in Party :
        /\ link[p] = "up" => /\ \A h \in sigs[p] : h = local[p] + 1
                             /\ \A h \in revs[p] : pending[p] /\ h = remote[p]
        /\ link[p] = "sync" => \A m \in syncs[p] : InSync(p, m)

\* What is in flight is exactly what the receiver is waiting for.
InFlightFits ==
    \A p \in Party :
        /\ \A h \in sigs[p] : /\ pending[Peer(p)] /\ h = remote[Peer(p)] + 1
                              /\ local[p] = remote[Peer(p)]
        /\ \A h \in revs[p] : /\ pending[p] /\ h = remote[p]
                              /\ local[Peer(p)] = remote[p] + 1
        /\ \A m \in syncs[p] : m = ChanSyncMsg(Peer(p))
        /\ syncs[p] # {} => link[p] = "sync"
        /\ link[p] = "sync" => sigs[Peer(p)] = {} /\ revs[Peer(p)] = {}

\* The inductive invariant of the safety proof.
IInv == TypeOK /\ ChainsOverlap /\ InFlightFits

\* Heights only grow, by one at a time, and a party's own commitment advances
\* only onto one its peer has stored as signed: what has been revoked is never
\* taken up again.
AdvancesByOne ==
    \A p \in Party :
        /\ local'[p] # local[p] =>
              local'[p] = local[p] + 1 /\ pending[Peer(p)] /\ local'[p] = Tip(Peer(p))
        /\ remote'[p] # remote[p] =>
              remote'[p] = remote[p] + 1 /\ local[Peer(p)] = remote'[p]

\* No step does otherwise.
HeightsAdvance == [][AdvancesByOne]_vars
=============================================================================
