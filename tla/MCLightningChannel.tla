------------------------ MODULE MCLightningChannel ------------------------
(* Instances of LightningChannel for TLC. *)
EXTENDS LightningChannel

CONSTANTS Alice, Bob

MCParty == {Alice, Bob}

MCBalance == (Alice :> 20) @@ (Bob :> 10)

MCNoReserve == [p \in MCParty |-> 0]

MCNoDust == [p \in MCParty |-> 0]

MCFreeSize == [commit |-> 0, htlc |-> 0, success |-> 0, timeout |-> 0]

MCLimit == [minHtlc |-> 1, maxPending |-> 100, maxAccepted |-> 2, feeFloor |-> 0]

MCTightLimit == [minHtlc |-> 2, maxPending |-> 5, maxAccepted |-> 1, feeFloor |-> 0]

MCReserve == (Alice :> 14) @@ (Bob :> 4)

MCDust == (Alice :> 2) @@ (Bob :> 3)

MCSize == [commit |-> 1, htlc |-> 1, success |-> 1, timeout |-> 2]

\* Bounds on offered HTLCs.
MCOneEach == [p \in MCParty |-> 1]

MCTwoAndOne == (Alice :> 2) @@ (Bob :> 1)

=============================================================================
