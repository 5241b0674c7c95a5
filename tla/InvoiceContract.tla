--------------------------- MODULE InvoiceContract ---------------------------
(***************************************************************************)
(* What a receiving node promises for one invoice, whatever happens inside *)
(* it: it claims at most one set of HTLCs, one that pays the invoice's     *)
(* value exactly, it settles the HTLCs of that set and no others, and      *)
(* fails the rest.  InvoiceRegistry is shown to implement this, and        *)
(* PaymentFlow puts it at the far end of a payment.                        *)
(***************************************************************************)
EXTENDS Integers, Functions

CONSTANTS Keys, Value

VARIABLES htlc, htlcAmt, claimed

Total(S) == SumFunction(Restrict(htlcAmt, S))

Pending == {k \in Keys : htlc[k] = "offered"}

\* The decision: the preimage is released for the HTLCs of S.
Claim(S) ==
    /\ claimed = {}
    /\ S \subseteq Pending
    /\ Total(S) = Value
    /\ claimed' = S
    /\ UNCHANGED <<htlc, htlcAmt>>

\* The answers that one commitment carries to the peer.
AnswerHtlcs(S) ==
    /\ S \subseteq Pending
    /\ htlc' = [k \in Keys |-> IF k \notin S THEN htlc[k]
                               ELSE IF k \in claimed THEN "settled"
                               ELSE "failed"]
    /\ UNCHANGED <<htlcAmt, claimed>>

ContractInit == claimed = {}

\* The receiver's steps.
ContractStep ==
    \/ \E S \in SUBSET Keys : Claim(S)
    \/ \E S \in SUBSET Keys : AnswerHtlcs(S)
=============================================================================
