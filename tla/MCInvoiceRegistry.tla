-------------------------- MODULE MCInvoiceRegistry --------------------------
(***************************************************************************)
(* Instances of InvoiceRegistry for TLC.                                   *)
(***************************************************************************)
EXTENDS InvoiceRegistry

\* Two HTLCs to an invoice of two units: sets that complete, overpay or stay
\* incomplete all happen.
MCKeys == 1..2
=============================================================================
