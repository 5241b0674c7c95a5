---------------------------- MODULE MCPaymentFlow ----------------------------
(***************************************************************************)
(* Instances of PaymentFlow for TLC.                                       *)
(***************************************************************************)
EXTENDS PaymentFlow

\* Attempt IDs count up from 1, session 1 is the one a restart resumes.
MCAttempts == 1..2
MCSessions == {1}
=============================================================================
