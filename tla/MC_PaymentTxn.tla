---------------------------- MODULE MC_PaymentTxn ----------------------------
(***************************************************************************)
(* PaymentTxn with two invoices of 2 and 3 paisa.                          *)
(***************************************************************************)
EXTENDS PaymentTxn, TLC

CONSTANTS i1, i2

MCPayable == (i1 :> 3) @@ (i2 :> 2)
MCCarriedDue == (i1 :> 1) @@ (i2 :> 0)
MCSymmetry == Permutations(Requests)
=============================================================================
