---------------------------- MODULE MC_FeeLedger ----------------------------
(***************************************************************************)
(* FeeLedger with one bill of 2 paisa that carries 1 of earlier dues.      *)
(***************************************************************************)
EXTENDS FeeLedger, FiniteSetsExt, TLC

MCPayable == [i \in Fees |-> 2]
MCCarriedDue == [i \in Fees |-> 1]
MCSymmetry == Permutations(Jobs)

PaidOn(i) == MapThenSumSet(LAMBDA p : p.amount, {p \in payments : p.invoice = i})

(* Crediting an approved proof is "idempotent" (applyApprovedProofToFee),  *)
(* "just re-syncs the fee ledger" (reviewProof): with no manual payment, a *)
(* bill is never credited more than the payment rows say.                  *)
NoMoneyFromNothing == \A i \in Fees : fees[i].paidAmount <= PaidOn(i)
=============================================================================
