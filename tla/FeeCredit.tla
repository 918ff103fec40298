------------------------------ MODULE FeeCredit ------------------------------
(***************************************************************************)
(* The credit arithmetic of src/src/utils/fee-credit.util.ts, which every  *)
(* path that marks a fee bill paid goes through.                           *)
(*                                                                         *)
(* Amounts are whole paisa (1/100 of a rupee), what roundMoney leaves of a *)
(* number: it rounds to two decimals and turns NaN and infinities into 0.  *)
(* An amount 0 stands for every request that roundMoney takes to 0: a      *)
(* missing amount, and a positive one below half a paisa.                  *)
(* pastDue is "dueDate is set and before today in Nepal".                  *)
(***************************************************************************)
EXTENDS Integers

FeeStatus == {"PENDING", "PARTIALLY_PAID", "PAID", "OVERDUE", "CANCELLED"}

Lesser(a, b) == IF a < b THEN a ELSE b
AtLeastZero(a) == IF a > 0 THEN a ELSE 0

(* What a bill asks for once its discount is taken off.                    *)
NetPayable(totalPayable, discount) == AtLeastZero(totalPayable - discount)

(* feeOutstandingAmount, for a total already net of the discount.          *)
Outstanding(total, paid) == AtLeastZero(total - paid)

PaymentStatus(status, total, paid, pastDue) ==
  LET received == AtLeastZero(paid)
      owed == Outstanding(total, received)
  IN  IF status = "CANCELLED" THEN "CANCELLED"
      ELSE IF owed = 0 /\ total > 0 THEN "PAID"
      ELSE IF pastDue /\ owed > 0 THEN "OVERDUE"
      ELSE IF received > 0 THEN "PARTIALLY_PAID" ELSE "PENDING"

Finalize(total, paid, credited, pastDue) ==
  [paidAmount |-> paid,
   outstandingAmount |-> Outstanding(total, paid),
   status |-> PaymentStatus("PENDING", total, paid, pastDue),
   credited |-> credited]

(* The amount clamped to what is owed; 0 settles the whole bill.           *)
CreditUnclamped(amount, owed) == IF amount > 0 THEN amount ELSE owed
Credit(amount, owed) == IF amount > 0 THEN Lesser(amount, owed) ELSE owed

ApplyPaymentAnyway(total, paid, status, amount, pastDue) ==
  LET credit == Credit(amount, Outstanding(total, paid))
  IN  Finalize(total, paid + credit, credit, pastDue)
ApplyPayment(total, paid, status, amount, pastDue) ==
  LET already == Lesser(AtLeastZero(paid), total)
      owed == Outstanding(total, already)
      credit == Credit(amount, owed)
  IN  IF status = "CANCELLED"
        THEN [paidAmount |-> already, outstandingAmount |-> owed,
              status |-> "CANCELLED", credited |-> 0]
      ELSE IF status = "PAID"
        THEN [paidAmount |-> total, outstandingAmount |-> 0,
              status |-> "PAID", credited |-> owed]
      ELSE Finalize(total, already + credit, credit, pastDue)
=============================================================================
