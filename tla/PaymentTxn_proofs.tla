-------------------------- MODULE PaymentTxn_proofs --------------------------
(***************************************************************************)
(* For any number of invoices, requests and keys, and any amounts: the     *)
(* transaction of recordPayment keeps its rows typed and balanced, pays    *)
(* nothing twice, and implements the atomic ledger.                        *)
(***************************************************************************)
EXTENDS PaymentTxn, Amounts_proofs

USE InvoicesAssumption, AmountsAssumption
  DEF InvoicesAssumption, AmountsAssumption

LEMMA CreditedRowType ==
  ASSUME TypeOK, NEW i \in Invoices, NEW row \in FeeRow, NEW amount \in Amounts,
         row.paidAmount <= Payable[i]
  PROVE  CreditedRow(i, row, amount) \in FeeRow
<1> DEFINE result == ApplyPayment(Payable[i], row.paidAmount, row.status, amount,
                                  pastDue[i])
<1>1. /\ Payable[i] \in Nat /\ row.paidAmount \in 0 .. Payable[i]
      /\ row.status \in FeeStatus /\ amount \in Nat /\ pastDue[i] \in BOOLEAN
  <2>1. row.paidAmount \in 0 .. Payable[i] /\ row.status \in FeeStatus
    BY DEF FeeRow
  <2>2. pastDue[i] \in BOOLEAN
    BY DEF TypeOK
  <2>3. QED BY <2>1, <2>2
<1>2. /\ result.paidAmount \in row.paidAmount .. Payable[i]
      /\ result.outstandingAmount = Payable[i] - result.paidAmount
      /\ result.status \in FeeStatus
  BY <1>1, ApplyPaymentBalances
<1> HIDE DEF result
<1>3. /\ result.paidAmount \in Nat /\ result.outstandingAmount \in Nat
      /\ row.dueAmount \in Nat
  BY <1>1, <1>2 DEF FeeRow
<1>4. QED BY <1>2, <1>3 DEF CreditedRow, FeeRow, result

(* A payment within what is owed on an open bill is credited in full, and  *)
(* leaves a row that adds up.                                              *)
LEMMA CreditedRowSettled ==
  ASSUME TypeOK, NEW i \in Invoices, NEW row \in FeeRow, NEW amount \in Amounts,
         Settled(i, row), row.status # "CANCELLED",
         row.paidAmount + amount <= Payable[i]
  PROVE  /\ Settled(i, CreditedRow(i, row, amount))
         /\ CreditedRow(i, row, amount).paidAmount = row.paidAmount + amount
<1> DEFINE total == Payable[i]
           paid == row.paidAmount
           result == ApplyPayment(total, paid, row.status, amount, pastDue[i])
<1>1. /\ total \in Nat \ {0} /\ paid \in Nat /\ amount \in Nat \ {0}
      /\ paid + amount <= total
      /\ row.status \in FeeStatus \ {"CANCELLED"} /\ pastDue[i] \in BOOLEAN
  BY DEF TypeOK, FeeRow
<1>2. row.status # "PAID"
  BY <1>1 DEF Settled
<1> HIDE DEF total, paid
<1>3. Credit(amount, total - paid) = amount
  BY <1>1 DEF Credit, Lesser
<1>4. result = Finalize(total, paid + amount, amount, pastDue[i])
  BY <1>1, <1>2, <1>3, ApplyToOpenBill
<1>5. /\ result.paidAmount = paid + amount
      /\ result.outstandingAmount = total - (paid + amount)
      /\ result.status = "PAID" <=> paid + amount = total
  BY <1>1, <1>4, FinalizeBalances
<1> HIDE DEF result
<1>6. total - (paid + amount) = 0 <=> paid + amount = total
  BY <1>1
<1>7. QED BY <1>1, <1>5, <1>6 DEF CreditedRow, Settled, result, total, paid

-----------------------------------------------------------------------------
LEMMA InitIInv == Init => IInv
<1> SUFFICES ASSUME Init PROVE IInv
  OBVIOUS
<1>1. TypeOK
  BY DEF Init, TypeOK, FeeRow, FeeStatus, Txn, Stages, InTransaction, Answered
<1>2. RowsSettled
  BY DEF Init, RowsSettled, Settled
<1>3. /\ RowLocked /\ RowCurrent /\ NoRepeatInFlight /\ PaymentsByRequest
      /\ NothingPaidTwice
  BY DEF Init, RowLocked, RowCurrent, NoRepeatInFlight, PaymentsByRequest,
         NothingPaidTwice, InTransaction
<1>4. QED BY <1>1, <1>2, <1>3 DEF IInv

(* Every step that ends a transaction without writing: its lock is released *)
(* and nothing else moves.                                                 *)
Ends(r, stage) ==
  /\ txn[r].stage \in InTransaction
  /\ stage \in {"duplicate", "refused", "failed"}
  /\ GoTo(r, stage)
  /\ UNCHANGED <<fees, payments, pastDue>>

LEMMA EndsStep ==
  ASSUME IInv, NEW r \in Requests, NEW stage, Ends(r, stage)
  PROVE  IInv'
<1> USE DEF Ends, GoTo, IInv
<1>1. TypeOK'
  BY DEF TypeOK, Txn, Stages, InTransaction, Answered
<1>2. \A q \in Requests : /\ txn'[q].payment = txn[q].payment
                          /\ txn'[q].row = txn[q].row
                          /\ q # r => txn'[q] = txn[q]
  BY DEF TypeOK
<1>3. txn'[r].stage = stage
  BY DEF TypeOK, Txn
<1>4. RowsSettled'
  BY DEF RowsSettled, Settled
<1>5. RowLocked'
  BY <1>2, <1>3 DEF RowLocked, Holds, Invoice, InTransaction
<1>6. RowCurrent'
  BY <1>2, <1>3 DEF RowCurrent, Settled, Invoice
<1>7. NoRepeatInFlight'
  BY <1>2, <1>3 DEF NoRepeatInFlight, Invoice, KeyTaken, KeyInFlight
<1>8. PaymentsByRequest' /\ NothingPaidTwice'
  BY <1>2, <1>3
  DEF PaymentsByRequest, NothingPaidTwice, TypeOK, PaymentRow, InTransaction
<1>9. QED BY <1>1, <1>4, <1>5, <1>6, <1>7, <1>8

-----------------------------------------------------------------------------
LEMMA ReceiveStep ==
  ASSUME IInv, NEW r \in Requests, Receive(r)
  PROVE  IInv'
<1>1. PICK p \in PaymentRow :
        /\ p.request = r
        /\ txn' = [txn EXCEPT ![r].stage = "received", ![r].payment = p]
  BY DEF PaymentRow, Receive
<1>2. /\ txn'[r] = [stage |-> "received", payment |-> p, row |-> txn[r].row]
      /\ txn'[r].stage = "received" /\ txn'[r].payment = p
      /\ \A q \in Requests : q # r => txn'[q] = txn[q]
  BY <1>1 DEF IInv, TypeOK, Txn
<1>3. UNCHANGED <<fees, payments, pastDue>>
  BY DEF Receive
<1>4. TypeOK'
  <2>1. txn'[r] \in Txn
    BY <1>2 DEF IInv, TypeOK, Txn, Stages
  <2>2. txn' \in [Requests -> Txn]
    BY <1>1, <1>2, <2>1 DEF IInv, TypeOK
  <2>3. QED BY <1>2, <1>3, <2>2 DEF IInv, TypeOK, InTransaction
<1>5. RowsSettled'
  BY <1>3 DEF IInv, RowsSettled, Settled
<1>6. RowLocked'
  BY <1>2 DEF IInv, RowLocked, Holds, Invoice, InTransaction
<1>7. RowCurrent'
  <2> SUFFICES ASSUME NEW q \in Requests, txn'[q].stage \in InTransaction
               PROVE  txn'[q] = txn[q]
    BY <1>3 DEF IInv, RowCurrent, Settled, Invoice, InTransaction
  <2> QED BY <1>2 DEF InTransaction
<1>8. NoRepeatInFlight'
  <2>1. \A q \in Requests : txn'[q].stage \in InTransaction => txn'[q] = txn[q]
    BY <1>2 DEF InTransaction
  <2>2. \A q \in Requests : txn'[q].stage \in {"checked", "inserted", "saved"}
          => txn'[q] = txn[q]
    BY <2>1 DEF InTransaction
  <2>3. \A q \in Requests : txn'[q].stage \in {"inserted", "saved"}
          => txn'[q] = txn[q]
    BY <2>1 DEF InTransaction
  <2> HIDE <1>1, <1>2
  <2>4. QED BY <1>3, <2>2, <2>3
        DEF IInv, NoRepeatInFlight, Invoice, KeyTaken, KeyInFlight
<1>9. PaymentsByRequest' /\ NothingPaidTwice'
  BY <1>1, <1>2, <1>3
     DEF Receive, IInv, PaymentsByRequest, NothingPaidTwice, TypeOK, PaymentRow
<1>10. QED BY <1>4, <1>5, <1>6, <1>7, <1>8, <1>9 DEF IInv

LEMMA LockFeeStep ==
  ASSUME IInv, NEW r \in Requests, LockFee(r)
  PROVE  IInv'
<1>1. /\ txn'[r].stage = "locked" /\ txn'[r].payment = txn[r].payment
      /\ txn'[r].row = fees[Invoice(r)]
      /\ \A q \in Requests : q # r => txn'[q] = txn[q]
      /\ \A q \in Requests : txn'[q].payment = txn[q].payment
  BY DEF LockFee, IInv, TypeOK, Txn
<1>2. Invoice(r) \in Invoices
  BY DEF LockFee, IInv, TypeOK, PaymentRow, Invoice
<1>3. UNCHANGED <<fees, payments, pastDue>>
  BY DEF LockFee
<1>4. TypeOK'
  BY <1>2 DEF LockFee, IInv, TypeOK, Txn, Stages, InTransaction, Answered
<1>5. RowsSettled'
  BY <1>3 DEF IInv, RowsSettled, Settled
<1>6. RowLocked'
  <2>1. \A q \in Requests : txn[q].stage \in InTransaction => Invoice(q) # Invoice(r)
    BY DEF LockFee, Holds, Invoice
  <2>2. QED BY <1>1, <2>1 DEF IInv, RowLocked, Holds, Invoice
<1>7. RowCurrent'
  <2>1. ASSUME NEW q \in Requests, q # r
        PROVE  txn'[q] = txn[q] /\ Invoice(q)' = Invoice(q)
    BY <1>1, <2>1 DEF Invoice
  <2>2. Invoice(r)' = Invoice(r)
    BY <1>1 DEF Invoice
  <2>3. QED BY <1>1, <1>3, <2>1, <2>2 DEF IInv, RowCurrent, Settled
<1>8. NoRepeatInFlight'
  <2>1. \A q \in Requests : txn'[q].stage \in {"checked", "inserted", "saved"}
          => txn'[q] = txn[q]
    BY <1>1
  <2>2. \A q \in Requests : txn'[q].stage \in {"inserted", "saved"}
          => txn'[q] = txn[q]
    BY <1>1
  <2>3. QED BY <1>3, <2>1, <2>2
        DEF IInv, NoRepeatInFlight, Invoice, KeyTaken, KeyInFlight
<1>9. PaymentsByRequest' /\ NothingPaidTwice'
  BY <1>1, <1>3
     DEF LockFee, IInv, PaymentsByRequest, NothingPaidTwice, TypeOK, PaymentRow
<1>10. QED BY <1>4, <1>5, <1>6, <1>7, <1>8, <1>9 DEF IInv

LEMMA AcceptStep ==
  ASSUME IInv, NEW r \in Requests, Accept(r)
  PROVE  IInv'
<1> USE DEF Accept, GoTo, IInv
<1>1. /\ txn'[r].stage = "checked" /\ txn'[r].payment = txn[r].payment
      /\ txn'[r].row = txn[r].row
      /\ \A q \in Requests : q # r => txn'[q] = txn[q]
  BY DEF TypeOK, Txn
<1>2. TypeOK'
  BY DEF TypeOK, Txn, Stages, InTransaction, Answered
<1>3. RowsSettled'
  BY DEF RowsSettled, Settled
<1>4. RowLocked'
  BY <1>1 DEF RowLocked, Holds, Invoice, InTransaction
<1>5. txn[r].row.paidAmount + txn[r].payment.amount <= Payable[Invoice(r)]
  <2>1. /\ Invoice(r) \in Invoices /\ txn[r].row \in FeeRow
        /\ txn[r].payment.amount \in Nat \ {0}
    BY DEF TypeOK, PaymentRow, Invoice, InTransaction
  <2>2. txn[r].row.paidAmount \in Nat /\ Payable[Invoice(r)] \in Nat
    BY <2>1 DEF FeeRow
  <2>3. txn[r].payment.amount <= Owed(r)
    OBVIOUS
  <2>4. QED BY <2>1, <2>2, <2>3 DEF Owed, Outstanding, AtLeastZero
<1>6. RowCurrent'
  BY <1>1, <1>5 DEF RowCurrent, Settled, Invoice
<1>7. NoRepeatInFlight'
  BY <1>1 DEF NoRepeatInFlight, Invoice, KeyTaken, KeyInFlight, Repeats
<1>8. PaymentsByRequest' /\ NothingPaidTwice'
  BY <1>1 DEF PaymentsByRequest, NothingPaidTwice, TypeOK, PaymentRow
<1>9. QED BY <1>2, <1>3, <1>4, <1>6, <1>7, <1>8

LEMMA InsertPaymentStep ==
  ASSUME IInv, NEW r \in Requests, InsertPayment(r)
  PROVE  IInv'
<1>1. CASE KeyTaken(r)
  BY <1>1, EndsStep DEF InsertPayment, Ends, InTransaction
<1>2. CASE ~KeyTaken(r)
  <2> USE DEF InsertPayment, GoTo, IInv
  <2>1. /\ txn'[r].stage = "inserted" /\ txn'[r].payment = txn[r].payment
        /\ txn'[r].row = txn[r].row
        /\ \A q \in Requests : q # r => txn'[q] = txn[q]
    BY <1>2 DEF TypeOK, Txn
  <2>2. TypeOK'
    BY <1>2 DEF TypeOK, Txn, Stages, InTransaction, Answered
  <2>3. RowsSettled'
    BY DEF RowsSettled, Settled
  <2>4. RowLocked'
    BY <2>1 DEF RowLocked, Holds, Invoice, InTransaction
  <2>5. RowCurrent'
    BY <2>1 DEF RowCurrent, Settled, Invoice
  <2>6. NoRepeatInFlight'
    BY <1>2, <2>1 DEF NoRepeatInFlight, Invoice, KeyTaken, KeyInFlight
  <2>7. PaymentsByRequest' /\ NothingPaidTwice'
    BY <2>1 DEF PaymentsByRequest, NothingPaidTwice, TypeOK, PaymentRow
  <2>8. QED BY <2>2, <2>3, <2>4, <2>5, <2>6, <2>7
<1>3. QED BY <1>1, <1>2

LEMMA SaveFeeStep ==
  ASSUME IInv, NEW r \in Requests, SaveFee(r)
  PROVE  IInv'
<1> DEFINE i == Invoice(r)
           amount == txn[r].payment.amount
           row == CreditedRow(i, txn[r].row, amount)
<1> USE DEF SaveFee, IInv
<1>1. /\ i \in Invoices /\ amount \in Amounts /\ txn[r].row \in FeeRow
      /\ txn[r].row = fees[i]
      /\ txn[r].row.status # "CANCELLED"
      /\ txn[r].row.paidAmount + amount <= Payable[i]
      /\ Settled(i, txn[r].row)
  BY DEF TypeOK, PaymentRow, Invoice, InTransaction, RowCurrent, RowsSettled
<1>2. row \in FeeRow
  BY <1>1, CreditedRowType DEF Settled
<1>3. Settled(i, row) /\ row.paidAmount = fees[i].paidAmount + amount
  BY <1>1, CreditedRowSettled
<1> HIDE DEF row
<1>4. /\ txn'[r].stage = "saved" /\ txn'[r].payment = txn[r].payment
      /\ txn'[r].row = row /\ txn[r].stage = "inserted"
      /\ \A q \in Requests : q # r => txn'[q] = txn[q]
      /\ \A q \in Requests : Invoice(q)' = Invoice(q)
  BY DEF TypeOK, Txn, row, Invoice
<1>a. UNCHANGED <<fees, payments, pastDue>>
  OBVIOUS
<1> HIDE DEF SaveFee
<1> USE <1>a
<1>5. TypeOK'
  BY <1>2 DEF SaveFee, TypeOK, Txn, Stages, InTransaction, Answered, row
<1>6. RowsSettled'
  BY DEF RowsSettled, Settled
<1>7. RowLocked'
  BY <1>4 DEF RowLocked, Holds, Invoice, InTransaction
<1>8. RowCurrent'
  <2>1. ASSUME NEW q \in Requests, q # r
        PROVE  txn'[q] = txn[q] /\ Invoice(q)' = Invoice(q)
    BY <1>4, <2>1
  <2>2. Invoice(r)' = i /\ txn'[r].row = row
    BY <1>4
  <2>3. QED BY <1>3, <1>4, <2>1, <2>2 DEF RowCurrent, Settled
<1>9. NoRepeatInFlight'
  <2>1. \A q \in Requests :
          /\ txn'[q].payment = txn[q].payment
          /\ txn'[q].stage \in {"inserted", "saved"}
               <=> txn[q].stage \in {"inserted", "saved"}
          /\ txn'[q].stage \in {"checked", "inserted", "saved"}
               <=> txn[q].stage \in {"checked", "inserted", "saved"}
    BY <1>4
  <2> HIDE <1>4
  <2>2. QED BY <2>1 DEF NoRepeatInFlight, Invoice, KeyTaken, KeyInFlight
<1>10. PaymentsByRequest' /\ NothingPaidTwice'
  BY <1>4 DEF PaymentsByRequest, NothingPaidTwice, TypeOK, PaymentRow
<1>11. QED BY <1>5, <1>6, <1>7, <1>8, <1>9, <1>10

LEMMA CommitStep ==
  ASSUME IInv, NEW r \in Requests, Commit(r)
  PROVE  IInv'
<1> DEFINE i == Invoice(r)
           p == txn[r].payment
<1> USE DEF Commit, GoTo, IInv
<1>1. /\ i \in Invoices /\ p \in PaymentRow /\ txn[r].row \in FeeRow
      /\ Settled(i, txn[r].row) /\ p.request = r /\ p.invoice = i
  BY DEF TypeOK, PaymentRow, Invoice, InTransaction, RowCurrent, PaymentsByRequest
<1>2. /\ txn'[r].stage = "committed" /\ txn'[r].payment = p
      /\ \A q \in Requests : q # r => txn'[q] = txn[q]
  BY DEF TypeOK, Txn
<1>3. /\ fees' = [fees EXCEPT ![i] = txn[r].row]
      /\ payments' = payments \cup {p}
      /\ \A j \in Invoices : j # i => fees'[j] = fees[j]
      /\ fees'[i] = txn[r].row
  BY <1>1 DEF TypeOK
<1>4. TypeOK'
  BY <1>1 DEF TypeOK, Txn, Stages, InTransaction, Answered
<1>5. RowsSettled'
  BY <1>1, <1>3 DEF RowsSettled, Settled
<1>6. RowLocked'
  BY <1>2 DEF RowLocked, Holds, Invoice, InTransaction
<1>7. RowCurrent'
  <2>1. \A q \in Requests :
          q # r /\ txn[q].stage \in InTransaction => Invoice(q) \in Invoices \ {i}
    BY <1>1 DEF RowLocked, Holds, InTransaction, Invoice, TypeOK, PaymentRow
  <2>2. QED BY <1>2, <1>3, <2>1 DEF RowCurrent, Settled, Invoice, InTransaction
<1>8. NoRepeatInFlight'
  <2>1. \A q \in Requests :
          q # r /\ txn[q].stage \in InTransaction => Invoice(q) # p.invoice
    BY <1>1 DEF RowLocked, Holds, InTransaction, Invoice, TypeOK, PaymentRow
  <2>2. \A q \in Requests :
          q # r /\ txn[q].stage \in {"inserted", "saved"} /\ p.key # None
            => txn[q].payment.key # p.key
    BY DEF NoRepeatInFlight, KeyInFlight
  <2>3. QED BY <1>2, <1>3, <2>1, <2>2
        DEF NoRepeatInFlight, Invoice, KeyTaken, KeyInFlight, InTransaction
<1>9. PaymentsByRequest'
  BY <1>1, <1>2, <1>3 DEF PaymentsByRequest, TypeOK, PaymentRow
<1>10. NothingPaidTwice'
  <2>1. \A q \in payments :
          /\ q.request # r
          /\ p.key # None => q.key # p.key
          /\ p.ref # None => (q.invoice # i \/ q.ref # p.ref)
    BY <1>1 DEF PaymentsByRequest, NoRepeatInFlight, KeyTaken, Invoice
  <2>2. QED BY <1>1, <1>3, <2>1 DEF NothingPaidTwice
<1>11. QED BY <1>4, <1>5, <1>6, <1>7, <1>8, <1>9, <1>10

(* A committed payment is answered, or its answer is lost.                 *)
LEMMA AnswerStep ==
  ASSUME IInv, NEW r \in Requests, Answer(r) \/ LoseAnswer(r)
  PROVE  IInv'
<1> USE DEF GoTo, IInv
<1>1. /\ txn[r].stage = "committed"
      /\ txn' \in {[txn EXCEPT ![r].stage = "recorded"],
                   [txn EXCEPT ![r].stage = "failed"]}
      /\ UNCHANGED <<fees, payments, pastDue>>
  BY DEF Answer, LoseAnswer
<1>2. /\ txn'[r].stage \in {"recorded", "failed"}
      /\ \A q \in Requests : /\ txn'[q].payment = txn[q].payment
                             /\ txn'[q].row = txn[q].row
                             /\ q # r => txn'[q] = txn[q]
  BY <1>1 DEF TypeOK, Txn
<1>3. TypeOK'
  BY <1>1 DEF TypeOK, Txn, Stages, InTransaction, Answered
<1>4. RowsSettled'
  BY <1>1 DEF RowsSettled, Settled
<1>5. RowLocked'
  BY <1>2 DEF RowLocked, Holds, Invoice, InTransaction
<1>6. RowCurrent'
  BY <1>1, <1>2 DEF RowCurrent, Settled, Invoice
<1>7. NoRepeatInFlight'
  BY <1>1, <1>2 DEF NoRepeatInFlight, Invoice, KeyTaken, KeyInFlight
<1>8. PaymentsByRequest' /\ NothingPaidTwice'
  BY <1>1, <1>2 DEF PaymentsByRequest, NothingPaidTwice, TypeOK, PaymentRow
<1>9. QED BY <1>3, <1>4, <1>5, <1>6, <1>7, <1>8

LEMMA DueDatePassesStep ==
  ASSUME IInv, NEW i \in Invoices, DueDatePasses(i)
  PROVE  IInv'
<1>1. UNCHANGED <<fees, payments, txn>> /\ pastDue' \in [Invoices -> BOOLEAN]
  BY DEF DueDatePasses, IInv, TypeOK
<1>2. QED
  BY <1>1 DEF IInv, TypeOK, RowsSettled, Settled, RowLocked, Holds, Invoice,
              RowCurrent, NoRepeatInFlight, KeyTaken, KeyInFlight,
              PaymentsByRequest, NothingPaidTwice

LEMMA NextIInv == IInv /\ [Next]_vars => IInv'
<1> SUFFICES ASSUME IInv, [Next]_vars PROVE IInv'
  OBVIOUS
<1>1. ASSUME NEW r \in Requests, Receive(r) PROVE IInv'
  BY <1>1, ReceiveStep
<1>2. ASSUME NEW r \in Requests, LockFee(r) PROVE IInv'
  BY <1>2, LockFeeStep
<1>3. ASSUME NEW r \in Requests, RefuseCancelled(r) PROVE IInv'
  BY <1>3, EndsStep DEF RefuseCancelled, Ends, InTransaction
<1>4. ASSUME NEW r \in Requests, AnswerDuplicate(r) PROVE IInv'
  BY <1>4, EndsStep DEF AnswerDuplicate, Ends, InTransaction
<1>5. ASSUME NEW r \in Requests, RefuseAmount(r) PROVE IInv'
  BY <1>5, EndsStep DEF RefuseAmount, Ends, InTransaction
<1>6. ASSUME NEW r \in Requests, Accept(r) PROVE IInv'
  BY <1>6, AcceptStep
<1>7. ASSUME NEW r \in Requests, InsertPayment(r) PROVE IInv'
  BY <1>7, InsertPaymentStep
<1>8. ASSUME NEW r \in Requests, SaveFee(r) PROVE IInv'
  BY <1>8, SaveFeeStep
<1>9. ASSUME NEW r \in Requests, Commit(r) PROVE IInv'
  BY <1>9, CommitStep
<1>10. ASSUME NEW r \in Requests, Rollback(r) PROVE IInv'
  BY <1>10, EndsStep DEF Rollback, Ends, InTransaction
<1>a. ASSUME NEW r \in Requests, Answer(r) \/ LoseAnswer(r) PROVE IInv'
  BY <1>a, AnswerStep
<1>11. ASSUME NEW i \in Invoices, DueDatePasses(i) PROVE IInv'
  BY <1>11, DueDatePassesStep
<1>12. CASE UNCHANGED vars
  BY <1>12 DEF vars, IInv, TypeOK, RowsSettled, Settled, RowLocked, Holds, Invoice,
               RowCurrent, NoRepeatInFlight, KeyTaken, KeyInFlight,
               PaymentsByRequest, NothingPaidTwice
<1>13. QED
  BY <1>1, <1>2, <1>3, <1>4, <1>5, <1>6, <1>7, <1>8, <1>9, <1>10, <1>a, <1>11,
     <1>12
     DEF Next, Proceed

(* The invariant the others are parts of or follow from.                   *)
THEOREM Invariance == Spec => []IInv
  BY InitIInv, NextIInv, PTL DEF Spec

(* The fee rows, the payment rows and every transaction keep their types.  *)
THEOREM TypeCorrect == Spec => []TypeOK
<1>1. IInv => TypeOK
  BY DEF IInv
<1>2. QED BY <1>1, Invariance, PTL

(* No key is spent twice, nor a reference twice on one invoice, however    *)
(* many clients retry at once.                                             *)
THEOREM PaidOnce == Spec => []NothingPaidTwice
<1>1. IInv => NothingPaidTwice
  BY DEF IInv
<1>2. QED BY <1>1, Invariance, PTL

(* What a client is told of its payment is so.                             *)
THEOREM AnswersAreTrue == Spec => []AnswersHold
<1>1. IInv => AnswersHold
  BY DEF IInv, PaymentsByRequest, AnswersHold, TypeOK, PaymentRow
<1>2. QED BY <1>1, Invariance, PTL

-----------------------------------------------------------------------------
(* A sum over the payments of one invoice needs no other rows.             *)
LEMMA PaidOnIs ==
  ASSUME IsFiniteSet(payments), payments \subseteq PaymentRow, NEW i,
         NEW w, \A p \in payments : w[p] = p.amount
  PROVE  /\ PaidOn(i) = SumFunctionOnSet(w, {p \in payments : p.invoice = i})
         /\ PaidOn(i) \in Nat
<1> DEFINE rows == {p \in payments : p.invoice = i}
           amounts == [p \in payments |-> p.amount]
<1>1. IsFiniteSet(rows)
  BY FS_Subset
<1>2. \A p \in rows : w[p] \in Nat /\ amounts[p] = w[p]
  BY DEF PaymentRow
<1> HIDE DEF rows, amounts
<1>3. SumFunctionOnSet(amounts, rows) = SumFunctionOnSet(w, rows)
  BY <1>1, <1>2, SumSame
<1>4. SumFunctionOnSet(w, rows) \in Nat
  BY <1>1, <1>2, SumIsNat
<1>5. QED BY <1>3, <1>4 DEF PaidOn, rows, amounts

(* The one step that adds a payment adds its amount to its invoice.        *)
LEMMA CommitCounts ==
  ASSUME IInv, PaymentsCounted, NEW r \in Requests, Commit(r)
  PROVE  PaymentsCounted'
<1> DEFINE p == txn[r].payment
           w == [q \in payments \cup {p} |-> q.amount]
<1>1. /\ p \in PaymentRow /\ p \notin payments /\ payments \subseteq PaymentRow
      /\ p.invoice \in Invoices /\ p.amount \in Nat
  BY DEF IInv, TypeOK, PaymentsByRequest, Commit, PaymentRow
<1>2. /\ payments' = payments \cup {p}
      /\ fees' = [fees EXCEPT ![p.invoice] = txn[r].row]
      /\ txn[r].row.paidAmount = fees[p.invoice].paidAmount + p.amount
  BY DEF IInv, RowCurrent, Commit, Invoice
<1>3. IsFiniteSet(payments) /\ IsFiniteSet(payments')
  BY <1>2, FS_AddElement DEF PaymentsCounted
<1>4. payments' \subseteq PaymentRow
  BY <1>1, <1>2
<1>5. ASSUME NEW i \in Invoices PROVE fees'[i].paidAmount = PaidOn(i)'
  <2> DEFINE rows == {q \in payments : q.invoice = i}
  <2>1. PaidOn(i) = SumFunctionOnSet(w, rows) /\ fees[i].paidAmount = PaidOn(i)
    BY <1>1, <1>3, PaidOnIs DEF PaymentsCounted
  <2>2. \A q \in payments' : w[q] = q.amount
    BY <1>2
  <2>3. PaidOn(i)' = SumFunctionOnSet(w, {q \in payments' : q.invoice = i})
    <3>1. IsFiniteSet({q \in payments' : q.invoice = i})
      BY <1>3, FS_Subset
    <3>2. \A q \in {x \in payments' : x.invoice = i} :
            w[q] \in Nat /\ [x \in payments' |-> x.amount][q] = w[q]
      BY <1>4, <2>2 DEF PaymentRow
    <3> HIDE DEF w
    <3>3. QED BY <3>1, <3>2, SumSame DEF PaidOn
  <2>4. CASE i # p.invoice
    <3>1. {q \in payments' : q.invoice = i} = rows
      BY <1>2, <2>4
    <3>2. fees'[i] = fees[i]
      BY <1>1, <1>2, <2>4 DEF IInv, TypeOK
    <3>3. QED BY <2>1, <2>3, <3>1, <3>2
  <2>5. CASE i = p.invoice
    <3>1. {q \in payments' : q.invoice = i} = rows \cup {p}
      BY <1>2, <2>5
    <3>2. IsFiniteSet(rows) /\ p \notin rows
      BY <1>1, <1>3, FS_Subset
    <3>3. w[p] = p.amount /\ \A q \in rows : w[q] \in Nat
      BY <1>1 DEF PaymentRow
    <3> HIDE DEF w, rows
    <3>4. SumFunctionOnSet(w, rows \cup {p}) = p.amount + SumFunctionOnSet(w, rows)
      BY <1>1, <3>2, <3>3, SumWith
    <3>5. fees'[i] = txn[r].row
      BY <1>1, <1>2, <2>5 DEF IInv, TypeOK
    <3>6. SumFunctionOnSet(w, rows) \in Nat
      BY <3>2, <3>3, SumIsNat
    <3>7. PaidOn(i)' = p.amount + PaidOn(i)
      BY <2>1, <2>3, <3>1, <3>4
    <3> HIDE DEF p
    <3>8. fees'[i].paidAmount = PaidOn(i) + p.amount
      BY <1>2, <2>1, <2>5, <3>5
    <3>9. QED BY <1>1, <2>1, <3>6, <3>7, <3>8
  <2>6. QED BY <2>4, <2>5
<1>6. QED BY <1>3, <1>5 DEF PaymentsCounted

LEMMA NextCounts ==
  ASSUME IInv, PaymentsCounted, [Next]_vars
  PROVE  PaymentsCounted'
<1>1. ASSUME UNCHANGED <<fees, payments>> PROVE PaymentsCounted'
  BY <1>1 DEF PaymentsCounted, PaidOn
<1>2. CASE \E r \in Requests : Commit(r)
  BY <1>2, CommitCounts
<1>3. CASE ~\E r \in Requests : Commit(r)
  <2>1. UNCHANGED <<fees, payments>>
    BY <1>3 DEF Next, Proceed, Receive, LockFee, RefuseCancelled, AnswerDuplicate,
                RefuseAmount, Accept, InsertPayment, SaveFee, Answer, LoseAnswer,
                Rollback, DueDatePasses, vars
  <2>2. QED BY <1>1, <2>1
<1>4. QED BY <1>2, <1>3

(* The fee row and the payment rows never disagree.                        *)
THEOREM LedgerAddsUp == Spec => []LedgerBalanced
<1>1. Init => PaymentsCounted
  <2>1. ASSUME Init, NEW i \in Invoices
        PROVE  fees[i].paidAmount = 0 /\ PaidOn(i) = 0
    <3> DEFINE rows == {p \in payments : p.invoice = i}
    <3>1. rows = {} /\ fees[i].paidAmount = 0
      BY <2>1 DEF Init
    <3> HIDE DEF rows
    <3>2. QED BY <3>1, SumEmpty DEF PaidOn, rows
  <2>2. Init => IsFiniteSet(payments)
    BY FS_EmptySet DEF Init
  <2>3. QED BY <2>1, <2>2 DEF PaymentsCounted
<1>2. PaymentsCounted /\ IInv /\ IInv' /\ [Next]_vars => PaymentsCounted'
  BY NextCounts
<1>3. PaymentsCounted /\ IInv => LedgerBalanced
  BY DEF PaymentsCounted, IInv, RowsSettled, Settled, LedgerBalanced
<1>4. QED BY <1>1, <1>2, <1>3, Invariance, PTL DEF Spec

-----------------------------------------------------------------------------
(* The commit is the ledger's Record of the payment the request carries... *)
LEMMA CommitRecords ==
  ASSUME IInv, NEW r \in Requests, Commit(r), NEW p, p = txn[r].payment
  PROVE  p \in Ledger!PaymentRow /\ Ledger!Record(p)
<1> DEFINE i == Invoice(r)
<1>1. /\ i \in Invoices /\ p \in PaymentRow /\ p.invoice = i /\ p.request = r
      /\ txn[r].row \in FeeRow /\ fees \in [Invoices -> FeeRow]
      /\ txn[r].row.paidAmount = fees[i].paidAmount + p.amount
      /\ txn[r].row.paidAmount <= Payable[i]
  BY DEF Commit, IInv, TypeOK, PaymentRow, Invoice, InTransaction, RowCurrent,
         PaymentsByRequest, Settled
<1>2. Ledger!Fresh(p)
  BY <1>1 DEF Commit, IInv, Ledger!Fresh, PaymentsByRequest, NoRepeatInFlight,
              KeyTaken, Invoice
<1>3. fees' = [fees EXCEPT ![i] = txn[r].row] /\ payments' = payments \cup {p}
  BY DEF Commit
<1>4. [j \in Invoices |-> fees[j].paidAmount]'
        = [[j \in Invoices |-> fees[j].paidAmount]
             EXCEPT ![p.invoice] = @ + p.amount]
  BY <1>1, <1>3
<1>5. [j \in Invoices |-> fees[j].paidAmount][p.invoice] + p.amount
        <= Payable[p.invoice]
  BY <1>1
<1>6. QED
  BY <1>1, <1>2, <1>3, <1>4, <1>5 DEF Ledger!Record, PaymentRow, Ledger!PaymentRow

(* ...and no other statement of the transaction is visible in the ledger.  *)
LEMMA OthersStutter ==
  ASSUME UNCHANGED <<fees, payments>>
  PROVE  UNCHANGED Ledger!vars
BY DEF Ledger!vars

(* recordPayment, interleaved statement by statement with any number of    *)
(* others and rolled back at any point, does what the atomic ledger does:  *)
(* a payment row and its credit appear in one step, at most once per       *)
(* request, key and reference, and never beyond the bill.                  *)
THEOREM LedgerImplemented == Spec => LedgerSpec
<1>1. Init => Ledger!Init
  BY DEF Init, Ledger!Init
<1>2. IInv /\ [Next]_vars => [Ledger!Next]_(Ledger!vars)
  <2> SUFFICES ASSUME IInv, [Next]_vars
               PROVE  Ledger!Next \/ UNCHANGED Ledger!vars
    OBVIOUS
  <2>1. ASSUME NEW r \in Requests, Commit(r) PROVE Ledger!Next
    <3>1. PICK p : p = txn[r].payment
      OBVIOUS
    <3>2. p \in Ledger!PaymentRow /\ Ledger!Record(p)
      BY <2>1, <3>1, CommitRecords
    <3>3. QED BY <3>2 DEF Ledger!Next
  <2>2. CASE UNCHANGED <<fees, payments>>
    BY <2>2, OthersStutter
  <2>3. \/ UNCHANGED <<fees, payments>>
        \/ \E r \in Requests : Commit(r)
    BY DEF Next, vars, Proceed, Receive, LockFee, RefuseCancelled, AnswerDuplicate,
           RefuseAmount, Accept, InsertPayment, SaveFee, Answer, LoseAnswer, Rollback,
           DueDatePasses
  <2>4. QED BY <2>1, <2>2, <2>3
<1>3. QED
  BY <1>1, <1>2, Invariance, PTL DEF Spec, LedgerSpec, Ledger!Spec
=============================================================================
