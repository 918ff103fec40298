------------------------------ MODULE PaymentTxn ------------------------------
(***************************************************************************)
(* PaymentService.recordPayment, statement by statement: any number of     *)
(* requests run its transaction at once on PostgreSQL (READ COMMITTED),    *)
(* each holding the row lock of SELECT ... FOR UPDATE on its invoice from  *)
(* LockFee to the end of the transaction.  Clients retry with the same     *)
(* idempotency key or transaction reference: those are further requests.   *)
(*                                                                         *)
(* Authorisation decides only whether a request may go on, so the requests *)
(* here are those that pass it.  Other writers of the fee row are in       *)
(* module FeeLedger.                                                       *)
(***************************************************************************)
EXTENDS Integers, FeeCredit, FiniteSetsExt

CONSTANTS Invoices,   \* fee rows
          Payable,    \* Payable[i]: totalPayable of invoice i, in paisa
          CarriedDue, \* CarriedDue[i]: its dueAmount, carried from earlier bills
          Requests,   \* HTTP requests to record a payment
          Amounts,    \* amounts the requests carry, roundMoney applied
          Keys,       \* idempotency keys
          Refs,       \* transaction references
          None        \* no key, no reference, no row read yet

ASSUME InvoicesAssumption ==
  /\ Payable \in [Invoices -> Nat \ {0}]
  /\ CarriedDue \in [Invoices -> Nat]
ASSUME AmountsAssumption == Amounts \subseteq Nat \ {0}
ASSUME NoneAssumption == None \notin Keys \cup Refs

VARIABLES fees,       \* the committed fee rows
          payments,   \* the committed payment rows
          pastDue,    \* pastDue[i]: the due date of invoice i has passed
          txn         \* txn[r]: what request r asks for and where it is

vars == <<fees, payments, pastDue, txn>>

FeeRow == [paidAmount: Nat, outstandingAmount: Nat, dueAmount: Nat,
           status: FeeStatus]

PaymentRow == [request: Requests, invoice: Invoices, amount: Amounts,
               key: Keys \cup {None}, ref: Refs \cup {None}]

(* failed: the client saw an error, or no answer at all.                   *)
InTransaction == {"locked", "checked", "inserted", "saved"}
Answered == {"recorded", "duplicate", "refused", "failed"}
Stages == {"unsent", "received", "committed"} \cup InTransaction \cup Answered

(* row is the fee entity a transaction works on, unwritten until it        *)
(* commits; payment is the row the request asks for.                       *)
Txn == [stage: Stages, payment: PaymentRow \cup {None}, row: FeeRow \cup {None}]

TypeOK == /\ fees \in [Invoices -> FeeRow]
          /\ payments \subseteq PaymentRow
          /\ pastDue \in [Invoices -> BOOLEAN]
          /\ txn \in [Requests -> Txn]
          /\ \A r \in Requests :
               /\ txn[r].stage # "unsent" => txn[r].payment \in PaymentRow
               /\ txn[r].stage \in InTransaction => txn[r].row \in FeeRow

-----------------------------------------------------------------------------
(* Bills a resident can still pay, and bills already cancelled.            *)
Init ==
  /\ \E cancelled \in SUBSET Invoices :
       fees = [i \in Invoices |->
                 [paidAmount |-> 0, outstandingAmount |-> Payable[i],
                  dueAmount |-> CarriedDue[i],
                  status |-> IF i \in cancelled THEN "CANCELLED" ELSE "PENDING"]]
  /\ payments = {}
  /\ pastDue = [i \in Invoices |-> FALSE]
  /\ txn = [r \in Requests |-> [stage |-> "unsent", payment |-> None, row |-> None]]

Invoice(r) == txn[r].payment.invoice
Owed(r) == Outstanding(Payable[Invoice(r)], txn[r].row.paidAmount)

HoldsAfterRefusal(r, i) ==
  txn[r].stage \in InTransaction \cup {"refused"} /\ txn[r].payment.invoice = i
Holds(r, i) == txn[r].stage \in InTransaction /\ txn[r].payment.invoice = i

(* The row the request's payment repeats: its key anywhere, or its         *)
(* transaction reference on the same invoice.                              *)
RepeatsIgnoringRefs(r) ==
  \E p \in payments : p.key # None /\ p.key = txn[r].payment.key
Repeats(r) ==
  \E p \in payments :
    \/ p.key # None /\ p.key = txn[r].payment.key
    \/ /\ p.ref # None
       /\ p.ref = txn[r].payment.ref
       /\ p.invoice = Invoice(r)

(* The unique index on idempotencyKey, against rows committed...           *)
KeyTaken(r) ==
  \E p \in payments : p.key # None /\ p.key = txn[r].payment.key
(* ...and against rows of transactions still open, which it waits for.     *)
KeyInFlight(r) ==
  \E q \in Requests \ {r} :
    /\ txn[q].stage \in {"inserted", "saved"}
    /\ txn[q].payment.key # None
    /\ txn[q].payment.key = txn[r].payment.key

GoTo(r, stage) == txn' = [txn EXCEPT ![r].stage = stage]

Receive(r) ==
  /\ txn[r].stage = "unsent"
  /\ \E i \in Invoices, a \in Amounts, k \in Keys \cup {None}, f \in Refs \cup {None} :
       txn' = [txn EXCEPT
                 ![r].stage = "received",
                 ![r].payment = [request |-> r, invoice |-> i, amount |-> a,
                                 key |-> k, ref |-> f]]
  /\ UNCHANGED <<fees, payments, pastDue>>

LockFeeUnlocked(r) ==
  /\ txn[r].stage = "received"
  /\ txn' = [txn EXCEPT ![r].stage = "locked", ![r].row = fees[Invoice(r)]]
  /\ UNCHANGED <<fees, payments, pastDue>>
LockFee(r) ==
  /\ txn[r].stage = "received"
  /\ \A q \in Requests : ~Holds(q, Invoice(r))
  /\ txn' = [txn EXCEPT ![r].stage = "locked", ![r].row = fees[Invoice(r)]]
  /\ UNCHANGED <<fees, payments, pastDue>>

RefuseCancelled(r) ==
  /\ txn[r].stage = "locked"
  /\ txn[r].row.status = "CANCELLED"
  /\ GoTo(r, "refused")
  /\ UNCHANGED <<fees, payments, pastDue>>

AnswerDuplicate(r) ==
  /\ txn[r].stage = "locked"
  /\ txn[r].row.status # "CANCELLED"
  /\ Repeats(r)
  /\ GoTo(r, "duplicate")
  /\ UNCHANGED <<fees, payments, pastDue>>

RefuseAmount(r) ==
  /\ txn[r].stage = "locked"
  /\ txn[r].row.status # "CANCELLED"
  /\ ~Repeats(r)
  /\ \/ Owed(r) = 0 /\ txn[r].row.status = "PAID"
     \/ txn[r].payment.amount > Owed(r)
  /\ GoTo(r, "refused")
  /\ UNCHANGED <<fees, payments, pastDue>>

Accept(r) ==
  /\ txn[r].stage = "locked"
  /\ txn[r].row.status # "CANCELLED"
  /\ ~Repeats(r)
  /\ ~(Owed(r) = 0 /\ txn[r].row.status = "PAID")
  /\ txn[r].payment.amount <= Owed(r)
  /\ GoTo(r, "checked")
  /\ UNCHANGED <<fees, payments, pastDue>>

InsertPayment(r) ==
  /\ txn[r].stage = "checked"
  /\ ~KeyInFlight(r)
  /\ GoTo(r, IF KeyTaken(r) THEN "failed" ELSE "inserted")
  /\ UNCHANGED <<fees, payments, pastDue>>

(* The row with the payment applied, as of the moment it is computed.      *)
CreditedRowFromRemainder(i, row, amount) ==
  LET result == ApplyPayment(Payable[i], row.paidAmount, row.status, amount,
                             pastDue[i])
  IN  [paidAmount |-> result.paidAmount,
       outstandingAmount |-> row.outstandingAmount - result.paidAmount,
       dueAmount |-> row.dueAmount,
       status |-> result.status]
CreditedRow(i, row, amount) ==
  LET result == ApplyPayment(Payable[i], row.paidAmount, row.status, amount,
                             pastDue[i])
  IN  [paidAmount |-> result.paidAmount,
       outstandingAmount |-> result.outstandingAmount,
       dueAmount |-> IF result.outstandingAmount = 0 THEN 0 ELSE row.dueAmount,
       status |-> result.status]

SaveFee(r) ==
  /\ txn[r].stage = "inserted"
  /\ txn' = [txn EXCEPT
               ![r].stage = "saved",
               ![r].row = CreditedRow(Invoice(r), txn[r].row, txn[r].payment.amount)]
  /\ UNCHANGED <<fees, payments, pastDue>>

CommitPaymentOnly(r) ==
  /\ txn[r].stage = "saved"
  /\ payments' = payments \cup {txn[r].payment}
  /\ GoTo(r, "committed")
  /\ UNCHANGED <<fees, pastDue>>
Commit(r) ==
  /\ txn[r].stage = "saved"
  /\ fees' = [fees EXCEPT ![Invoice(r)] = txn[r].row]
  /\ payments' = payments \cup {txn[r].payment}
  /\ GoTo(r, "committed")
  /\ UNCHANGED pastDue

(* Once the caches are invalidated and the resident is notified.           *)
Answer(r) ==
  /\ txn[r].stage = "committed"
  /\ GoTo(r, "recorded")
  /\ UNCHANGED <<fees, payments, pastDue>>

(* The process stops, or the connection drops, before it.                  *)
LoseAnswer(r) ==
  /\ txn[r].stage = "committed"
  /\ GoTo(r, "failed")
  /\ UNCHANGED <<fees, payments, pastDue>>

(* The connection, the database or the process fails: the transaction      *)
(* rolls back and its lock is gone.                                        *)
RollbackSwallowed(r) ==
  /\ txn[r].stage \in InTransaction
  /\ GoTo(r, "recorded")
  /\ UNCHANGED <<fees, payments, pastDue>>
Rollback(r) ==
  /\ txn[r].stage \in InTransaction
  /\ GoTo(r, "failed")
  /\ UNCHANGED <<fees, payments, pastDue>>

DueDatePasses(i) ==
  /\ ~pastDue[i]
  /\ pastDue' = [pastDue EXCEPT ![i] = TRUE]
  /\ UNCHANGED <<fees, payments, txn>>

Proceed(r) == \/ LockFee(r) \/ RefuseCancelled(r) \/ AnswerDuplicate(r)
              \/ RefuseAmount(r) \/ Accept(r) \/ InsertPayment(r)
              \/ SaveFee(r) \/ Commit(r) \/ Answer(r)

Next == \/ \E r \in Requests : \/ Receive(r) \/ Proceed(r)
                               \/ Rollback(r) \/ LoseAnswer(r)
        \/ \E i \in Invoices : DueDatePasses(i)

Spec == Init /\ [][Next]_vars

(* The server keeps running the transactions it has begun.                 *)
FairSpec == Spec /\ \A r \in Requests : WF_vars(Proceed(r))

-----------------------------------------------------------------------------
(* The unique index and the row lock together: of two requests that carry  *)
(* the same idempotency key, or the same transaction reference for one     *)
(* invoice, at most one is recorded, whatever their interleaving.          *)
NothingPaidTwice ==
  \A p, q \in payments :
    \/ p = q
    \/ /\ p.request # q.request
       /\ p.key # None => p.key # q.key
       /\ p.ref # None => (p.invoice # q.invoice \/ p.ref # q.ref)

PaidOn(i) == SumFunctionOnSet([p \in payments |-> p.amount],
                              {p \in payments : p.invoice = i})

(* The fee row and the payment rows never disagree: what is credited is    *)
(* what the payments add up to, what is outstanding is the rest, and the   *)
(* status is PAID exactly when nothing is outstanding.                     *)
LedgerBalanced ==
  \A i \in Invoices :
    /\ fees[i].paidAmount = PaidOn(i)
    /\ fees[i].outstandingAmount = Payable[i] - PaidOn(i)
    /\ fees[i].status = "PAID" <=> PaidOn(i) = Payable[i]
    /\ fees[i].status = "PAID" => fees[i].dueAmount = 0

(* A payment answered as recorded is there, one refused or answered as a   *)
(* duplicate is not; a client that saw a failure knows neither, and its    *)
(* retry is covered by NothingPaidTwice.                                   *)
AnswersHold ==
  \A r \in Requests :
    LET Recorded == \E p \in payments : p.request = r
    IN  /\ txn[r].stage = "recorded" => Recorded
        /\ txn[r].stage \in {"duplicate", "refused"} => ~Recorded

(* What the proofs of the above rest on.  A settled row adds up.           *)
Settled(i, row) ==
  /\ row.paidAmount <= Payable[i]
  /\ row.outstandingAmount = Payable[i] - row.paidAmount
  /\ row.status = "PAID" <=> row.paidAmount = Payable[i]
  /\ row.status = "PAID" => row.dueAmount = 0

RowsSettled == \A i \in Invoices : Settled(i, fees[i])

(* One transaction at a time holds an invoice...                           *)
RowLocked == \A r, q \in Requests :
               txn[r].stage \in InTransaction /\ Holds(q, Invoice(r)) => r = q

(* ...so the row it read is still the committed one when it writes it back *)
(* with its own amount added.                                              *)
RowCurrent ==
  \A r \in Requests :
    /\ txn[r].stage \in {"locked", "checked", "inserted"} =>
         txn[r].row = fees[Invoice(r)]
    /\ txn[r].stage \in {"checked", "inserted"} =>
         /\ txn[r].row.status # "CANCELLED"
         /\ txn[r].row.paidAmount + txn[r].payment.amount <= Payable[Invoice(r)]
    /\ txn[r].stage = "saved" =>
         /\ Settled(Invoice(r), txn[r].row)
         /\ txn[r].row.paidAmount
              = fees[Invoice(r)].paidAmount + txn[r].payment.amount

(* What the duplicate check and the unique index found is still so.        *)
NoRepeatInFlight ==
  \A r \in Requests :
    /\ txn[r].stage \in {"checked", "inserted", "saved"} =>
         \A p \in payments :
           txn[r].payment.ref # None =>
             p.invoice # Invoice(r) \/ p.ref # txn[r].payment.ref
    /\ txn[r].stage \in {"inserted", "saved"} => ~KeyTaken(r) /\ ~KeyInFlight(r)

PaymentsByRequest ==
  /\ \A r \in Requests : txn[r].stage # "unsent" => txn[r].payment.request = r
  /\ \A p \in payments :
       /\ txn[p.request].stage \in {"committed", "recorded", "failed"}
       /\ p = txn[p.request].payment
  /\ \A r \in Requests :
       txn[r].stage \in {"committed", "recorded"} => txn[r].payment \in payments

IInv == /\ TypeOK /\ RowsSettled /\ RowLocked /\ RowCurrent
        /\ NoRepeatInFlight /\ PaymentsByRequest /\ NothingPaidTwice

(* What is credited is what the payments, finitely many, add up to.        *)
PaymentsCounted == /\ IsFiniteSet(payments)
                   /\ \A i \in Invoices : fees[i].paidAmount = PaidOn(i)

(* Every request that arrived is answered: no transaction waits for ever   *)
(* for a row lock or for another's insert of the same key.                 *)
EveryRequestAnswered ==
  \A r \in Requests : txn[r].stage = "received" ~> txn[r].stage \in Answered

(* recordPayment implements the atomic ledger.                             *)
Ledger == INSTANCE PaymentLedger WITH
            paid <- [i \in Invoices |-> fees[i].paidAmount]
LedgerSpec == Ledger!Spec

(* What the answer "already processed" says (payment.controller.ts): the   *)
(* payment that stands for a duplicate request was made on its invoice.    *)
DuplicateWasPaid ==
  \A r \in Requests :
    txn[r].stage = "duplicate" =>
      \E p \in payments :
        /\ p.invoice = Invoice(r)
        /\ \/ p.key # None /\ p.key = txn[r].payment.key
           \/ p.ref # None /\ p.ref = txn[r].payment.ref
=============================================================================
