---------------------------- MODULE PaymentLedger ----------------------------
(***************************************************************************)
(* What PaymentService.recordPayment promises its callers ("Atomically     *)
(* records a payment against an invoice with idempotency"): a payment and  *)
(* the credit it gives appear together, a request records one payment at   *)
(* most, no idempotency key is spent twice, no transaction reference twice *)
(* on one invoice, and no invoice is overpaid.                             *)
(***************************************************************************)
EXTENDS Integers

CONSTANTS Invoices,   \* fee rows
          Payable,    \* Payable[i]: totalPayable of invoice i, in paisa
          Requests,   \* HTTP requests to record a payment
          Amounts,    \* amounts the requests carry
          Keys,       \* idempotency keys
          Refs,       \* transaction references
          None        \* no key, no reference

VARIABLES paid,       \* paid[i]: money credited to invoice i
          payments    \* the payment rows

vars == <<paid, payments>>

PaymentRow == [request: Requests, invoice: Invoices, amount: Amounts,
               key: Keys \cup {None}, ref: Refs \cup {None}]

Fresh(p) == \A q \in payments :
              /\ p.request # q.request
              /\ p.key # None => p.key # q.key
              /\ p.ref # None => (p.invoice # q.invoice \/ p.ref # q.ref)

Init == /\ paid = [i \in Invoices |-> 0]
        /\ payments = {}

Record(p) ==
  /\ Fresh(p)
  /\ paid[p.invoice] + p.amount <= Payable[p.invoice]
  /\ paid' = [paid EXCEPT ![p.invoice] = @ + p.amount]
  /\ payments' = payments \cup {p}

Next == \E p \in PaymentRow : Record(p)

Spec == Init /\ [][Next]_vars
=============================================================================
