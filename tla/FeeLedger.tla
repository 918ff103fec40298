------------------------------ MODULE FeeLedger ------------------------------
(***************************************************************************)
(* Everything that writes a fee row after it has been billed: the two      *)
(* payment endpoints, the owner's override of the status, the overdue      *)
(* sweep, and the review of payment proofs with the credit it gives.       *)
(*                                                                         *)
(* Only POST /pay locks the row; its transaction (module PaymentTxn) is    *)
(* one step here.  Every other path loads entities, changes them in memory *)
(* and calls TypeORM's save, which selects the rows again and updates the  *)
(* columns that differ: a job copies, diffs and writes in three steps, and *)
(* any other job may come in between.  save may also be rejected by the    *)
(* database, and the process may stop: a job can fail before any step.     *)
(*                                                                         *)
(* discountAmount is never written by this program and stays 0.            *)
(***************************************************************************)
EXTENDS Integers, FeeCredit

CONSTANTS Fees,          \* fee rows
          Payable,       \* Payable[i]: totalPayable of bill i, in paisa
          CarriedDue,    \* CarriedDue[i]: its dueAmount, carried from earlier bills
          Requests,      \* POST /pay requests
          Amounts,       \* amounts those requests carry
          ManualAmounts, \* amounts of PATCH requests, 0 if below half a paisa
          StatusRequests,\* statuses an owner asks for by PATCH /status
          Proofs,        \* payment proofs
          ProofAmounts,  \* amounts residents claim and owners put in their place,
                         \* 0 if below half a paisa
          Jobs,          \* requests at work on copies of rows
          None           \* no proof, no row to insert

ASSUME BillsAssumption ==
  /\ Payable \in [Fees -> Nat \ {0}]
  /\ CarriedDue \in [Fees -> Nat]
ASSUME AskedAssumption ==
  /\ Amounts \subseteq Nat \ {0}
  /\ ManualAmounts \subseteq Nat
  /\ StatusRequests \subseteq FeeStatus
  /\ ProofAmounts \subseteq Nat
ASSUME SourcesAssumption == Requests \cap Proofs = {}

VARIABLES fees,       \* the committed fee rows
          payments,   \* the committed payment rows
          proofs,     \* the proof rows
          pastDue,    \* pastDue[i]: the due date of bill i has passed
          jobs,       \* jobs[j]: what job j holds in memory
          overlapped  \* history: bills written while another job held a copy

vars == <<fees, payments, proofs, pastDue, jobs, overlapped>>

FeeRow == [paidAmount: Nat, outstandingAmount: Nat, dueAmount: Nat,
           status: FeeStatus]

(* from: the request, or the proof whose id is in the idempotency key.     *)
PaymentRow == [from: Requests \cup Proofs, invoice: Fees, amount: Nat]

Reviewed == {"APPROVED", "REJECTED"}
ProofRow == [status: {"PENDING"} \cup Reviewed, fee: Fees, amount: Nat]

ASSUME NoneAssumption == None \notin Proofs \cup ProofRow \cup FeeRow

Copies == [Fees -> FeeRow \cup {None}]
NoCopies == [i \in Fees |-> None]
CopyOf(i, row) == [NoCopies EXCEPT ![i] = row]

(* copies: the entities to save; found: their rows as save selected them;  *)
(* decision: the proof entity to save; pay: the audit row to insert.       *)
Job == [stage: {"idle", "deciding", "crediting", "copied", "diffed"},
        proof: Proofs \cup {None}, decision: ProofRow \cup {None},
        copies: Copies, found: Copies, pay: PaymentRow \cup {None}]
Idle == [stage |-> "idle", proof |-> None, decision |-> None,
         copies |-> NoCopies, found |-> NoCopies, pay |-> None]

TypeOK == /\ fees \in [Fees -> FeeRow]
          /\ payments \subseteq PaymentRow
          /\ proofs \in [Proofs -> ProofRow \cup {None}]
          /\ pastDue \in [Fees -> BOOLEAN]
          /\ jobs \in [Jobs -> Job]
          /\ overlapped \subseteq Fees

Init ==
  /\ fees = [i \in Fees |->
               [paidAmount |-> 0, outstandingAmount |-> Payable[i],
                dueAmount |-> CarriedDue[i], status |-> "PENDING"]]
  /\ payments = {}
  /\ proofs = [p \in Proofs |-> None]
  /\ pastDue = [i \in Fees |-> FALSE]
  /\ jobs = [j \in Jobs |-> Idle]
  /\ overlapped = {}

-----------------------------------------------------------------------------
Owed(i) == Outstanding(Payable[i], fees[i].paidAmount)

Holding(j, i) == jobs[j].copies[i] # None

(* PaymentService.recordPayment, under its row lock.                       *)
PayInvoice(r, i, amount) ==
  LET row == fees[i]
      result == ApplyPayment(Payable[i], row.paidAmount, row.status, amount,
                             pastDue[i])
  IN  /\ \A p \in payments : p.from # r
      /\ row.status # "CANCELLED"
      /\ ~(Owed(i) = 0 /\ row.status = "PAID")
      /\ amount <= Owed(i)
      /\ payments' = payments \cup {[from |-> r, invoice |-> i, amount |-> amount]}
      /\ fees' = [fees EXCEPT ![i] =
           [paidAmount |-> result.paidAmount,
            outstandingAmount |-> result.outstandingAmount,
            dueAmount |-> IF result.outstandingAmount = 0 THEN 0 ELSE row.dueAmount,
            status |-> result.status]]
      /\ overlapped' = overlapped \cup {b \in {i} : \E j \in Jobs : Holding(j, b)}
      /\ UNCHANGED <<proofs, pastDue, jobs>>

(* FeeRepository.findById: the balance and status it returns are computed. *)
FoundById(i) ==
  [fees[i] EXCEPT !.outstandingAmount = Owed(i),
                  !.status = PaymentStatus(@, Payable[i], fees[i].paidAmount,
                                           pastDue[i])]

Copy(j, copies) ==
  /\ jobs[j].stage = "idle"
  /\ jobs' = [jobs EXCEPT ![j].stage = "copied", ![j].copies = copies]
  /\ UNCHANGED <<fees, payments, proofs, pastDue, overlapped>>

(* FeeService.recordPayment up to its save: the due date is not passed on, *)
(* and outstandingAmount keeps the balance from before the payment.        *)
ManualPayment(j, i, amount) ==
  LET fee == FoundById(i)
      result == ApplyPayment(Payable[i], fee.paidAmount, fee.status, amount, FALSE)
  IN  Copy(j, CopyOf(i,
        [fee EXCEPT !.paidAmount = result.paidAmount,
                    !.status = result.status,
                    !.dueAmount = IF result.paidAmount >= Payable[i] THEN 0 ELSE @]))

(* FeeService.updateFeeStatus up to its save.                              *)
SetStatusAsAsked(j, i, status, payment) ==
  Copy(j, CopyOf(i, [FoundById(i) EXCEPT !.status = status]))
SetStatusReplacing(j, i, status, payment) ==
  Copy(j, CopyOf(i,
    IF payment = None THEN FoundById(i)
    ELSE [FoundById(i) EXCEPT !.paidAmount = Lesser(payment, Payable[i]),
                              !.status = IF payment >= Payable[i] THEN "PAID"
                                         ELSE "PARTIALLY_PAID"]))
SetStatus(j, i, status, payment) ==
  LET fee == FoundById(i)
      nextPaid ==
        IF payment = None THEN fee.paidAmount
        ELSE ApplyPayment(Payable[i], fee.paidAmount, fee.status, payment,
                          FALSE).paidAmount
      settles == nextPaid >= Payable[i] \/ status = "PAID"
  IN  Copy(j, CopyOf(i,
        IF settles
        THEN [fee EXCEPT !.paidAmount = IF nextPaid >= Payable[i] THEN nextPaid
                                        ELSE Payable[i],
                         !.status = "PAID", !.dueAmount = 0]
        ELSE [fee EXCEPT !.paidAmount = nextPaid, !.status = status]))

(* PaymentService.syncOverdueFees up to its save.                          *)
Overdue == {i \in Fees : /\ fees[i].status \in {"PENDING", "PARTIALLY_PAID"}
                         /\ pastDue[i]
                         /\ Owed(i) > 0}
SyncOverdueFees(j) ==
  /\ Overdue # {}
  /\ Copy(j, [i \in Fees |->
       IF i \in Overdue
       THEN [fees[i] EXCEPT !.status = "OVERDUE", !.outstandingAmount = Owed(i)]
       ELSE None])

-----------------------------------------------------------------------------
(* PaymentProofService.submitProof: no amount, or exactly 0, stands for all *)
(* that is owed; an amount beyond it is taken as it is.                    *)
SubmitProof(p, i) ==
  /\ proofs[p] = None
  /\ \E amount \in ProofAmounts \cup ({Owed(i)} \ {0}) :
       proofs' = [proofs EXCEPT ![p] =
                    [status |-> "PENDING", fee |-> i, amount |-> amount]]
  /\ UNCHANGED <<fees, payments, pastDue, jobs, overlapped>>

(* PaymentProofService.reviewProof: reading the proof...                   *)
Decide(j, p, decision) ==
  /\ jobs[j].stage = "idle"
  /\ proofs[p] # None
  /\ proofs[p].status = "PENDING"
  /\ jobs' = [jobs EXCEPT ![j].stage = "deciding", ![j].proof = p,
                          ![j].decision = decision]
  /\ UNCHANGED <<fees, payments, proofs, pastDue, overlapped>>
RejectProof(j, p) == Decide(j, p, [proofs[p] EXCEPT !.status = "REJECTED"])
ApproveProof(j, p) ==
  \E amount \in ProofAmounts \cup (IF proofs[p] = None THEN {} ELSE {proofs[p].amount}) :
    Decide(j, p, [proofs[p] EXCEPT !.status = "APPROVED", !.amount = amount])

(* ...or, when it is approved already, going straight on to the credit.    *)
ApproveUnreviewed(j, p) ==
  /\ jobs[j].stage = "idle"
  /\ proofs[p] # None
  /\ jobs' = [jobs EXCEPT ![j].stage = "crediting", ![j].proof = p]
  /\ UNCHANGED <<fees, payments, proofs, pastDue, overlapped>>
ApproveAgain(j, p) ==
  /\ jobs[j].stage = "idle"
  /\ proofs[p] # None
  /\ proofs[p].status = "APPROVED"
  /\ jobs' = [jobs EXCEPT ![j].stage = "crediting", ![j].proof = p]
  /\ UNCHANGED <<fees, payments, proofs, pastDue, overlapped>>

(* ...saving the decision...                                               *)
SaveDecision(j) ==
  /\ jobs[j].stage = "deciding"
  /\ proofs' = [proofs EXCEPT ![jobs[j].proof] = jobs[j].decision]
  /\ jobs' = [jobs EXCEPT ![j] =
       IF jobs[j].decision.status = "APPROVED"
       THEN [Idle EXCEPT !.stage = "crediting", !.proof = jobs[j].proof]
       ELSE Idle]
  /\ UNCHANGED <<fees, payments, pastDue, overlapped>>

(* ...and crediting it: applyApprovedProofToFee up to the insert.          *)
LoadCreditFromRemainder(j) ==
  /\ jobs[j].stage = "crediting"
  /\ LET proof == proofs[jobs[j].proof]
         row == fees[proof.fee]
         result == ApplyPayment(Payable[proof.fee], row.paidAmount, row.status,
                                proof.amount, pastDue[proof.fee])
     IN  jobs' = [jobs EXCEPT
           ![j].stage = "copied",
           ![j].copies = CopyOf(proof.fee,
              [paidAmount |-> result.paidAmount,
               outstandingAmount |-> row.outstandingAmount - proof.amount,
               dueAmount |-> IF result.paidAmount >= Payable[proof.fee] THEN 0
                             ELSE row.dueAmount,
               status |-> result.status]),
           ![j].pay = [from |-> jobs[j].proof, invoice |-> proof.fee,
                       amount |-> proof.amount]]
  /\ UNCHANGED <<fees, payments, proofs, pastDue, overlapped>>
LoadCredit(j) ==
  /\ jobs[j].stage = "crediting"
  /\ LET proof == proofs[jobs[j].proof]
         row == fees[proof.fee]
         result == ApplyPayment(Payable[proof.fee], row.paidAmount, row.status,
                                proof.amount, pastDue[proof.fee])
     IN  jobs' = [jobs EXCEPT
           ![j].stage = "copied",
           ![j].copies = CopyOf(proof.fee,
              [paidAmount |-> result.paidAmount,
               outstandingAmount |-> result.outstandingAmount,
               dueAmount |-> IF result.paidAmount >= Payable[proof.fee] THEN 0
                             ELSE row.dueAmount,
               status |-> result.status]),
           ![j].pay = [from |-> jobs[j].proof, invoice |-> proof.fee,
                       amount |-> proof.amount]]
  /\ UNCHANGED <<fees, payments, proofs, pastDue, overlapped>>

-----------------------------------------------------------------------------
(* save selects the rows it is about to update.  The credit has just       *)
(* looked for the proof's audit row and inserted it, which waits for       *)
(* another transaction that has inserted the same key.                     *)
RecordedFrom(source) == \E p \in payments : p.from = source
DiffUnrecorded(j) ==
  /\ jobs[j].stage = "copied"
  /\ jobs' = [jobs EXCEPT
       ![j].stage = "diffed",
       ![j].found = [i \in Fees |-> IF Holding(j, i) THEN fees[i] ELSE None]]
  /\ UNCHANGED <<fees, payments, proofs, pastDue, overlapped>>
Diff(j) ==
  /\ jobs[j].stage = "copied"
  /\ \A q \in Jobs \ {j} :
       jobs[j].pay # None /\ jobs[q].stage = "diffed" /\ jobs[q].pay # None
         => jobs[q].pay.from # jobs[j].pay.from
  /\ jobs' = [jobs EXCEPT
       ![j].stage = "diffed",
       ![j].found = [i \in Fees |-> IF Holding(j, i) THEN fees[i] ELSE None],
       ![j].pay = IF @ = None THEN None
                  ELSE IF RecordedFrom(@.from) THEN None ELSE @]
  /\ UNCHANGED <<fees, payments, proofs, pastDue, overlapped>>

(* The UPDATE of the columns that differed, and the commit.                *)
Changed(entity, found, current) ==
  [c \in DOMAIN current |-> IF entity[c] # found[c] THEN entity[c] ELSE current[c]]
Write(j) ==
  /\ jobs[j].stage = "diffed"
  /\ fees' = [i \in Fees |->
       IF Holding(j, i)
       THEN Changed(jobs[j].copies[i], jobs[j].found[i], fees[i])
       ELSE fees[i]]
  /\ payments' = payments \cup ({jobs[j].pay} \ {None})
  /\ overlapped' = overlapped \cup
       {i \in Fees : Holding(j, i) /\ \E q \in Jobs \ {j} : Holding(q, i)}
  /\ jobs' = [jobs EXCEPT ![j] = Idle]
  /\ UNCHANGED <<proofs, pastDue>>

Fail(j) ==
  /\ jobs[j].stage # "idle"
  /\ jobs' = [jobs EXCEPT ![j] = Idle]
  /\ UNCHANGED <<fees, payments, proofs, pastDue, overlapped>>

DueDatePasses(i) ==
  /\ ~pastDue[i]
  /\ pastDue' = [pastDue EXCEPT ![i] = TRUE]
  /\ UNCHANGED <<fees, payments, proofs, jobs, overlapped>>

Next ==
  \/ \E r \in Requests, i \in Fees, a \in Amounts : PayInvoice(r, i, a)
  \/ \E p \in Proofs, i \in Fees : SubmitProof(p, i)
  \/ \E i \in Fees : DueDatePasses(i)
  \/ \E j \in Jobs :
       \/ \E i \in Fees, a \in ManualAmounts : ManualPayment(j, i, a)
       \/ \E i \in Fees, s \in StatusRequests :
            \E a \in (ManualAmounts \ {0}) \cup {None} : SetStatus(j, i, s, a)
       \/ SyncOverdueFees(j)
       \/ \E p \in Proofs : RejectProof(j, p) \/ ApproveProof(j, p)
                            \/ ApproveAgain(j, p)
       \/ SaveDecision(j) \/ LoadCredit(j)
       \/ Diff(j) \/ Write(j) \/ Fail(j)

Spec == Init /\ [][Next]_vars

-----------------------------------------------------------------------------
(* No bill is credited beyond what it asks for: every path clamps, whatever *)
(* its copy, its amount and the order the columns are written in.          *)
NeverOverpaid == \A i \in Fees : fees[i].paidAmount <= Payable[i]

(* "Ledger truth wins" (updateFeeStatus): a bill says PAID exactly when    *)
(* all of it is paid, and then carries no dues, unless two writers of the  *)
(* bill overlapped.                                                        *)
Settled(i, row) == /\ row.paidAmount <= Payable[i]
                   /\ row.status = "PAID" <=> row.paidAmount = Payable[i]
                   /\ row.status = "PAID" => row.dueAmount = 0
SettledUnlessOverlapped == \A i \in Fees \ overlapped : Settled(i, fees[i])

(* An approval retried, repeated or made by two owners at once leaves one  *)
(* audit row for its proof.                                                *)
OneRowPerSource == \A p, q \in payments : p.from = q.from => p = q

(* What is recorded as paid by proof was reviewed, on the bill it names.   *)
CreditNeedsReview ==
  \A p \in payments : p.from \in Proofs =>
    /\ proofs[p.from] # None
    /\ proofs[p.from].status \in Reviewed
    /\ proofs[p.from].fee = p.invoice

(* A proof once reviewed is never open again: two reviewers may overrule   *)
(* each other, but not send it back.                                       *)
ReviewIsFinal ==
  [][\A p \in Proofs : proofs[p] # None /\ proofs[p].status \in Reviewed
       => proofs'[p].status \in Reviewed]_vars

(* A cancelled bill takes no money: what is recorded on it, by proof,      *)
(* credits nothing.                                                        *)
CancelledTakesNoMoney ==
  [][\A i \in Fees \ overlapped :
       /\ fees[i].status = "CANCELLED"
       /\ \E p \in payments' \ payments : p.invoice = i
       => fees'[i].paidAmount = fees[i].paidAmount]_vars

(* What POST /pay records is what it credits: where no two writers of the  *)
(* bill overlapped, none leaves it PAID before it is paid, which the next  *)
(* payment would settle in full whatever its amount.                       *)
PaymentCreditsItsAmount ==
  [][\A i \in Fees \ overlapped : \A p \in payments' \ payments :
       p.from \in Requests /\ p.invoice = i
       => fees'[i].paidAmount = fees[i].paidAmount + p.amount]_vars

(* No endpoint takes money back, so what is paid on a bill never falls,    *)
(* unless two writers of the bill overlapped...                            *)
PaidFallsOnlyByOverlap ==
  [][\A i \in Fees \ overlapped : fees'[i].paidAmount >= fees[i].paidAmount]_vars

(* ...which is what the row lock is for ("write lock to prevent race       *)
(* conditions & overpayments", recordPayment).                             *)
PaidNeverFalls ==
  [][\A i \in Fees : fees'[i].paidAmount >= fees[i].paidAmount]_vars

(* "A proof can never be APPROVED while the ledger write fails"            *)
(* (applyApprovedProofToFee): once nobody is at work on it, an approved    *)
(* proof has its payment row.                                              *)
ApprovedMeansCredited ==
  \A p \in Proofs :
    /\ proofs[p] # None
    /\ proofs[p].status = "APPROVED"
    /\ \A j \in Jobs : jobs[j].proof # p
    => RecordedFrom(p)

-----------------------------------------------------------------------------
(* What the proofs rest on.  A copy of a bill is within the bill, and, as  *)
(* long as no two writers overlap on it, current: settled, no behind what  *)
(* is committed, and based on the row that is committed.                   *)
CopyFits(job, i) ==
  job.copies[i] # None =>
    /\ job.copies[i].paidAmount <= Payable[i]
    /\ job.stage = "diffed" => job.found[i] # None
    /\ i \notin overlapped =>
         /\ Settled(i, job.copies[i])
         /\ job.copies[i].paidAmount >= fees[i].paidAmount
         /\ job.stage = "diffed" => job.found[i] = fees[i]
         /\ job.pay # None /\ fees[i].status = "CANCELLED" =>
              job.copies[i].paidAmount = fees[i].paidAmount

IsReviewed(p) == p \in Proofs /\ proofs[p] # None /\ proofs[p].status \in Reviewed

JobFits(job) ==
  /\ job.stage \notin {"copied", "diffed"} => job.copies = NoCopies /\ job.pay = None
  /\ job.stage = "deciding" =>
       /\ job.proof \in Proofs /\ proofs[job.proof] # None
       /\ job.decision \in ProofRow
       /\ job.decision.status \in Reviewed
       /\ job.decision.fee = proofs[job.proof].fee
  /\ job.stage = "crediting" => IsReviewed(job.proof)
  /\ job.pay # None =>
       /\ IsReviewed(job.pay.from)
       /\ proofs[job.pay.from].fee = job.pay.invoice
       /\ job.stage = "diffed" => ~RecordedFrom(job.pay.from)
  /\ \A i \in Fees : CopyFits(job, i)

DistinctInserts ==
  \A j, q \in Jobs :
    /\ jobs[j].stage = "diffed" /\ jobs[j].pay # None
    /\ jobs[q].stage = "diffed" /\ jobs[q].pay # None
    /\ jobs[j].pay.from = jobs[q].pay.from
    => j = q

IInv == /\ TypeOK /\ NeverOverpaid /\ SettledUnlessOverlapped
        /\ OneRowPerSource /\ CreditNeedsReview
        /\ (\A j \in Jobs : JobFits(jobs[j]))
        /\ DistinctInserts
=============================================================================
