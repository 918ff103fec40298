--------------------------- MODULE FeeLedger_proofs ---------------------------
(***************************************************************************)
(* For any bills, payments, proofs and amounts, and any number of jobs     *)
(* interleaved at the steps of their saves: no bill is overpaid, no audit  *)
(* row doubled, no credit unreviewed, and a bill on which no two writers   *)
(* overlapped says PAID exactly when it is paid.                           *)
(***************************************************************************)
EXTENDS FeeLedger, Amounts_proofs

USE BillsAssumption, AskedAssumption, SourcesAssumption
  DEF BillsAssumption, AskedAssumption, SourcesAssumption

(* What ApplyPayment makes of a row within its bill.                       *)
LEMMA AppliedRow ==
  ASSUME NEW i \in Fees, NEW row \in FeeRow, row.paidAmount <= Payable[i],
         NEW amount \in Nat, NEW late \in BOOLEAN, NEW r,
         r = ApplyPayment(Payable[i], row.paidAmount, row.status, amount, late)
  PROVE  /\ r.paidAmount \in Nat /\ r.outstandingAmount \in Nat
         /\ r.status \in FeeStatus
         /\ row.paidAmount <= r.paidAmount /\ r.paidAmount <= Payable[i]
         /\ r.outstandingAmount = Payable[i] - r.paidAmount
         /\ row.status = "CANCELLED" => r.paidAmount = row.paidAmount
         /\ Settled(i, row) => (r.status = "PAID" <=> r.paidAmount = Payable[i])
<1>1. /\ Payable[i] \in Nat /\ Payable[i] \in Nat \ {0}
      /\ row.paidAmount \in 0 .. Payable[i]
      /\ row.status \in FeeStatus /\ late \in BOOLEAN
  BY DEF FeeRow
<1>2. /\ r.paidAmount \in row.paidAmount .. Payable[i]
      /\ r.outstandingAmount = Payable[i] - r.paidAmount
      /\ r.status \in FeeStatus
  BY <1>1, ApplyPaymentBalances
<1>3. row.status = "CANCELLED" =>
        r.paidAmount = row.paidAmount /\ r.status = "CANCELLED"
  BY <1>1 DEF ApplyPayment, Lesser, AtLeastZero
<1>4. row.status # "CANCELLED" => (r.status = "PAID" <=> r.paidAmount = Payable[i])
  BY <1>1, ApplyPaymentSettles
<1>5. Settled(i, row) => (r.status = "PAID" <=> r.paidAmount = Payable[i])
  BY <1>3, <1>4 DEF Settled
<1>6. /\ r.paidAmount \in Nat /\ r.outstandingAmount \in Nat
      /\ row.paidAmount <= r.paidAmount /\ r.paidAmount <= Payable[i]
  BY <1>1, <1>2
<1>7. QED BY <1>2, <1>3, <1>5, <1>6

(* What findById makes of a committed row.                                 *)
LEMMA FoundRow ==
  ASSUME TypeOK, NeverOverpaid, NEW i \in Fees
  PROVE  /\ FoundById(i) \in FeeRow
         /\ FoundById(i).paidAmount = fees[i].paidAmount
         /\ FoundById(i).dueAmount = fees[i].dueAmount
         /\ Settled(i, fees[i]) => Settled(i, FoundById(i))
<1> DEFINE status == PaymentStatus(fees[i].status, Payable[i], fees[i].paidAmount,
                                   pastDue[i])
<1>1. /\ fees[i] \in FeeRow /\ Payable[i] \in Nat \ {0}
      /\ fees[i].paidAmount \in Nat /\ fees[i].paidAmount <= Payable[i]
      /\ fees[i].outstandingAmount \in Nat /\ fees[i].dueAmount \in Nat
      /\ fees[i].status \in FeeStatus
  BY DEF TypeOK, NeverOverpaid, FeeRow
<1>2. Owed(i) \in Nat /\ status \in FeeStatus
  BY <1>1 DEF Owed, Outstanding, AtLeastZero, PaymentStatus, FeeStatus
<1>3. fees[i].status # "CANCELLED" =>
        (status = "PAID" <=> fees[i].paidAmount = Payable[i])
  BY <1>1 DEF Outstanding, AtLeastZero, PaymentStatus
<1>4. fees[i].status = "CANCELLED" => status = "CANCELLED"
  BY DEF PaymentStatus
<1> HIDE DEF status
<1>5. /\ FoundById(i) \in FeeRow
      /\ FoundById(i).paidAmount = fees[i].paidAmount
      /\ FoundById(i).dueAmount = fees[i].dueAmount
      /\ FoundById(i).status = status
  <2>1. FoundById(i) = [fees[i] EXCEPT !.outstandingAmount = Owed(i), !.status = status]
    BY DEF FoundById, status
  <2> HIDE DEF status
  <2>2. QED BY <1>1, <1>2, <2>1 DEF FeeRow
<1>7. Settled(i, fees[i]) => Settled(i, FoundById(i))
  BY <1>1, <1>3, <1>4, <1>5 DEF Settled
<1>8. QED BY <1>5, <1>7

-----------------------------------------------------------------------------
(* A step that changes only what one job holds.                            *)
LEMMA MemoryStep ==
  ASSUME IInv, NEW j \in Jobs, NEW job \in Job, JobFits(job),
         jobs' = [jobs EXCEPT ![j] = job],
         UNCHANGED <<fees, payments, proofs, pastDue, overlapped>>,
         \A q \in Jobs \ {j} :
           /\ job.stage = "diffed" /\ job.pay # None
           /\ jobs[q].stage = "diffed" /\ jobs[q].pay # None
           => jobs[q].pay.from # job.pay.from
  PROVE  IInv'
<1>1. /\ jobs'[j] = job
      /\ \A q \in Jobs : q # j => jobs'[q] = jobs[q]
  BY DEF IInv, TypeOK
<1>2. TypeOK'
  BY DEF IInv, TypeOK
<1>3. NeverOverpaid' /\ SettledUnlessOverlapped' /\ OneRowPerSource'
      /\ CreditNeedsReview'
  BY DEF IInv, NeverOverpaid, SettledUnlessOverlapped, Settled, OneRowPerSource,
         CreditNeedsReview
<1>4. ASSUME NEW q \in Jobs PROVE JobFits(jobs[q])'
  <2>1. JobFits(jobs'[q])
    BY <1>1 DEF IInv
  <2>2. QED
    BY <2>1 DEF JobFits, CopyFits, IsReviewed, RecordedFrom, Settled
<1>5. DistinctInserts'
  BY <1>1 DEF IInv, DistinctInserts
<1>6. QED BY <1>2, <1>3, <1>4, <1>5 DEF IInv

(* A step in which an idle job takes copies.                               *)
LEMMA CopyStep ==
  ASSUME IInv, NEW j \in Jobs, NEW copies \in Copies, Copy(j, copies),
         \A i \in Fees : copies[i] # None =>
           /\ copies[i].paidAmount <= Payable[i]
           /\ i \notin overlapped => /\ Settled(i, copies[i])
                                     /\ copies[i].paidAmount >= fees[i].paidAmount
  PROVE  IInv'
<1>1. PICK job : job = [jobs[j] EXCEPT !.stage = "copied", !.copies = copies]
  OBVIOUS
<1>2. jobs[j] \in Job /\ jobs[j].stage = "idle" /\ jobs[j].pay = None
  BY DEF IInv, TypeOK, Copy, JobFits
<1>3. /\ job \in Job /\ job.stage = "copied" /\ job.copies = copies
      /\ job.pay = None
  BY <1>1, <1>2 DEF Job
<1>4. JobFits(job)
  BY <1>3 DEF JobFits, CopyFits
<1>5. jobs' = [jobs EXCEPT ![j] = job]
  BY <1>1, <1>2 DEF Copy, IInv, TypeOK
<1>6. QED BY <1>3, <1>4, <1>5, MemoryStep DEF Copy

LEMMA ManualPaymentStep ==
  ASSUME IInv, NEW j \in Jobs, NEW i \in Fees, NEW amount \in ManualAmounts,
         ManualPayment(j, i, amount)
  PROVE  IInv'
<1>1. PICK fee : fee = FoundById(i)
  OBVIOUS
<1>2. /\ fee \in FeeRow /\ fee.paidAmount = fees[i].paidAmount
      /\ fee.paidAmount <= Payable[i]
      /\ i \notin overlapped => Settled(i, fee)
  BY <1>1, FoundRow DEF IInv, NeverOverpaid, SettledUnlessOverlapped
<1>3. PICK late \in BOOLEAN : late = FALSE
  OBVIOUS
<1>4. PICK result : result = ApplyPayment(Payable[i], fee.paidAmount, fee.status,
                                          amount, late)
  OBVIOUS
<1>5. /\ result.paidAmount \in Nat /\ result.status \in FeeStatus
      /\ result.paidAmount <= Payable[i]
  <2>1. amount \in Nat
    OBVIOUS
  <2>2. QED BY <1>2, <1>4, <2>1, AppliedRow
<1>6. PICK row : row =
        [fee EXCEPT !.paidAmount = result.paidAmount, !.status = result.status,
                    !.dueAmount = IF result.paidAmount >= Payable[i] THEN 0 ELSE @]
  OBVIOUS
<1>7. /\ row \in FeeRow
      /\ row.paidAmount = result.paidAmount /\ row.status = result.status
      /\ result.paidAmount = Payable[i] => row.dueAmount = 0
  BY <1>2, <1>5, <1>6 DEF FeeRow
<1>8. /\ row.paidAmount <= Payable[i] /\ row.paidAmount >= fees[i].paidAmount
      /\ i \notin overlapped => Settled(i, row)
  <2>1. amount \in Nat
    OBVIOUS
  <2>2. /\ fee.paidAmount <= result.paidAmount
        /\ Settled(i, fee) =>
             (result.status = "PAID" <=> result.paidAmount = Payable[i])
    BY <1>2, <1>4, <2>1, AppliedRow
  <2>3. QED BY <1>2, <1>5, <1>7, <2>2 DEF Settled
<1>9. PICK copies : copies = CopyOf(i, row)
  OBVIOUS
<1>10. /\ copies \in Copies
      /\ \A b \in Fees : copies[b] # None => b = i /\ copies[b] = row
  BY <1>7, <1>9 DEF Copies, CopyOf, NoCopies
<1>11. Copy(j, copies)
  BY <1>1, <1>3, <1>4, <1>6, <1>9 DEF ManualPayment, Copy
<1>12. QED BY <1>8, <1>10, <1>11, CopyStep

LEMMA SetStatusStep ==
  ASSUME IInv, NEW j \in Jobs, NEW i \in Fees, NEW status \in StatusRequests,
         NEW payment \in (ManualAmounts \ {0}) \cup {None},
         SetStatus(j, i, status, payment)
  PROVE  IInv'
<1>1. PICK fee : fee = FoundById(i)
  OBVIOUS
<1>2. /\ fee \in FeeRow /\ fee.paidAmount = fees[i].paidAmount
      /\ fee.paidAmount <= Payable[i] /\ fee.paidAmount \in Nat
      /\ Payable[i] \in Nat
  BY <1>1, FoundRow DEF IInv, NeverOverpaid, FeeRow
<1>3. PICK nextPaid : nextPaid =
        IF payment = None THEN fee.paidAmount
        ELSE ApplyPayment(Payable[i], fee.paidAmount, fee.status, payment,
                          FALSE).paidAmount
  OBVIOUS
<1>4. /\ nextPaid \in Nat /\ fee.paidAmount <= nextPaid /\ nextPaid <= Payable[i]
  <2>1. CASE payment = None
    BY <1>2, <1>3, <2>1
  <2>2. CASE payment # None
    <3>1. payment \in Nat /\ FALSE \in BOOLEAN
      BY <2>2
    <3>2. QED BY <1>2, <1>3, <2>2, <3>1, AppliedRow
  <2>3. QED BY <2>1, <2>2
<1>5. PICK row : row =
        IF nextPaid >= Payable[i] \/ status = "PAID"
        THEN [fee EXCEPT !.paidAmount = IF nextPaid >= Payable[i] THEN nextPaid
                                        ELSE Payable[i],
                         !.status = "PAID", !.dueAmount = 0]
        ELSE [fee EXCEPT !.paidAmount = nextPaid, !.status = status]
  OBVIOUS
<1>6. /\ row \in FeeRow /\ Settled(i, row) /\ row.paidAmount >= fees[i].paidAmount
  <2>1. status \in FeeStatus /\ "PAID" \in FeeStatus
    BY DEF FeeStatus
  <2>2. CASE nextPaid >= Payable[i] \/ status = "PAID"
    <3>1. row = [fee EXCEPT !.paidAmount = Payable[i], !.status = "PAID",
                            !.dueAmount = 0]
      <4>1. nextPaid >= Payable[i] => nextPaid = Payable[i]
        BY <1>2, <1>4
      <4>2. QED BY <1>5, <2>2, <4>1
    <3>2. /\ row \in FeeRow /\ row.paidAmount = Payable[i]
          /\ row.status = "PAID" /\ row.dueAmount = 0
      BY <1>2, <2>1, <3>1 DEF FeeRow
    <3>3. QED BY <1>2, <3>2 DEF Settled
  <2>3. CASE ~(nextPaid >= Payable[i] \/ status = "PAID")
    <3>1. /\ row \in FeeRow /\ row.paidAmount = nextPaid /\ row.status = status
      BY <1>2, <1>4, <1>5, <2>1, <2>3 DEF FeeRow
    <3>2. QED BY <1>2, <1>4, <2>3, <3>1 DEF Settled
  <2>4. QED BY <2>2, <2>3
<1>7. PICK copies : copies = CopyOf(i, row)
  OBVIOUS
<1>8. /\ copies \in Copies
      /\ \A b \in Fees : copies[b] # None => b = i /\ copies[b] = row
  BY <1>6, <1>7 DEF Copies, CopyOf, NoCopies
<1>9. Copy(j, copies)
  BY <1>1, <1>3, <1>5, <1>7 DEF SetStatus, Copy
<1>10. row.paidAmount <= Payable[i]
  BY <1>6 DEF Settled
<1>11. QED BY <1>6, <1>8, <1>9, <1>10, CopyStep

LEMMA SyncOverdueFeesStep ==
  ASSUME IInv, NEW j \in Jobs, SyncOverdueFees(j)
  PROVE  IInv'
<1>1. PICK copies : copies =
        [i \in Fees |->
          IF i \in Overdue
          THEN [fees[i] EXCEPT !.status = "OVERDUE", !.outstandingAmount = Owed(i)]
          ELSE None]
  OBVIOUS
<1>2. ASSUME NEW i \in Fees, i \in Overdue
      PROVE  /\ copies[i] \in FeeRow /\ Settled(i, copies[i])
             /\ copies[i].paidAmount = fees[i].paidAmount
             /\ copies[i].paidAmount <= Payable[i] /\ copies[i].paidAmount \in Nat
  <2>1. /\ fees[i] \in FeeRow /\ fees[i].paidAmount <= Payable[i]
        /\ fees[i].paidAmount \in Nat /\ Payable[i] \in Nat
    BY DEF IInv, TypeOK, NeverOverpaid, FeeRow
  <2>2. Owed(i) \in Nat /\ fees[i].paidAmount # Payable[i]
    BY <1>2, <2>1 DEF Overdue, Owed, Outstanding, AtLeastZero
  <2>3. /\ copies[i] \in FeeRow /\ copies[i].paidAmount = fees[i].paidAmount
        /\ copies[i].status = "OVERDUE"
    <3>1. copies[i]
            = [fees[i] EXCEPT !.status = "OVERDUE", !.outstandingAmount = Owed(i)]
      BY <1>1, <1>2
    <3>2. QED BY <2>1, <2>2, <3>1 DEF FeeRow, FeeStatus
  <2>4. QED BY <2>1, <2>2, <2>3 DEF Settled
<1>3. /\ copies \in Copies
      /\ \A i \in Fees : i \notin Overdue => copies[i] = None
  BY <1>1, <1>2 DEF Copies
<1>4. Copy(j, copies)
  BY <1>1 DEF SyncOverdueFees, Copy
<1>5. \A i \in Fees : copies[i] # None =>
        /\ copies[i].paidAmount <= Payable[i] /\ Settled(i, copies[i])
        /\ copies[i].paidAmount >= fees[i].paidAmount
  BY <1>2, <1>3
<1>6. QED BY <1>3, <1>4, <1>5, CopyStep

-----------------------------------------------------------------------------
(* The steps of a review.                                                  *)
LEMMA DecideStep ==
  ASSUME IInv, NEW j \in Jobs, NEW p \in Proofs, NEW decision \in ProofRow,
         Decide(j, p, decision),
         decision.status \in Reviewed, decision.fee = proofs[p].fee
  PROVE  IInv'
<1>1. PICK job : job = [jobs[j] EXCEPT !.stage = "deciding", !.proof = p,
                                       !.decision = decision]
  OBVIOUS
<1>2. /\ jobs[j] \in Job /\ jobs[j].stage = "idle" /\ jobs[j].pay = None
      /\ jobs[j].copies = NoCopies
  BY DEF IInv, TypeOK, Decide, JobFits
<1>3. /\ job \in Job /\ job.stage = "deciding" /\ job.copies = NoCopies
      /\ job.pay = None /\ job.proof = p /\ job.decision = decision
  BY <1>1, <1>2 DEF Job
<1>4. proofs[p] # None
  BY DEF Decide
<1>5. JobFits(job)
  BY <1>3, <1>4 DEF JobFits, CopyFits, NoCopies
<1>6. jobs' = [jobs EXCEPT ![j] = job]
  BY <1>1, <1>2 DEF Decide, IInv, TypeOK
<1>7. QED BY <1>3, <1>5, <1>6, MemoryStep DEF Decide

LEMMA RejectProofStep ==
  ASSUME IInv, NEW j \in Jobs, NEW p \in Proofs, RejectProof(j, p)
  PROVE  IInv'
<1>1. PICK decision : decision = [proofs[p] EXCEPT !.status = "REJECTED"]
  OBVIOUS
<1>2. Decide(j, p, decision)
  BY <1>1 DEF RejectProof, Decide
<1>3. proofs[p] \in ProofRow
  BY <1>2 DEF Decide, IInv, TypeOK
<1>4. /\ decision \in ProofRow /\ decision.status \in Reviewed
      /\ decision.fee = proofs[p].fee
  BY <1>1, <1>3 DEF ProofRow, Reviewed
<1>5. QED BY <1>2, <1>4, DecideStep

LEMMA ApproveProofStep ==
  ASSUME IInv, NEW j \in Jobs, NEW p \in Proofs, ApproveProof(j, p)
  PROVE  IInv'
<1>1. PICK amount \in ProofAmounts \cup (IF proofs[p] = None THEN {}
                                        ELSE {proofs[p].amount}) :
        Decide(j, p, [proofs[p] EXCEPT !.status = "APPROVED", !.amount = amount])
  BY DEF ApproveProof
<1>2. PICK decision : decision = [proofs[p] EXCEPT !.status = "APPROVED",
                                                   !.amount = amount]
  OBVIOUS
<1>3. Decide(j, p, decision)
  BY <1>1, <1>2 DEF Decide
<1>4. proofs[p] \in ProofRow
  BY <1>3 DEF Decide, IInv, TypeOK
<1>5. amount \in Nat
  BY <1>1, <1>4, AskedAssumption DEF ProofRow
<1>6. /\ decision \in ProofRow /\ decision.status \in Reviewed
      /\ decision.fee = proofs[p].fee
  BY <1>2, <1>4, <1>5 DEF ProofRow, Reviewed
<1>7. QED BY <1>3, <1>6, DecideStep

LEMMA ApproveAgainStep ==
  ASSUME IInv, NEW j \in Jobs, NEW p \in Proofs, ApproveAgain(j, p)
  PROVE  IInv'
<1>1. PICK job : job = [jobs[j] EXCEPT !.stage = "crediting", !.proof = p]
  OBVIOUS
<1>2. /\ jobs[j] \in Job /\ jobs[j].stage = "idle" /\ jobs[j].pay = None
      /\ jobs[j].copies = NoCopies
  BY DEF IInv, TypeOK, ApproveAgain, JobFits
<1>3. /\ job \in Job /\ job.stage = "crediting" /\ job.copies = NoCopies
      /\ job.pay = None /\ job.proof = p
  BY <1>1, <1>2 DEF Job
<1>4. IsReviewed(p)
  BY DEF ApproveAgain, IsReviewed, Reviewed
<1>5. JobFits(job)
  BY <1>3, <1>4 DEF JobFits, CopyFits, NoCopies
<1>6. jobs' = [jobs EXCEPT ![j] = job]
  BY <1>1, <1>2 DEF ApproveAgain, IInv, TypeOK
<1>7. QED BY <1>3, <1>5, <1>6, MemoryStep DEF ApproveAgain

LEMMA IdleJob == /\ Idle \in Job
                 /\ Idle.stage = "idle" /\ Idle.pay = None /\ Idle.copies = NoCopies
BY DEF Idle, Job, Copies, NoCopies

LEMMA FailStep ==
  ASSUME IInv, NEW j \in Jobs, Fail(j)
  PROVE  IInv'
<1>1. JobFits(Idle)
  BY IdleJob DEF JobFits, CopyFits, NoCopies
<1>2. QED BY <1>1, IdleJob, MemoryStep DEF Fail

LEMMA SaveDecisionStep ==
  ASSUME IInv, NEW j \in Jobs, SaveDecision(j)
  PROVE  IInv'
<1>1. PICK p : p = jobs[j].proof
  OBVIOUS
<1>2. PICK decision : decision = jobs[j].decision
  OBVIOUS
<1>3. /\ p \in Proofs /\ proofs[p] # None /\ decision \in ProofRow
      /\ decision.status \in Reviewed /\ decision.fee = proofs[p].fee
      /\ decision # None
  BY <1>1, <1>2, NoneAssumption DEF SaveDecision, IInv, JobFits, NoneAssumption
<1>4. /\ proofs' = [proofs EXCEPT ![p] = decision]
      /\ proofs'[p] = decision
      /\ \A o \in Proofs : o # p => proofs'[o] = proofs[o]
  BY <1>1, <1>2, <1>3 DEF SaveDecision, IInv, TypeOK
<1>5. PICK job : job = IF decision.status = "APPROVED"
                       THEN [Idle EXCEPT !.stage = "crediting", !.proof = p]
                       ELSE Idle
  OBVIOUS
<1>6. /\ job \in Job /\ job.copies = NoCopies /\ job.pay = None
      /\ job.stage \in {"idle", "crediting"}
      /\ job.stage = "crediting" => job.proof = p
  BY <1>3, <1>5, IdleJob DEF Job
<1>7. /\ jobs' = [jobs EXCEPT ![j] = job]
      /\ jobs'[j] = job
      /\ \A q \in Jobs : q # j => jobs'[q] = jobs[q]
  BY <1>1, <1>2, <1>5 DEF SaveDecision, IInv, TypeOK
<1>8. UNCHANGED <<fees, payments, pastDue, overlapped>>
  BY DEF SaveDecision
<1>9. TypeOK'
  BY <1>3, <1>4, <1>6, <1>7, <1>8 DEF IInv, TypeOK
<1>10. NeverOverpaid' /\ SettledUnlessOverlapped' /\ OneRowPerSource'
  BY <1>8 DEF IInv, NeverOverpaid, SettledUnlessOverlapped, Settled, OneRowPerSource
<1>11. \A o \in Proofs : proofs[o] # None =>
        /\ proofs'[o] # None /\ proofs'[o].fee = proofs[o].fee
        /\ proofs[o].status \in Reviewed => proofs'[o].status \in Reviewed
  BY <1>3, <1>4
<1>12. CreditNeedsReview'
  BY <1>8, <1>11 DEF IInv, CreditNeedsReview
<1>13. ASSUME NEW q \in Jobs PROVE JobFits(jobs[q])'
  <2>1. CASE q = j
    <3>1. IsReviewed(p)'
      BY <1>3, <1>4 DEF IsReviewed
    <3>2. QED BY <1>6, <1>7, <2>1, <3>1 DEF JobFits, CopyFits, NoCopies
  <2>2. CASE q # j
    <3>1. JobFits(jobs[q]) /\ jobs'[q] = jobs[q]
      BY <1>7, <2>2 DEF IInv
    <3>2. \A o : IsReviewed(o) => IsReviewed(o)' /\ proofs'[o].fee = proofs[o].fee
      BY <1>11 DEF IsReviewed
    <3>3. \A i \in Fees : CopyFits(jobs[q], i)'
      BY <1>8, <3>1 DEF JobFits, CopyFits, Settled
    <3>4. QED
      BY <1>8, <1>11, <3>1, <3>2, <3>3 DEF JobFits, RecordedFrom
  <2>3. QED BY <2>1, <2>2
<1>14. DistinctInserts'
  BY <1>6, <1>7 DEF IInv, DistinctInserts
<1>15. QED BY <1>9, <1>10, <1>12, <1>13, <1>14 DEF IInv

LEMMA SubmitProofStep ==
  ASSUME IInv, NEW p \in Proofs, NEW i \in Fees, SubmitProof(p, i)
  PROVE  IInv'
<1>1. PICK amount \in ProofAmounts \cup ({Owed(i)} \ {0}) :
        proofs' = [proofs EXCEPT ![p] =
                     [status |-> "PENDING", fee |-> i, amount |-> amount]]
  BY DEF SubmitProof
<1>2. UNCHANGED <<fees, payments, pastDue, jobs, overlapped>> /\ proofs[p] = None
  BY DEF SubmitProof
<1>3. amount \in Nat
  <2>1. Owed(i) \in Nat
    BY DEF Owed, Outstanding, AtLeastZero, IInv, TypeOK, FeeRow
  <2>2. QED BY <1>1, <2>1, AskedAssumption
<1>4. [status |-> "PENDING", fee |-> i, amount |-> amount] \in ProofRow
  BY <1>3 DEF ProofRow
<1>5. TypeOK'
  BY <1>1, <1>2, <1>4 DEF IInv, TypeOK
<1>6. \A o \in Proofs : proofs[o] # None => proofs'[o] = proofs[o]
  BY <1>1, <1>2 DEF IInv, TypeOK
<1>7. NeverOverpaid' /\ SettledUnlessOverlapped' /\ OneRowPerSource'
  BY <1>2 DEF IInv, NeverOverpaid, SettledUnlessOverlapped, Settled, OneRowPerSource
<1>8. CreditNeedsReview'
  BY <1>2, <1>6 DEF IInv, CreditNeedsReview
<1>9. ASSUME NEW q \in Jobs PROVE JobFits(jobs[q])'
  <2>1. JobFits(jobs[q]) /\ jobs'[q] = jobs[q]
    BY <1>2 DEF IInv
  <2>2. \A o : IsReviewed(o) => IsReviewed(o)' /\ proofs'[o].fee = proofs[o].fee
    BY <1>6 DEF IsReviewed
  <2>3. \A b \in Fees : CopyFits(jobs[q], b)'
    BY <1>2, <2>1 DEF JobFits, CopyFits, Settled
  <2>4. QED BY <1>2, <1>6, <2>1, <2>2, <2>3 DEF JobFits, RecordedFrom
<1>10. DistinctInserts'
  BY <1>2 DEF IInv, DistinctInserts
<1>11. QED BY <1>5, <1>7, <1>8, <1>9, <1>10 DEF IInv

LEMMA DueDatePassesStep ==
  ASSUME IInv, NEW i \in Fees, DueDatePasses(i)
  PROVE  IInv'
<1>1. /\ UNCHANGED <<fees, payments, proofs, jobs, overlapped>>
      /\ pastDue' \in [Fees -> BOOLEAN]
  BY DEF DueDatePasses, IInv, TypeOK
<1>2. TypeOK' /\ NeverOverpaid' /\ SettledUnlessOverlapped' /\ OneRowPerSource'
      /\ CreditNeedsReview' /\ DistinctInserts'
  BY <1>1 DEF IInv, TypeOK, NeverOverpaid, SettledUnlessOverlapped, Settled,
              OneRowPerSource, CreditNeedsReview, DistinctInserts
<1>3. ASSUME NEW q \in Jobs PROVE JobFits(jobs[q])'
  BY <1>1 DEF IInv, JobFits, CopyFits, Settled, IsReviewed, RecordedFrom
<1>4. QED BY <1>2, <1>3 DEF IInv

-----------------------------------------------------------------------------
(* The steps of a save, and the two that write the fee row.                *)
LEMMA LoadCreditStep ==
  ASSUME IInv, NEW j \in Jobs, LoadCredit(j)
  PROVE  IInv'
<1>1. PICK p : p = jobs[j].proof
  OBVIOUS
<1>2. PICK proof : proof = proofs[p]
  OBVIOUS
<1>3. PICK i : i = proof.fee
  OBVIOUS
<1>4. /\ jobs[j] \in Job /\ jobs[j].stage = "crediting" /\ JobFits(jobs[j])
      /\ jobs[j].copies = NoCopies /\ jobs[j].pay = None /\ IsReviewed(p)
  BY <1>1 DEF LoadCredit, IInv, TypeOK, JobFits
<1>5. /\ proof \in ProofRow /\ i \in Fees /\ p \in Proofs
      /\ proof.amount \in Nat /\ fees[i] \in FeeRow
      /\ fees[i].paidAmount <= Payable[i] /\ fees[i].paidAmount \in Nat
      /\ fees[i].dueAmount \in Nat /\ Payable[i] \in Nat
      /\ pastDue[i] \in BOOLEAN
      /\ i \notin overlapped => Settled(i, fees[i])
  <2>1. proof \in ProofRow /\ p \in Proofs
    BY <1>2, <1>4 DEF IsReviewed, IInv, TypeOK
  <2>2. i \in Fees /\ proof.amount \in Nat
    BY <1>3, <2>1 DEF ProofRow
  <2>3. QED
    BY <2>1, <2>2 DEF IInv, TypeOK, NeverOverpaid, SettledUnlessOverlapped, FeeRow
<1>6. PICK result : result = ApplyPayment(Payable[i], fees[i].paidAmount,
                                fees[i].status, proof.amount, pastDue[i])
  OBVIOUS
<1>7. /\ result.paidAmount \in Nat /\ result.outstandingAmount \in Nat
      /\ result.status \in FeeStatus /\ result.paidAmount <= Payable[i]
      /\ fees[i].paidAmount <= result.paidAmount
      /\ fees[i].status = "CANCELLED" => result.paidAmount = fees[i].paidAmount
      /\ Settled(i, fees[i]) =>
           (result.status = "PAID" <=> result.paidAmount = Payable[i])
  BY <1>5, <1>6, AppliedRow
<1>8. PICK row : row =
        [paidAmount |-> result.paidAmount,
         outstandingAmount |-> result.outstandingAmount,
         dueAmount |-> IF result.paidAmount >= Payable[i] THEN 0
                       ELSE fees[i].dueAmount,
         status |-> result.status]
  OBVIOUS
<1>9. /\ row \in FeeRow /\ row.paidAmount = result.paidAmount
      /\ row.status = result.status
      /\ result.paidAmount = Payable[i] => row.dueAmount = 0
  BY <1>5, <1>7, <1>8 DEF FeeRow
<1>10. i \notin overlapped => Settled(i, row)
  BY <1>5, <1>7, <1>9 DEF Settled
<1>11. PICK copies : copies = CopyOf(i, row)
  OBVIOUS
<1>12. /\ copies \in Copies
       /\ \A b \in Fees : copies[b] # None => b = i /\ copies[b] = row
  BY <1>5, <1>9, <1>11 DEF Copies, CopyOf, NoCopies
<1>13. PICK pay : pay = [from |-> p, invoice |-> i, amount |-> proof.amount]
  OBVIOUS
<1>14. pay \in PaymentRow /\ pay.from = p /\ pay.invoice = i
  BY <1>5, <1>13 DEF PaymentRow
<1>15. PICK job : job = [jobs[j] EXCEPT !.stage = "copied", !.copies = copies,
                                        !.pay = pay]
  OBVIOUS
<1>16. /\ job \in Job /\ job.stage = "copied" /\ job.copies = copies
       /\ job.pay = pay
  BY <1>4, <1>12, <1>14, <1>15 DEF Job
<1>17. JobFits(job)
  <2>1. ASSUME NEW b \in Fees PROVE CopyFits(job, b)
    BY <1>7, <1>9, <1>10, <1>12, <1>16 DEF CopyFits
  <2>2. QED BY <1>2, <1>3, <1>4, <1>14, <1>16, <2>1 DEF JobFits
<1>18. jobs' = [jobs EXCEPT ![j] = job]
  <2>1. jobs' = [jobs EXCEPT ![j].stage = "copied", ![j].copies = copies,
                             ![j].pay = pay]
    BY <1>1, <1>2, <1>3, <1>6, <1>8, <1>11, <1>13, Zenon DEF LoadCredit
  <2>2. QED BY <1>4, <1>15, <2>1 DEF IInv, TypeOK
<1>19. QED BY <1>16, <1>17, <1>18, MemoryStep DEF LoadCredit

LEMMA DiffStep ==
  ASSUME IInv, NEW j \in Jobs, Diff(j)
  PROVE  IInv'
<1>1. PICK found : found = [i \in Fees |-> IF Holding(j, i) THEN fees[i] ELSE None]
  OBVIOUS
<1>2. PICK pay : pay = IF jobs[j].pay = None THEN None
                       ELSE IF RecordedFrom(jobs[j].pay.from) THEN None
                       ELSE jobs[j].pay
  OBVIOUS
<1>3. /\ jobs[j] \in Job /\ jobs[j].stage = "copied" /\ JobFits(jobs[j])
  BY DEF Diff, IInv, TypeOK
<1>4. found \in Copies
  BY <1>1 DEF Copies, IInv, TypeOK
<1>5. /\ pay \in PaymentRow \cup {None}
      /\ pay # None => pay = jobs[j].pay /\ ~RecordedFrom(pay.from)
  BY <1>2, <1>3 DEF Job
<1>6. PICK job : job = [jobs[j] EXCEPT !.stage = "diffed", !.found = found,
                                       !.pay = pay]
  OBVIOUS
<1>7. /\ job \in Job /\ job.stage = "diffed" /\ job.copies = jobs[j].copies
      /\ job.found = found /\ job.pay = pay
  BY <1>3, <1>4, <1>5, <1>6 DEF Job
<1>8. JobFits(job)
  <2>1. ASSUME NEW i \in Fees PROVE CopyFits(job, i)
    <3>1. CopyFits(jobs[j], i)
      BY <1>3 DEF JobFits
    <3>2. CASE job.copies[i] # None
      <4>1. found[i] = fees[i] /\ fees[i] \in FeeRow
        BY <1>1, <1>7, <3>2 DEF Holding, IInv, TypeOK
      <4>2. fees[i] # None
        BY <3>2, <1>7, <4>1, NoneAssumption DEF NoneAssumption
      <4>3. QED BY <1>5, <1>7, <3>1, <3>2, <4>1, <4>2 DEF CopyFits
    <3>3. CASE job.copies[i] = None
      BY <3>3 DEF CopyFits
    <3>4. QED BY <3>2, <3>3
  <2>2. QED BY <1>3, <1>5, <1>7, <2>1 DEF JobFits
<1>9. jobs' = [jobs EXCEPT ![j] = job]
  BY <1>1, <1>2, <1>3, <1>6 DEF Diff, IInv, TypeOK
<1>10. \A q \in Jobs \ {j} :
         /\ job.stage = "diffed" /\ job.pay # None
         /\ jobs[q].stage = "diffed" /\ jobs[q].pay # None
         => jobs[q].pay.from # job.pay.from
  BY <1>5, <1>7 DEF Diff
<1>11. QED BY <1>7, <1>8, <1>9, <1>10, MemoryStep DEF Diff

(* What an UPDATE of the differing columns leaves in a row.                *)
LEMMA ChangedRow ==
  ASSUME NEW entity \in FeeRow, NEW found \in FeeRow, NEW current \in FeeRow,
         NEW row, row = Changed(entity, found, current)
  PROVE  /\ row \in FeeRow
         /\ row.paidAmount \in {entity.paidAmount, current.paidAmount}
         /\ found = current => row = entity
<1>1. DOMAIN current = {"paidAmount", "outstandingAmount", "dueAmount", "status"}
  BY DEF FeeRow
<1>2. row = [c \in {"paidAmount", "outstandingAmount", "dueAmount", "status"} |->
               IF entity[c] # found[c] THEN entity[c] ELSE current[c]]
  BY <1>1 DEF Changed
<1>3. row = [paidAmount |-> row.paidAmount,
             outstandingAmount |-> row.outstandingAmount,
             dueAmount |-> row.dueAmount, status |-> row.status]
  BY <1>2
<1>4. /\ row.paidAmount \in {entity.paidAmount, current.paidAmount}
      /\ row.outstandingAmount \in {entity.outstandingAmount, current.outstandingAmount}
      /\ row.dueAmount \in {entity.dueAmount, current.dueAmount}
      /\ row.status \in {entity.status, current.status}
  BY <1>2
<1>5. /\ entity.paidAmount \in Nat /\ entity.outstandingAmount \in Nat
      /\ entity.dueAmount \in Nat /\ entity.status \in FeeStatus
      /\ current.paidAmount \in Nat /\ current.outstandingAmount \in Nat
      /\ current.dueAmount \in Nat /\ current.status \in FeeStatus
  BY DEF FeeRow
<1>6. row \in FeeRow
  BY <1>3, <1>4, <1>5 DEF FeeRow
<1>7. ASSUME found = current PROVE row = entity
  <2>1. /\ row.paidAmount = entity.paidAmount
        /\ row.outstandingAmount = entity.outstandingAmount
        /\ row.dueAmount = entity.dueAmount /\ row.status = entity.status
    BY <1>2, <1>7
  <2>2. entity = [paidAmount |-> entity.paidAmount,
                  outstandingAmount |-> entity.outstandingAmount,
                  dueAmount |-> entity.dueAmount, status |-> entity.status]
    BY DEF FeeRow
  <2>3. QED BY <1>3, <2>1, <2>2
<1>8. QED BY <1>4, <1>6, <1>7

LEMMA PayInvoiceStep ==
  ASSUME IInv, NEW r \in Requests, NEW i \in Fees, NEW amount \in Amounts,
         PayInvoice(r, i, amount)
  PROVE  IInv'
<1>1. PICK result : result = ApplyPayment(Payable[i], fees[i].paidAmount,
                                          fees[i].status, amount, pastDue[i])
  OBVIOUS
<1>2. PICK pay : pay = [from |-> r, invoice |-> i, amount |-> amount]
  OBVIOUS
<1>3. PICK row : row =
        [paidAmount |-> result.paidAmount,
         outstandingAmount |-> result.outstandingAmount,
         dueAmount |-> IF result.outstandingAmount = 0 THEN 0
                       ELSE fees[i].dueAmount,
         status |-> result.status]
  OBVIOUS
<1>4. /\ \A p \in payments : p.from # r
      /\ payments' = payments \cup {pay}
      /\ fees' = [fees EXCEPT ![i] = row]
      /\ overlapped' = overlapped \cup {b \in {i} : \E j \in Jobs : Holding(j, b)}
      /\ UNCHANGED <<proofs, pastDue, jobs>>
  BY <1>1, <1>2, <1>3, Zenon DEF PayInvoice
<1>5. /\ fees[i] \in FeeRow /\ fees[i].paidAmount <= Payable[i]
      /\ fees[i].paidAmount \in Nat /\ fees[i].dueAmount \in Nat
      /\ Payable[i] \in Nat /\ pastDue[i] \in BOOLEAN /\ amount \in Nat
      /\ amount \in Nat \ {0}
      /\ i \notin overlapped => Settled(i, fees[i])
  BY DEF IInv, TypeOK, NeverOverpaid, SettledUnlessOverlapped, FeeRow
<1>6. /\ result.paidAmount \in Nat /\ result.outstandingAmount \in Nat
      /\ result.status \in FeeStatus /\ result.paidAmount <= Payable[i]
      /\ result.outstandingAmount = Payable[i] - result.paidAmount
      /\ Settled(i, fees[i]) =>
           (result.status = "PAID" <=> result.paidAmount = Payable[i])
  BY <1>1, <1>5, AppliedRow
<1>7. /\ row \in FeeRow /\ row.paidAmount <= Payable[i]
      /\ i \notin overlapped => Settled(i, row)
  <2>1. /\ row \in FeeRow /\ row.paidAmount = result.paidAmount
        /\ row.status = result.status
        /\ result.outstandingAmount = 0 => row.dueAmount = 0
    BY <1>3, <1>5, <1>6 DEF FeeRow
  <2>2. QED BY <1>5, <1>6, <2>1 DEF Settled
<1>8. pay \in PaymentRow /\ pay.from = r
  BY <1>2, <1>5 DEF PaymentRow
<1>9. /\ fees'[i] = row
      /\ \A b \in Fees : b # i => fees'[b] = fees[b]
      /\ \A b \in Fees : b \notin overlapped' => b \notin overlapped
  BY <1>4 DEF IInv, TypeOK
<1>10. TypeOK'
  BY <1>4, <1>7, <1>8 DEF IInv, TypeOK
<1>11. NeverOverpaid' /\ SettledUnlessOverlapped'
  BY <1>4, <1>7, <1>9
  DEF IInv, NeverOverpaid, SettledUnlessOverlapped, Settled
<1>12. OneRowPerSource'
  BY <1>4, <1>8 DEF IInv, OneRowPerSource
<1>13. CreditNeedsReview'
  BY <1>4, <1>8 DEF IInv, CreditNeedsReview
<1>14. ASSUME NEW q \in Jobs PROVE JobFits(jobs[q])'
  <2>1. JobFits(jobs[q]) /\ jobs'[q] = jobs[q]
    BY <1>4 DEF IInv
  <2>2. \A o \in Proofs : RecordedFrom(o)' => RecordedFrom(o)
    BY <1>4, <1>8 DEF RecordedFrom
  <2>3. ASSUME NEW b \in Fees PROVE CopyFits(jobs[q], b)'
    <3>1. CopyFits(jobs[q], b)
      BY <2>1 DEF JobFits
    <3>2. CASE b = i
      <4>1. jobs[q].copies[b] # None => b \in overlapped'
        BY <1>4, <3>2 DEF Holding
      <4>2. QED BY <2>1, <3>1, <4>1 DEF CopyFits
    <3>3. CASE b # i
      BY <1>9, <2>1, <3>1, <3>3 DEF CopyFits, Settled
    <3>4. QED BY <3>2, <3>3
  <2>4. QED BY <1>4, <2>1, <2>2, <2>3 DEF JobFits, IsReviewed
<1>15. DistinctInserts'
  BY <1>4 DEF IInv, DistinctInserts
<1>16. QED BY <1>10, <1>11, <1>12, <1>13, <1>14, <1>15 DEF IInv

LEMMA WriteStep ==
  ASSUME IInv, NEW j \in Jobs, Write(j)
  PROVE  IInv'
<1>1. PICK job : job = jobs[j]
  OBVIOUS
<1>2. /\ job \in Job /\ JobFits(job) /\ job.stage = "diffed"
      /\ fees' = [i \in Fees |->
           IF job.copies[i] # None
           THEN Changed(job.copies[i], job.found[i], fees[i]) ELSE fees[i]]
      /\ payments' = payments \cup ({job.pay} \ {None})
      /\ overlapped' = overlapped \cup
           {i \in Fees : Holding(j, i) /\ \E q \in Jobs \ {j} : Holding(q, i)}
      /\ jobs' = [jobs EXCEPT ![j] = Idle]
      /\ UNCHANGED <<proofs, pastDue>>
  <2>1. job \in Job /\ JobFits(job)
    BY <1>1 DEF IInv, TypeOK
  <2>2. QED BY <1>1, <2>1 DEF Write, Holding
<1>3. /\ jobs'[j] = Idle /\ \A q \in Jobs : q # j => jobs'[q] = jobs[q]
      /\ overlapped \subseteq overlapped' /\ overlapped' \subseteq Fees
      /\ \A i \in Fees, q \in Jobs \ {j} :
           job.copies[i] # None /\ jobs[q].copies[i] # None => i \in overlapped'
  BY <1>1, <1>2 DEF IInv, TypeOK, Holding
<1>4. ASSUME NEW i \in Fees
      PROVE  /\ fees'[i] \in FeeRow /\ fees'[i].paidAmount <= Payable[i]
             /\ i \notin overlapped => Settled(i, fees'[i])
             /\ job.copies[i] = None => fees'[i] = fees[i]
  <2>1. /\ fees[i] \in FeeRow /\ fees[i].paidAmount <= Payable[i]
        /\ i \notin overlapped => Settled(i, fees[i])
    BY DEF IInv, TypeOK, NeverOverpaid, SettledUnlessOverlapped
  <2>2. CASE job.copies[i] = None
    BY <1>2, <2>1, <2>2
  <2>3. CASE job.copies[i] # None
    <3>1. CopyFits(job, i)
      BY <1>2 DEF JobFits
    <3>2. job.copies[i] \in FeeRow /\ job.found[i] \in FeeRow
      BY <1>2, <2>3, <3>1 DEF Job, Copies, CopyFits
    <3>3. fees'[i] = Changed(job.copies[i], job.found[i], fees[i])
      BY <1>2, <2>3
    <3>4. /\ fees'[i] \in FeeRow
          /\ fees'[i].paidAmount \in {job.copies[i].paidAmount, fees[i].paidAmount}
          /\ job.found[i] = fees[i] => fees'[i] = job.copies[i]
      BY <2>1, <3>2, <3>3, ChangedRow
    <3>5. fees'[i].paidAmount <= Payable[i]
      BY <2>1, <2>3, <3>1, <3>4 DEF CopyFits
    <3>6. i \notin overlapped => Settled(i, fees'[i])
      BY <1>2, <2>3, <3>1, <3>4 DEF CopyFits
    <3>7. QED BY <2>3, <3>4, <3>5, <3>6
  <2>4. QED BY <2>2, <2>3
<1>5. job.pay # None =>
        /\ job.pay \in PaymentRow /\ ~RecordedFrom(job.pay.from)
        /\ IsReviewed(job.pay.from) /\ proofs[job.pay.from].fee = job.pay.invoice
  BY <1>2 DEF JobFits, Job
<1>6. TypeOK'
  <2>1. fees' \in [Fees -> FeeRow]
    BY <1>2, <1>4
  <2>2. jobs' \in [Jobs -> Job] /\ payments' \subseteq PaymentRow
    BY <1>2, <1>5, IdleJob DEF IInv, TypeOK
  <2>3. QED BY <1>2, <1>3, <2>1, <2>2 DEF IInv, TypeOK
<1>7. NeverOverpaid' /\ SettledUnlessOverlapped'
  BY <1>3, <1>4 DEF NeverOverpaid, SettledUnlessOverlapped, Settled
<1>8. OneRowPerSource'
  BY <1>2, <1>5 DEF IInv, OneRowPerSource, RecordedFrom
<1>9. CreditNeedsReview'
  BY <1>2, <1>5 DEF IInv, CreditNeedsReview, IsReviewed
<1>10. ASSUME NEW q \in Jobs PROVE JobFits(jobs[q])'
  <2>1. CASE q = j
    BY <1>3, <2>1, IdleJob DEF JobFits, CopyFits, NoCopies
  <2>2. CASE q # j
    <3>1. JobFits(jobs[q]) /\ jobs'[q] = jobs[q]
      BY <1>3, <2>2 DEF IInv
    <3>2. ASSUME NEW i \in Fees PROVE CopyFits(jobs[q], i)'
      <4>1. CopyFits(jobs[q], i)
        BY <3>1 DEF JobFits
      <4>2. job.copies[i] # None /\ jobs[q].copies[i] # None => i \in overlapped'
        BY <1>3, <2>2
      <4>3. i \in overlapped => i \in overlapped'
        BY <1>3
      <4>4. QED BY <1>4, <3>1, <4>1, <4>2, <4>3 DEF CopyFits, Settled
    <3>3. /\ jobs[q].stage = "diffed" /\ jobs[q].pay # None
          => ~RecordedFrom(jobs[q].pay.from)'
      <4>1. /\ jobs[q].stage = "diffed" /\ jobs[q].pay # None /\ job.pay # None
            => jobs[q].pay.from # job.pay.from
        BY <1>1, <1>2, <2>2 DEF IInv, DistinctInserts
      <4>2. QED BY <1>2, <3>1, <4>1 DEF JobFits, RecordedFrom
    <3>4. QED BY <1>2, <3>1, <3>2, <3>3 DEF JobFits, IsReviewed
  <2>3. QED BY <2>1, <2>2
<1>11. DistinctInserts'
  BY <1>3, IdleJob DEF IInv, DistinctInserts
<1>12. QED BY <1>6, <1>7, <1>8, <1>9, <1>10, <1>11 DEF IInv

-----------------------------------------------------------------------------
LEMMA InitIInv == Init => IInv
<1> SUFFICES ASSUME Init PROVE IInv
  OBVIOUS
<1>1. ASSUME NEW i \in Fees
      PROVE  /\ fees[i] \in FeeRow /\ fees[i].paidAmount <= Payable[i]
             /\ Settled(i, fees[i])
  <2>1. fees[i] = [paidAmount |-> 0, outstandingAmount |-> Payable[i],
                   dueAmount |-> CarriedDue[i], status |-> "PENDING"]
    BY DEF Init
  <2>2. Payable[i] \in Nat \ {0} /\ CarriedDue[i] \in Nat
    OBVIOUS
  <2>3. QED BY <2>1, <2>2 DEF FeeRow, FeeStatus, Settled
<1>2. TypeOK
  BY <1>1, IdleJob DEF Init, TypeOK
<1>3. NeverOverpaid /\ SettledUnlessOverlapped
  BY <1>1 DEF NeverOverpaid, SettledUnlessOverlapped
<1>4. OneRowPerSource /\ CreditNeedsReview
  BY DEF Init, OneRowPerSource, CreditNeedsReview
<1>5. (\A j \in Jobs : JobFits(jobs[j])) /\ DistinctInserts
  <2>1. \A j \in Jobs : jobs[j] = Idle
    BY DEF Init
  <2>2. JobFits(Idle)
    BY IdleJob DEF JobFits, CopyFits, NoCopies
  <2>3. QED BY <2>1, <2>2, IdleJob DEF DistinctInserts
<1>6. QED BY <1>2, <1>3, <1>4, <1>5 DEF IInv

LEMMA NextIInv == IInv /\ [Next]_vars => IInv'
<1> SUFFICES ASSUME IInv, [Next]_vars PROVE IInv'
  OBVIOUS
<1>1. CASE UNCHANGED vars
  BY <1>1 DEF vars, IInv, TypeOK, NeverOverpaid, SettledUnlessOverlapped, Settled,
              OneRowPerSource, CreditNeedsReview, JobFits, CopyFits, IsReviewed,
              RecordedFrom, DistinctInserts
<1>2. ASSUME NEW r \in Requests, NEW i \in Fees, NEW a \in Amounts,
             PayInvoice(r, i, a)
      PROVE  IInv'
  BY <1>2, PayInvoiceStep
<1>3. ASSUME NEW p \in Proofs, NEW i \in Fees, SubmitProof(p, i) PROVE IInv'
  BY <1>3, SubmitProofStep
<1>4. ASSUME NEW i \in Fees, DueDatePasses(i) PROVE IInv'
  BY <1>4, DueDatePassesStep
<1>5. ASSUME NEW j \in Jobs, NEW i \in Fees, NEW a \in ManualAmounts,
             ManualPayment(j, i, a)
      PROVE  IInv'
  BY <1>5, ManualPaymentStep
<1>6. ASSUME NEW j \in Jobs, NEW i \in Fees, NEW s \in StatusRequests,
             NEW a \in (ManualAmounts \ {0}) \cup {None}, SetStatus(j, i, s, a)
      PROVE  IInv'
  BY <1>6, SetStatusStep
<1>7. ASSUME NEW j \in Jobs, SyncOverdueFees(j) PROVE IInv'
  BY <1>7, SyncOverdueFeesStep
<1>8. ASSUME NEW j \in Jobs, NEW p \in Proofs,
             RejectProof(j, p) \/ ApproveProof(j, p) \/ ApproveAgain(j, p)
      PROVE  IInv'
  BY <1>8, RejectProofStep, ApproveProofStep, ApproveAgainStep
<1>9. ASSUME NEW j \in Jobs,
             \/ SaveDecision(j) \/ LoadCredit(j)
             \/ Diff(j) \/ Write(j) \/ Fail(j)
      PROVE  IInv'
  BY <1>9, SaveDecisionStep, LoadCreditStep, DiffStep, WriteStep, FailStep
<1>10. QED
  BY <1>1, <1>2, <1>3, <1>4, <1>5, <1>6, <1>7, <1>8, <1>9 DEF Next

(* The invariant the others are parts of or follow from.                   *)
THEOREM Invariance == Spec => []IInv
BY InitIInv, NextIInv, PTL DEF Spec

(* Rows, copies and audit rows keep their types; no column goes negative.  *)
THEOREM TypeCorrect == Spec => []TypeOK
<1>1. IInv => TypeOK
  BY DEF IInv
<1>2. QED BY <1>1, Invariance, PTL

(* Lost updates and stale copies included, no bill is ever credited more   *)
(* than it asks for.                                                       *)
THEOREM BillsNeverOverpaid == Spec => []NeverOverpaid
<1>1. IInv => NeverOverpaid
  BY DEF IInv
<1>2. QED BY <1>1, Invariance, PTL

(* The status follows the amounts wherever writers did not overlap.        *)
THEOREM StatusFollowsLedger == Spec => []SettledUnlessOverlapped
<1>1. IInv => SettledUnlessOverlapped
  BY DEF IInv
<1>2. QED BY <1>1, Invariance, PTL

(* However often and concurrently a proof is approved, it leaves one row.  *)
THEOREM OneAuditRow == Spec => []OneRowPerSource
<1>1. IInv => OneRowPerSource
  BY DEF IInv
<1>2. QED BY <1>1, Invariance, PTL

(* Nothing is recorded from a proof nobody reviewed.                       *)
THEOREM CreditsReviewed == Spec => []CreditNeedsReview
<1>1. IInv => CreditNeedsReview
  BY DEF IInv
<1>2. QED BY <1>1, Invariance, PTL

-----------------------------------------------------------------------------
(* Only POST /pay and a save's last step write a fee row, only a submission *)
(* and a saved decision a proof.                                           *)
LEMMA CopyOnly ==
  ASSUME NEW j \in Jobs,
         \/ \E i \in Fees, a \in ManualAmounts : ManualPayment(j, i, a)
         \/ \E i \in Fees, s \in StatusRequests :
              \E a \in (ManualAmounts \ {0}) \cup {None} : SetStatus(j, i, s, a)
         \/ SyncOverdueFees(j)
  PROVE  UNCHANGED <<fees, payments, proofs>>
<1>1. ASSUME NEW i \in Fees, NEW a \in ManualAmounts, ManualPayment(j, i, a)
      PROVE  UNCHANGED <<fees, payments, proofs>>
  BY <1>1 DEF ManualPayment, Copy
<1>2. ASSUME NEW i \in Fees, NEW s \in StatusRequests,
             NEW a \in (ManualAmounts \ {0}) \cup {None}, SetStatus(j, i, s, a)
      PROVE  UNCHANGED <<fees, payments, proofs>>
  BY <1>2 DEF SetStatus, Copy
<1>3. ASSUME SyncOverdueFees(j) PROVE UNCHANGED <<fees, payments, proofs>>
  BY <1>3 DEF SyncOverdueFees, Copy
<1>4. QED BY <1>1, <1>2, <1>3

LEMMA ReviewOnly ==
  ASSUME NEW j \in Jobs, NEW p \in Proofs,
         RejectProof(j, p) \/ ApproveProof(j, p) \/ ApproveAgain(j, p)
  PROVE  UNCHANGED <<fees, payments, proofs>>
BY DEF RejectProof, ApproveProof, ApproveAgain, Decide

LEMMA Writers ==
  ASSUME Next
  PROVE  /\ \/ \E o \in Proofs, i \in Fees : SubmitProof(o, i)
            \/ \E j \in Jobs : SaveDecision(j)
            \/ UNCHANGED proofs
         /\ \/ \E r \in Requests, b \in Fees, a \in Amounts : PayInvoice(r, b, a)
            \/ \E j \in Jobs : Write(j)
            \/ UNCHANGED <<fees, payments>>
<1>1. ASSUME NEW r \in Requests, NEW b \in Fees, NEW a \in Amounts,
             PayInvoice(r, b, a)
      PROVE  UNCHANGED proofs
  BY <1>1 DEF PayInvoice
<1>2. ASSUME NEW o \in Proofs, NEW i \in Fees, SubmitProof(o, i)
      PROVE  UNCHANGED <<fees, payments>>
  BY <1>2 DEF SubmitProof
<1>3. ASSUME NEW i \in Fees, DueDatePasses(i)
      PROVE  UNCHANGED <<fees, payments, proofs>>
  BY <1>3 DEF DueDatePasses
<1>4. ASSUME NEW j \in Jobs, LoadCredit(j) \/ Diff(j) \/ Fail(j)
      PROVE  UNCHANGED <<fees, payments, proofs>>
  <2>1. CASE LoadCredit(j)
    BY <2>1 DEF LoadCredit
  <2>2. CASE Diff(j)
    BY <2>2 DEF Diff
  <2>3. CASE Fail(j)
    BY <2>3 DEF Fail
  <2>4. QED BY <1>4, <2>1, <2>2, <2>3
<1>5. ASSUME NEW j \in Jobs, SaveDecision(j) PROVE UNCHANGED <<fees, payments>>
  BY <1>5 DEF SaveDecision
<1>6. ASSUME NEW j \in Jobs, Write(j) PROVE UNCHANGED proofs
  BY <1>6 DEF Write
<1>7. QED BY <1>1, <1>2, <1>3, <1>4, <1>5, <1>6, CopyOnly, ReviewOnly DEF Next

LEMMA ReviewStaysStep ==
  ASSUME IInv, Next, NEW p \in Proofs, IsReviewed(p)
  PROVE  proofs'[p].status \in Reviewed
<1>1. CASE \E o \in Proofs, i \in Fees : SubmitProof(o, i)
  BY <1>1 DEF SubmitProof, IsReviewed, IInv, TypeOK
<1>2. CASE \E j \in Jobs : SaveDecision(j)
  BY <1>2 DEF SaveDecision, IsReviewed, IInv, TypeOK, JobFits
<1>3. CASE UNCHANGED proofs
  BY <1>3 DEF IsReviewed
<1>4. QED BY <1>1, <1>2, <1>3, Writers

(* No interleaving of reviews reopens a proof.                             *)
THEOREM ReviewsStay == Spec => ReviewIsFinal
<1>1. IInv /\ [Next]_vars =>
        [\A p \in Proofs : proofs[p] # None /\ proofs[p].status \in Reviewed
           => proofs'[p].status \in Reviewed]_vars
  BY ReviewStaysStep DEF IsReviewed
<1>2. QED BY <1>1, Invariance, PTL DEF Spec, ReviewIsFinal

LEMMA PaidGrowsStep ==
  ASSUME IInv, Next, NEW i \in Fees, i \notin overlapped
  PROVE  fees'[i].paidAmount >= fees[i].paidAmount
<1>1. /\ fees[i] \in FeeRow /\ fees[i].paidAmount <= Payable[i]
      /\ fees[i].paidAmount \in Nat /\ Payable[i] \in Nat /\ pastDue[i] \in BOOLEAN
  BY DEF IInv, TypeOK, NeverOverpaid, FeeRow
<1>2. ASSUME NEW r \in Requests, NEW b \in Fees, NEW a \in Amounts,
             PayInvoice(r, b, a)
      PROVE  fees'[i].paidAmount >= fees[i].paidAmount
  <2>1. PICK result : result = ApplyPayment(Payable[b], fees[b].paidAmount,
                                            fees[b].status, a, pastDue[b])
    OBVIOUS
  <2>2. CASE b = i
    <3>1. result.paidAmount >= fees[i].paidAmount
      BY <1>1, <2>1, <2>2, AppliedRow
    <3>2. fees'[i].paidAmount = result.paidAmount
      BY <1>2, <2>1, <2>2 DEF PayInvoice, IInv, TypeOK
    <3>3. QED BY <3>1, <3>2
  <2>3. CASE b # i
    BY <1>1, <1>2, <2>3 DEF PayInvoice, IInv, TypeOK
  <2>4. QED BY <2>2, <2>3
<1>3. ASSUME NEW j \in Jobs, Write(j)
      PROVE  fees'[i].paidAmount >= fees[i].paidAmount
  <2>1. PICK job : job = jobs[j]
    OBVIOUS
  <2>2. /\ job \in Job /\ CopyFits(job, i) /\ job.stage = "diffed"
        /\ fees'[i] = IF job.copies[i] # None
                      THEN Changed(job.copies[i], job.found[i], fees[i])
                      ELSE fees[i]
    BY <1>3, <2>1 DEF Write, Holding, IInv, TypeOK, JobFits
  <2>3. CASE job.copies[i] = None
    BY <1>1, <2>2, <2>3
  <2>4. CASE job.copies[i] # None
    <3>1. /\ job.copies[i] \in FeeRow /\ job.found[i] = fees[i]
          /\ job.copies[i].paidAmount >= fees[i].paidAmount
      BY <2>2, <2>4 DEF CopyFits, Job, Copies
    <3>2. fees'[i] = job.copies[i]
      BY <1>1, <2>2, <2>4, <3>1, ChangedRow
    <3>3. QED BY <3>1, <3>2
  <2>5. QED BY <2>3, <2>4
<1>4. CASE UNCHANGED fees
  BY <1>1, <1>4
<1>5. QED BY <1>2, <1>3, <1>4, Writers

(* What is paid on a bill falls only where two of its writers overlapped.  *)
THEOREM PaidGrows == Spec => PaidFallsOnlyByOverlap
<1>1. IInv /\ [Next]_vars =>
        [\A i \in Fees \ overlapped :
           fees'[i].paidAmount >= fees[i].paidAmount]_vars
  BY PaidGrowsStep
<1>2. QED BY <1>1, Invariance, PTL DEF Spec, PaidFallsOnlyByOverlap

LEMMA CancelledStep ==
  ASSUME IInv, Next, NEW i \in Fees, i \notin overlapped,
         fees[i].status = "CANCELLED",
         NEW p \in payments' \ payments, p.invoice = i
  PROVE  fees'[i].paidAmount = fees[i].paidAmount
<1>1. ASSUME NEW r \in Requests, NEW b \in Fees, NEW a \in Amounts,
             PayInvoice(r, b, a)
      PROVE  FALSE
  BY <1>1 DEF PayInvoice
<1>2. ASSUME NEW j \in Jobs, Write(j)
      PROVE  fees'[i].paidAmount = fees[i].paidAmount
  <2>1. PICK job : job = jobs[j]
    OBVIOUS
  <2>2. /\ job \in Job /\ CopyFits(job, i) /\ job.stage = "diffed"
        /\ job.pay # None
        /\ fees[i] \in FeeRow
        /\ fees'[i] = IF job.copies[i] # None
                      THEN Changed(job.copies[i], job.found[i], fees[i])
                      ELSE fees[i]
    BY <1>2, <2>1 DEF Write, Holding, IInv, TypeOK, JobFits
  <2>3. CASE job.copies[i] = None
    BY <2>2, <2>3
  <2>4. CASE job.copies[i] # None
    <3>1. /\ job.copies[i] \in FeeRow /\ job.found[i] = fees[i]
          /\ job.copies[i].paidAmount = fees[i].paidAmount
      BY <2>2, <2>4 DEF CopyFits, Job, Copies
    <3>2. fees'[i] = job.copies[i]
      BY <2>2, <2>4, <3>1, ChangedRow
    <3>3. QED BY <3>1, <3>2
  <2>5. QED BY <2>3, <2>4
<1>3. QED BY <1>1, <1>2, Writers

(* A proof recorded on a cancelled bill credits it nothing.                *)
THEOREM CancelledStays == Spec => CancelledTakesNoMoney
<1>1. IInv /\ [Next]_vars =>
        [\A i \in Fees \ overlapped :
           /\ fees[i].status = "CANCELLED"
           /\ \E p \in payments' \ payments : p.invoice = i
           => fees'[i].paidAmount = fees[i].paidAmount]_vars
  BY CancelledStep
<1>2. QED BY <1>1, Invariance, PTL DEF Spec, CancelledTakesNoMoney

-----------------------------------------------------------------------------
LEMMA PayCreditsExactly ==
  ASSUME IInv, NEW r \in Requests, NEW i \in Fees, NEW a \in Amounts,
         PayInvoice(r, i, a), i \notin overlapped
  PROVE  /\ fees' = [fees EXCEPT ![i] = fees'[i]]
         /\ fees'[i].paidAmount = fees[i].paidAmount + a
         /\ fees[i].paidAmount + a <= Payable[i]
<1>1. PICK result : result = ApplyPayment(Payable[i], fees[i].paidAmount,
                                          fees[i].status, a, pastDue[i])
  OBVIOUS
<1>2. /\ fees' = [fees EXCEPT ![i] = fees'[i]]
      /\ fees'[i].paidAmount = result.paidAmount
  BY <1>1 DEF PayInvoice, IInv, TypeOK
<1>3. /\ fees[i].paidAmount \in Nat /\ fees[i].paidAmount <= Payable[i]
      /\ Payable[i] \in Nat /\ pastDue[i] \in BOOLEAN /\ a \in Nat \ {0}
      /\ Settled(i, fees[i])
  BY DEF IInv, TypeOK, NeverOverpaid, SettledUnlessOverlapped, FeeRow
<1>4. Owed(i) = Payable[i] - fees[i].paidAmount
  BY <1>3 DEF Owed, Outstanding, AtLeastZero
<1>5. /\ fees[i].status # "CANCELLED" /\ a <= Owed(i)
      /\ ~(Owed(i) = 0 /\ fees[i].status = "PAID")
  BY DEF PayInvoice
<1>6. fees[i].status # "PAID"
  BY <1>3, <1>4, <1>5 DEF Settled
<1>7. PICK credit : credit = Credit(a, Payable[i] - fees[i].paidAmount)
  OBVIOUS
<1>8. credit = a
  BY <1>3, <1>4, <1>5, <1>7 DEF Credit, Lesser
<1>9. result = Finalize(Payable[i], fees[i].paidAmount + credit, credit, pastDue[i])
  BY <1>1, <1>3, <1>5, <1>6, <1>7, ApplyToOpenBill
<1>10. result.paidAmount = fees[i].paidAmount + a
  BY <1>8, <1>9 DEF Finalize
<1>11. QED BY <1>2, <1>3, <1>4, <1>5, <1>10

LEMMA PaymentCreditsStep ==
  ASSUME IInv, Next, NEW i \in Fees, i \notin overlapped,
         NEW p \in payments' \ payments, p.from \in Requests, p.invoice = i
  PROVE  fees'[i].paidAmount = fees[i].paidAmount + p.amount
<1>1. ASSUME NEW r \in Requests, NEW b \in Fees, NEW a \in Amounts, PayInvoice(r, b, a)
      PROVE  fees'[i].paidAmount = fees[i].paidAmount + p.amount
  <2>1. p = [from |-> r, invoice |-> b, amount |-> a]
    BY <1>1 DEF PayInvoice
  <2>2. b = i /\ p.amount = a
    BY <2>1
  <2>3. QED BY <1>1, <2>2, PayCreditsExactly
<1>2. ASSUME NEW j \in Jobs, Write(j) PROVE FALSE
  <2>1. p = jobs[j].pay /\ p # None
    BY <1>2 DEF Write
  <2>2. p.from \in Proofs
    BY <2>1 DEF IInv, JobFits, IsReviewed
  <2>3. QED BY <2>2
<1>3. QED BY <1>1, <1>2, Writers

(* A payment recorded by POST /pay credits its amount, no more and no      *)
(* less, on every bill on which no two writers overlapped.                 *)
THEOREM PaymentsCredit == Spec => PaymentCreditsItsAmount
<1>1. IInv /\ [Next]_vars =>
        [\A i \in Fees \ overlapped : \A p \in payments' \ payments :
           p.from \in Requests /\ p.invoice = i
           => fees'[i].paidAmount = fees[i].paidAmount + p.amount]_vars
  BY PaymentCreditsStep
<1>2. QED BY <1>1, Invariance, PTL DEF Spec, PaymentCreditsItsAmount
=============================================================================
