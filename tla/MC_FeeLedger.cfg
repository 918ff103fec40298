SPECIFICATION Spec
CONSTANTS
  Fees = {b1}
  Payable <- MCPayable
  CarriedDue <- MCCarriedDue
  Requests = {r1}
  Amounts = {1}
  ManualAmounts = {0, 1}
  StatusRequests = {"PAID", "CANCELLED"}
  Proofs = {p1}
  ProofAmounts = {1}
  Jobs = {j1, j2}
  None = None
SYMMETRY MCSymmetry
INVARIANTS
  TypeOK
  NeverOverpaid
  SettledUnlessOverlapped
  OneRowPerSource
  CreditNeedsReview
PROPERTIES
  CancelledTakesNoMoney
  PaidFallsOnlyByOverlap
  PaymentCreditsItsAmount
