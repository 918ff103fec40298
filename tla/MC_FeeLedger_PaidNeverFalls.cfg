SPECIFICATION Spec
CONSTANTS
  Fees = {b1}
  Payable <- MCPayable
  CarriedDue <- MCCarriedDue
  Requests = {r1}
  Amounts = {1}
  ManualAmounts = {}
  StatusRequests = {}
  Proofs = {p1}
  ProofAmounts = {1}
  Jobs = {j1, j2}
  None = None
PROPERTY PaidNeverFalls
CHECK_DEADLOCK FALSE
