SPECIFICATION FairSpec
CONSTANTS
  i1 = i1
  i2 = i2
  Invoices = {i1, i2}
  Payable <- MCPayable
  CarriedDue <- MCCarriedDue
  Requests = {r1, r2}
  Amounts = {1, 2}
  Keys = {k1}
  Refs = {f1}
  None = None
INVARIANTS
  TypeOK
  LedgerBalanced
  NothingPaidTwice
  AnswersHold
PROPERTIES
  LedgerSpec
  EveryRequestAnswered
CHECK_DEADLOCK FALSE
