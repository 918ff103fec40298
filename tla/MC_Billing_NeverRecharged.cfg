SPECIFICATION Spec
CONSTANTS
  Residents = {x1}
  LastDay = 4
  Charges = {1}
  Requests = {q1}
  Attempts = 2
PROPERTIES
  NeverRecharged
CHECK_DEADLOCK FALSE
