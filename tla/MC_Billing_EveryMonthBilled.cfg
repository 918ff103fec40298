SPECIFICATION PromptSpec
CONSTANTS
  Residents = {x1}
  LastDay = 3
  Charges = {1}
  Requests = {}
  Attempts = 2
PROPERTIES
  EveryMonthBilled
CHECK_DEADLOCK FALSE
