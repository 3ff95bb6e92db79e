CONSTANTS
  Destinations = {a1, a2}
  Validations = {v1, v2}
  MaxTxRetry = 1
SPECIFICATION PayoutSpec
PROPERTIES
  PreviousKeepsReceiving
CHECK_DEADLOCK FALSE
