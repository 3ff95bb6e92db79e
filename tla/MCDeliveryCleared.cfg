CONSTANTS
  Requests = {r1, r2}
  Strangers = {}
  Limit = 2
  MaxFetches = 2
  MaxFaults = 0
SPECIFICATION DeliveryFairSpec
PROPERTIES
  ExpiredGrantsAreCleared
CHECK_DEADLOCK FALSE
