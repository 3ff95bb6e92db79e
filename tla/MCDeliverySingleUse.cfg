CONSTANTS
  Requests = {r1, r2}
  Strangers = {}
  Limit = 2
  MaxFetches = 2
  MaxFaults = 0
SPECIFICATION DeliverySpec
INVARIANTS
  LinksAreSingleUse
CHECK_DEADLOCK FALSE
