CONSTANTS
  r1 = r1
  r2 = r2
  r3 = r3
  k1 = k1
  v1 = v1
  v2 = v2
  v3 = v3
  NoKey = NoKey
  Requests = {r1, r2, r3}
  Keys = {k1}
  Variants = {v1, v2, v3}
  KeyOf <- TwiceAndReused
  CartOf <- Crossed
  MaxSales <- LastCopy
  MaxRetry = 1
  MaxFaults = 1
  o1 = o1
  o2 = o2
  t1 = t1
  t2 = t2
  OrderingKeys = {o1, o2}
  Templates = {t1, t2}
  OrderingKey <- TwoOrders
  TemplateOf <- PaidThenSent
  NumMessages = 3
  Workers = {w1, w2}
  MaxAttempts = 2
  MaxTroubles = 1
SPECIFICATION FairSpec
INVARIANTS
  OneOrderPerKey
  OneMailUntilOverrun
PROPERTIES
  PlacedWhileInStock
  EveryRequestEnds
  DispatchIsWorkQueue
  EveryMessageEnds
CHECK_DEADLOCK FALSE
