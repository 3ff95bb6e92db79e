CONSTANTS
  o1 = o1
  o2 = o2
  i1 = i1
  i2 = i2
  i3 = i3
  s1 = s1
  s2 = s2
  d1 = d1
  Sellers = {s1, s2}
  Orders = {o1}
  Items = {i1, i2}
  SellerOf <- TwoSellers
  OrderOf <- OneOrder
  Net <- NetThree
  Fee <- FeeOne
  Withheld <- NoReserve
  Amounts <- FirstItem
  Disputes = {d1}
  DisputedOrder <- DisputeOnO1
  Suspendable = {s2}
  ScanLimit = 1
  Refunders = {r1}
  Workers = {w1}
  Hooks = {h1}
  MaxFaults = 1
SPECIFICATION FairSpec
INVARIANTS
  AcknowledgedLossIsBooked
  ClearingIsExplained
PROPERTIES
  HeldSharesMove
CHECK_DEADLOCK FALSE
