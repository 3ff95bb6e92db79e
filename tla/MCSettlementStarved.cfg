CONSTANTS
  o1 = o1
  o2 = o2
  i1 = i1
  i2 = i2
  i3 = i3
  s1 = s1
  s2 = s2
  d1 = d1
  Sellers = {s1, s2}
  Orders = {o1, o2}
  Items = {i1, i2}
  SellerOf <- TwoSellers
  OrderOf <- TwoOrders
  Net <- NetThree
  Fee <- FeeOne
  Withheld <- NoReserve
  Amounts <- NoRefunds
  Disputes = {d1}
  DisputedOrder <- DisputeOnO1
  Suspendable = {}
  ScanLimit = 1
  Refunders = {}
  Workers = {w1}
  Hooks = {h1}
  MaxFaults = 0
SPECIFICATION FairSpec
PROPERTIES
  HoldsExpire
CHECK_DEADLOCK FALSE
