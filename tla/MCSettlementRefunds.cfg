CONSTANTS
  o1 = o1
  o2 = o2
  i1 = i1
  i2 = i2
  i3 = i3
  s1 = s1
  s2 = s2
  d1 = d1
  Sellers = {s1}
  Orders = {o1}
  Items = {i1, i2}
  SellerOf <- OneSeller
  OrderOf <- OneOrder
  Net <- NetThree
  Fee <- FeeOne
  Withheld <- ReserveOne
  Amounts <- AnyOfFirst
  Disputes = {}
  DisputedOrder <- DisputeOnO1
  Suspendable = {s1}
  ScanLimit = 2
  Refunders = {r1, r2}
  Workers = {w1, w2}
  Hooks = {}
  MaxFaults = 1
SPECIFICATION Spec
SYMMETRY Symmetric
INVARIANTS
  RefundsAddUp
  ReceivableMatchesOffsets
  PayableMatchesTransfers
PROPERTIES
  OffsetsFirst
CHECK_DEADLOCK FALSE
