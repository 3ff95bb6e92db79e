CONSTANTS
  o1 = o1
  o2 = o2
  p1 = p1
  p2 = p2
  Orders = {o1, o2}
  Payments = {p1, p2}
  VariantOf <- OneVariant
  MaxSales <- Unlimited
  TotalOf <- Equal
  OrderOf <- OneOrder
  AmountOf <- InFull
  Presented <- Crossed
  Callbacks = {c1}
  Hooks = {h1}
  MaxFaults = 0
SPECIFICATION Spec
INVARIANTS
  PaymentCapturedOnce
CHECK_DEADLOCK FALSE
