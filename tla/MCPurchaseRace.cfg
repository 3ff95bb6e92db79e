CONSTANTS
  o1 = o1
  o2 = o2
  p1 = p1
  p2 = p2
  Orders = {o1, o2}
  Payments = {p1, p2}
  VariantOf <- OneVariant
  MaxSales <- Unlimited
  TotalOf <- Equal
  OrderOf <- OneOrder
  AmountOf <- InFull
  Presented <- Crossed
  Callbacks = {c1, c2}
  Hooks = {h1, h2}
  MaxFaults = 1
SPECIFICATION Spec
SYMMETRY Requests
INVARIANTS
  OneCapturePerOrder
  EntitlementMatchesMoney
  AcknowledgedCaptureIsDecided
PROPERTIES
  ImplementsSale
CHECK_DEADLOCK FALSE
