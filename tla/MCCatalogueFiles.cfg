CONSTANTS
  a1 = a1
  a2 = a2
  Assets = {a1, a2}
  Previews = {}
  Marked = {a1}
  Verdicts <- MayFail
  Workers = {w1, w2}
  MaxAttempts = 2
  MaxFaults = 1
SPECIFICATION FairSpec
INVARIANTS
  CleanIsDeliverable
  OnSaleIsDeliverable
  SuspectsHaveOneCase
  RoutingCountsEveryFile
PROPERTIES
  EveryUploadEnds
  ScansAreWorkQueue
CHECK_DEADLOCK FALSE
