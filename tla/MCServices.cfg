CONSTANTS
  x1 = x1
  x2 = x2
  Accounts = {x1, x2}
  Statements <- OneByOne
  NumLines = 3
  Rollers = {w1, w2}
  Destinations = {a1, a2}
  Validations = {v1, v2}
  MaxTxRetry = 1
  Mails = {m1, m2}
  Drains = {d1, d2}
  MaxSends = 2
  MaxMailFaults = 1
  b2 = b2
  d1 = d1
  d2 = d2
  Additions = {b1, b2}
  Seconds = 2
  MaxNoticeTries = 2
  MaxJobFaults = 2
  c1 = c1
  c2 = c2
  c3 = c3
  Captures = {c1, c2, c3}
  DocumentsOf <- Documents
  MaxReruns = 1
  MaxRollbacks = 1
  Prices = {0, 1, 49, 999}
  Commissions = {0, 900, 10000}
  Bearers = {"platform", "seller"}
  MaxParts = 3
  p1 = p1
  p2 = p2
  p3 = p3
  Replicas = {p1, p2, p3}
  FilesOf <- Builds
  MaxMigrateFaults = 1
  Products = {q1, q2}
  Edits = {e1, e2, e3}
  Canonical <- Synonyms
  Banned = {"spam"}
  Lists <- Listed
  MaxEditReruns = 1
  Requests = {r1, r2, r3}
  Strangers = {r3}
  Limit = 1
  MaxFetches = 2
  MaxFaults = 1
SPECIFICATION FairSpec
INVARIANTS
  ExactUntilOvertaken
  RepeatsAreExplained
  RegistersAreWhole
  RefundPartsAddUp
  MigrationsApplyOnce
  UsageFollowsRows
  ServedWithinAllowance
  EverythingIsEvidenced
PROPERTIES
  RefundEndsAccess
  ChangesAreAnnounced
  ValidationsSettle
  MailIsWorkQueue
CHECK_DEADLOCK FALSE
