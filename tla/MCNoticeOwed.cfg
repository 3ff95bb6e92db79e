CONSTANTS
  Mails = {m1, m2}
  Drains = {d1}
  MaxSends = 2
  MaxMailFaults = 1
  Additions = {b1, b2}
  Seconds = 2
  MaxNoticeTries = 2
  MaxJobFaults = 2
SPECIFICATION NoticeSpec
INVARIANTS
  WarningIsOwed
CHECK_DEADLOCK FALSE
