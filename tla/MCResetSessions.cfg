CONSTANTS
  Users = {u1}
  Registered = {u1}
  Sessions = {s1, s2}
  Links = {l1, l2}
  Codes = {c1}
  Calls = {k1, k2}
  LoginMaxAttempts = 1
  MaxPasswords = 2
  MaxSecrets = 0
SPECIFICATION AccountSpec
PROPERTIES
  ResetRevokesEverySession
CHECK_DEADLOCK FALSE
