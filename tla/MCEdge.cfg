CONSTANTS
  Users = {u1, u2}
  Registered = {u1}
  Sessions = {s1, s2}
  Links = {l1}
  Codes = {c1}
  Calls = {k1, k2}
  LoginMaxAttempts = 1
  MaxPasswords = 3
  MaxSecrets = 1
  ProviderCalls = {g1, g2}
  Amount = 2
  MaxRetries = 1
  MaxRows = 2
  MaxNetFaults = 1
  MaxRepeats = 1
  Keys = {k}
  Callers = {h1, h2}
  Burst = 3
  Period = 7
  Second = 2
  Charges = {1, 2}
  MaxTime = 4
SPECIFICATION Spec
SYMMETRY Symmetric
INVARIANTS
  OldSessionsEnd
  RetriesTakeEffectOnce
  LimitIsKept
PROPERTIES
  ErasureIsFinal
CHECK_DEADLOCK FALSE
