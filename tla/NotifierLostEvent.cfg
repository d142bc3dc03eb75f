SPECIFICATION Spec
CONSTANTS
  m1 = m1  m2 = m2  k1 = k1  k2 = k2  u1 = u1  u2 = u2  t1 = t1  t2 = t2  t3 = t3
  None = None  h1 = h1  h2 = h2
  Messages = {m1, m2}
  Keys = {k1, k2}
  KeyOf <- TwoEvents
  Country <- CountryOf
  InfoType <- TypeOf
  Users = {u1, u2}
  PrefOf <- Preferences
  Tokens = {t1, t2, t3}
  Owner <- Devices
  InitTokens = {t1, t3}
  Handlers = {h1, h2}
  Concurrency = 2
  MaxAttempts = 5
  Faults = {"resolve"}
INVARIANTS TransientFailureIsRetried
CHECK_DEADLOCK FALSE
