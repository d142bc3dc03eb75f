SPECIFICATION FairSpec
CONSTANTS
  m1 = m1  m2 = m2  k1 = k1  k2 = k2  u1 = u1  u2 = u2  t1 = t1  t2 = t2  t3 = t3
  None = None  h1 = h1  h2 = h2
  Messages = {m1}
  Keys = {k1}
  KeyOf <- OneEvent
  Country <- CountryOf
  InfoType <- TypeOf
  Users = {u1, u2}
  PrefOf <- Preferences
  Tokens = {t1, t2, t3}
  Owner <- Devices
  InitTokens = {t1, t3}
  Handlers = {h1, h2}
  Concurrency = 2
  MaxAttempts = 2
  Faults = {"malformed", "read", "mark", "commit", "resolve", "send", "transient", "cleanup", "kill", "deadline", "ackloss", "duplicate"}
INVARIANTS NoDoublePush AckedAccountedFor ResultAccounts
CHECK_DEADLOCK FALSE
PROPERTIES LiveTokensKept ImplementsContract MessagesSettle ReachesSubscribers
