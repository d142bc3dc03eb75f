SPECIFICATION FairPipelineSpec
CONSTANTS
  i1 = i1  k1 = k1  r1 = r1  u1 = u1  t1 = t1  h1 = h1  h2 = h2
  Items = {i1}
  Keys = {k1}
  KeyOf <- OwnKey
  Country <- Missing
  NoCountry = ""
  Centroids = {"JP"}
  Nearby = {"JP", "FR"}
  Undated = {}
  Invalid = {}
  Runs = {r1}
  Overlap = FALSE
  Concurrency = 1
  Faults = {"ack", "publish"}
  Ids = {1, 2}
  InfoType <- Danger
  Users = {u1}
  PrefOf <- Follower
  Tokens = {t1}
  Owner <- Device
  InitTokens = {t1}
  Handlers = {h1, h2}
  FcmConcurrency = 1
  MaxAttempts = 2
  ServiceFaults = {"resolve", "send", "kill"}
  None = None
INVARIANTS PushedIsWanted StoredIsDelivered
PROPERTIES ImplementsNotice StoredIsDeliveredInTheEnd
CHECK_DEADLOCK FALSE
