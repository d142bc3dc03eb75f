SPECIFICATION FairSpec
CONSTANTS
  i1 = i1  i2 = i2  i3 = i3  k1 = k1  k2 = k2  k3 = k3  r1 = r1  r2 = r2
  Items = {i1, i2, i3}
  Keys = {k1, k2, k3}
  KeyOf <- OwnKeys
  Country <- SecondMissing
  NoCountry = ""
  Centroids = {"JP"}
  Nearby = {"JP"}
  Undated = {}
  Invalid = {i3}
  Runs = {r1}
  Overlap = FALSE
  Concurrency = 2
  Faults = {"fetch", "lookup", "extract", "find", "write", "ack", "publish", "term", "kill"}
INVARIANTS ResultAccounts
PROPERTIES ImplementsLedger StoredIsFinal MissingAreCounted SelfHealing
