SPECIFICATION FairSpec
CONSTANTS
  i1 = i1  i2 = i2  i3 = i3  k1 = k1  k2 = k2  k3 = k3  r1 = r1  r2 = r2
  Items = {i1, i3}
  Keys = {k1, k3}
  KeyOf <- OwnKeys
  Country <- Known
  NoCountry = ""
  Centroids = {"JP"}
  Nearby = {"JP"}
  Undated = {i3}
  Invalid = {}
  Runs = {r1, r2}
  Overlap = TRUE
  Concurrency = 1
  Faults = {"fetch", "lookup", "extract", "find", "write", "ack", "publish", "term", "kill"}
INVARIANTS StoredAccountedFor AnnouncedIsStored DuplicatesBounded
PROPERTIES AnnouncedInTheEnd
