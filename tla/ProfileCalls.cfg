SPECIFICATION Spec
CONSTANTS
  s1 = s1  s2 = s2  c1 = c1  c2 = c2
  Users = {"u1"}
  Countries = {c1, c2}
  Tokens = {"t1", "t2"}
  Dead = {"t2"}
  Prefs = {"all"}
  NoPref = "none"
  Missing = Missing
  NoCall = NoCall
  Slots = {s1, s2}
  Faults = {"call", "ack", "get", "erase"}
SYMMETRY SlotCountrySymmetry
INVARIANTS TogglesAddUp RegisteredStays NotFoundMeansErased
PROPERTIES ImplementsStore
