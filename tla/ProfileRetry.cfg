SPECIFICATION Spec
CONSTANTS
  s1 = s1  s2 = s2  c1 = c1  c2 = c2
  Users = {"u1"}
  Countries = {c1}
  Tokens = {}
  Dead = {}
  Prefs = {"all"}
  NoPref = "none"
  Missing = Missing
  NoCall = NoCall
  Slots = {s1}
  Faults = {"get"}
INVARIANTS RetriesAreHarmless
