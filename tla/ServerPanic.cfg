SPECIFICATION Spec
CONSTANTS
  c1 = c1  c2 = c2  h = h
  Clients = {c1}
  Multiplexed = {}
  Env = "prod"
  Faults = {"panic"}
CHECK_DEADLOCK FALSE
INVARIANT PanicIsInternal
