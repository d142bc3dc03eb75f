SPECIFICATION FairSpec
CONSTANTS
  c1 = c1  c2 = c2  h = h
  Clients = {c1, c2, h}
  Multiplexed = {h}
  Env = "prod"
  Faults = {"boot", "listen", "verify", "panic", "kill"}
CHECK_DEADLOCK FALSE
INVARIANTS CutOnlyWhenOverdue AnswersTellTheTruth
PROPERTY StopsAfterSigterm
