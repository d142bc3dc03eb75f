SPECIFICATION FairSpec
CONSTANTS
  old = old  new = new  broken = broken
  Runs = {old, new, broken}
  Definition <- Versions
  Aliases = {"map", "incident", "audit", "key_cd", "title"}
  None = None
  Types = {"text", "date"}
  Unspecified = Unspecified
  CmsTypes = {"text", "date", "integer"}
  Absent = Absent
  Container = Container
  Shapes <- Console
  MaxEdits = 1
  Faults = {"get", "post", "ack", "noschema", "kill"}
INVARIANTS SuccessEnsures DriftIsReported ClaimedOnce
PROPERTIES ImplementsStore Converges
