SPECIFICATION FairSpec
CONSTANTS
  Readers = {r1, r2}
  Receivers = {c1}
  None = None
  GuardCondition = GuardCondition
  ResetMode = "register"
PROPERTY NewReaderAttached
