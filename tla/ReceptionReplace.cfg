SPECIFICATION FairSpec
CONSTANTS
  Readers = {r1}
  Receivers = {c1, c2}
  None = None
  GuardCondition = GuardCondition
  ResetMode = "any"
PROPERTY ReplacedReceiverServed
