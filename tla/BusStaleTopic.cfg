SPECIFICATION Spec
CONSTANTS
  b1 = b1
  b2 = b2
  Buses = {b1}
  System <- OneSystem
  Names = {"n1"}
  BuiltIn = "businfo"
  StreamTypes = {"raw", "plain"}
  Raw = "raw"
  Domains = {5, 6}
  MaxCreated = 2
  MaxObjects = 4
  OnlyInitialized = FALSE
INVARIANT TopicsOfThisSession
