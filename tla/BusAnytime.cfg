SPECIFICATION Spec
CONSTANTS
  b1 = b1
  b2 = b2
  Buses = {b1, b2}
  System <- OneSystem
  Names = {"n1"}
  BuiltIn = "businfo"
  StreamTypes = {"raw", "plain"}
  Raw = "raw"
  Domains = {5}
  MaxCreated = 2
  MaxObjects = 2
  OnlyInitialized = FALSE
INVARIANTS TypeOK ReadersOfThisSession OneStreamTypePerTopic ReaderMeetsWriter BusInfoServed LiveOnOpenParticipant
SYMMETRY BusSymmetry
