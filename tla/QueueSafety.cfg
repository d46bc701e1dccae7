SPECIFICATION FairSpec
CONSTANTS
  Threads = {t1, t2}
  Depth = 2
  MaxSamples = 3
  MaxTypes = 2
  Observed = TRUE
  WriterLeaves = TRUE
INVARIANTS TypeOK AtMostOnce NothingVanishes
PROPERTIES InOrder TakenOnceAlive
