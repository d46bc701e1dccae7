SPECIFICATION Spec
CONSTANTS
  Threads = {t1}
  Depth = 1
  MaxSamples = 2
  MaxTypes = 1
  Observed = TRUE
  WriterLeaves = FALSE
INVARIANT SizeKeepsItems
