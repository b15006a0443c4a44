\* Two rebuilds at once: by the schedule, and by hand.
SPECIFICATION Spec
CONSTANTS
  SourceCount = 1
  Embedders = {"hashing"}
  Width <- MCWidths
  Processes = {}
  Ingesters = {i1, i2}
  Exclusive = FALSE
  Modes = {"rebuild"}
  MaxRuns = 2
  MaxEdition = 1
INVARIANT
  NoHalfStoreLeft
CHECK_DEADLOCK FALSE
