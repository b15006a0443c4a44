\* Two runs, overlapping or not, against one process that searches.
SPECIFICATION Spec
CONSTANTS
  SourceCount = 2
  Embedders = {"hashing", "mpnet"}
  Width <- MCWidths
  Processes = {p1}
  Length <- MCLength
  Size = 3
  Overlap = 1
  Ingesters = {i1, i2}
  Modes = {"rebuild", "append"}
  MaxRuns = 2
  MaxEdition = 1
INVARIANTS
  TypeOK
  QuietRetrievalSucceeds
PROPERTIES
  RebuildPublishesSources
  PhrasesAreWhole
  NothingLostUnlessDropped
CHECK_DEADLOCK FALSE
