\* Runs one at a time, killed anywhere; two sources edited along the way.
SPECIFICATION Spec
CONSTANTS
  SourceCount = 2
  Embedders = {"hashing", "mpnet"}
  Width <- MCWidths
  Processes = {p1}
  Ingesters = {i1}
  Exclusive = TRUE
  Modes = {"rebuild", "append"}
  MaxRuns = 3
  MaxEdition = 1
INVARIANTS
  TypeOK
  PublishedIsWhole
PROPERTIES
  RebuildPublishesSources
  UnevenOnlyByAppend
  ImplementsKnowledgeBase
CHECK_DEADLOCK FALSE
