\* Room for two calls, or for one behind a quoted brace or an escape.
SPECIFICATION ScanSpec
CONSTANT MaxLength = 6
INVARIANTS
  ScanTypeOK
  CandidatesAreObjects
CHECK_DEADLOCK FALSE
