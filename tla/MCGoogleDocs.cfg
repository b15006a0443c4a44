\* Ways to nest three folders; one document stays or one is moved.
SPECIFICATION FairSpec
CONSTANTS
  Folders = {"root", "a", "b"}
  Docs = {d1, d2}
  Root = "root"
  Settings = {TRUE, FALSE}
  Trees <- MCTrees
  MaxMoves = 1
INVARIANTS
  TypeOK
  ReadsEachDocumentOnce
PROPERTY
  Ends
CHECK_DEADLOCK FALSE
