\* Nested blocks and threads, read in pages of any size while people write.
SPECIFICATION FairSpec
CONSTANTS
  Remotes <- MCRemotes
  MaxRetries = 2
  MaxBlockDepth = 1
INVARIANTS
  TypeOK
  ReadsWhatWasThere
  NoMessageTwice
PROPERTY
  Ends
CHECK_DEADLOCK FALSE
