\* A turn that opens in prose and goes on to call a tool.
SPECIFICATION FairSpec
CONSTANTS
  Fillers = {"word"}
  ToolCalls <- MCOneCall
  MaxNewTokens = 2
  Tools <- MCTools
  Required <- MCRequired
  Settings <- MCOneStep
INVARIANT
  StreamedTextIsAnswer
CHECK_DEADLOCK FALSE
