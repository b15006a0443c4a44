\* A tool call, then the answer.
SPECIFICATION StreamSpec
CONSTANTS
  Fillers = {"word"}
  ToolCalls <- MCToolCalls
  MaxNewTokens = 2
  Tools <- MCTools
  Required <- MCRequired
  Settings <- MCSettings
INVARIANT
  BubbleIsModelOutput
CHECK_DEADLOCK FALSE
