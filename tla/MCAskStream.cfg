\* Two tool calls, turns of up to two tokens, a cut at any time.
SPECIFICATION StreamSpec
CONSTANTS
  Fillers = {"word"}
  ToolCalls <- MCToolCalls
  MaxNewTokens = 2
  Tools <- MCTools
  Required <- MCRequired
  Settings <- MCSettings
INVARIANTS
  PageTypeOK
  CompleteMeansAnswered
  StepFramesAgreeWithDone
PROPERTY
  PageSettles
CHECK_DEADLOCK FALSE
