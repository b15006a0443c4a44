\* Tools off, or no or two tool calls; turns of up to two tokens, among them a fence cut in two.
SPECIFICATION FairSpec
CONSTANTS
  Fillers = {"blank", "tick", "ticks"}
  ToolCalls <- MCToolCalls
  MaxNewTokens = 2
  Tools <- MCTools
  Required <- MCRequired
  Settings <- MCSettings
INVARIANTS
  TypeOK
  TranscriptRecordsSteps
  DeliveredThenAnswered
  EventsTellReply
PROPERTIES
  ImplementsToolLoop
  Terminates
CHECK_DEADLOCK FALSE
