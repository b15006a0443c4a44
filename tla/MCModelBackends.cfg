\* Streams of up to two chunks beside each other, or beside a call of generate.
SPECIFICATION Spec
CONSTANTS
  Requests = {r1, r2}
  Capacities <- MCCapacities
  MaxChunks = 2
INVARIANTS
  TypeOK
  AnswerIsWhole
  NothingLeftBehind
PROPERTIES
  RequestsEnd
  PlacesComeBack
CHECK_DEADLOCK FALSE
