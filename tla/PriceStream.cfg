SPECIFICATION Spec
CONSTANTS
  Securities = {a, b}
  Pairs = {p}
  MaxStreams = 2
  MaxMessages = 2
INVARIANTS
  StreamedOrPolled
  WithinLimit
CHECK_DEADLOCK FALSE
