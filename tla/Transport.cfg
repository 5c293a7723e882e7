SPECIFICATION FairSpec
CONSTANTS
  Conn = {c1}
  Message <- MCMessage
  TYPE_NETWORK = 1
  Base = 4
  Word = 2
INVARIANT ReadsTheMessage
PROPERTIES IsDatagram ArrivesUnlessExcused ReadersEnd
CHECK_DEADLOCK FALSE
