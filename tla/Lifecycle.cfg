SPECIFICATION FairSpec
CONSTANTS
  Chain = {g, x, y}
  Genesis = g
  None = None
  Torn = Torn
  Garbage = Garbage
  MaxReaders = 1
  MaxStops = 2
INVARIANTS FreedIsJoined ServesWhatListens
PROPERTIES ResumesFromSave EndsOrServes
CHECK_DEADLOCK FALSE
