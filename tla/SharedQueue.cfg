SPECIFICATION FairSpec
CONSTANTS
  Producer = {p1, p2}
  Consumer = {c1}
  Cell = {w, x, y, z}
  NULL = NULL
  MaxPushes = 2
INVARIANTS TypeOK SizeCountsRing PopNeverWaits
PROPERTIES IsFifo EverythingTaken
