SPECIFICATION FairSpec
CONSTANTS
  c1 = c1
  c2 = c2
  Conn = {c1, c2}
  Kind <- MCKind
  Pieces <- MCPieces
  Fd = {1, 2}
  Free = Free
INVARIANT ServesItsOwn
PROPERTY EveryoneIsServed
CHECK_DEADLOCK FALSE
