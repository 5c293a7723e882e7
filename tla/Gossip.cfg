SPECIFICATION FairSpec
CONSTANTS
  n1 = n1
  n2 = n2
  n3 = n3
  Node = {n1, n2}
  Parts = {"both"}
  Unknown = Unknown
  NoServer = NoServer
  First <- Star
  PartsOf <- Same
  MaxOutgoing = 1
  MaxCrashes = 1
INVARIANTS TypeOK ListedOnce
PROPERTIES KnowledgeStays EveryoneLearns
CHECK_DEADLOCK FALSE
