CONSTANTS
  n1 = n1  n2 = n2  n3 = n3  b = b
  x = x  y = y
  Nodes <- FourNodes
  Faulty = {b}
  F = 1
  Origin = n1
  Contents = {x}
  FaultyMsgs <- OwnName
  NoMsg = NoMsg
SPECIFICATION FairSpec
CHECK_DEADLOCK FALSE
INVARIANTS
  Integrity
PROPERTIES
  Validity
