CONSTANTS
  n1 = n1  n2 = n2  n3 = n3  b = b
  x = x  y = y
  Nodes <- FourNodes
  Faulty = {b}
  F = 1
  Origin = b
  Contents = {x, y}
  FaultyMsgs <- Equivocation
  NoMsg = NoMsg
SPECIFICATION Spec
VIEW LiveCounts
SYMMETRY CorrectSymmetry
CHECK_DEADLOCK FALSE
INVARIANTS
  TypeOK
  Consistency
  SingleOutput
  QuiescentTotality
PROPERTIES
  RBSpec
