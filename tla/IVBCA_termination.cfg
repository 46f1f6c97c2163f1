CONSTANTS
  n1 = n1  n2 = n2  n3 = n3  b = b
  Nodes <- FourNodes
  Faulty = {b}
  F = 1
  Proposals <- Mixed
  FaultySends <- Anything
  None = None
SPECIFICATION Favours0Spec
VIEW Named
CHECK_DEADLOCK FALSE
INVARIANTS
  QuiescentTermination
