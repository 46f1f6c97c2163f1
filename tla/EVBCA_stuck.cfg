CONSTANTS
  n1 = n1  n2 = n2  n3 = n3  b = b
  Nodes <- FourNodes
  Faulty = {}
  F = 1
  Outcomes <- EvenSplit
  FaultySends <- Nothing
  None = None
SPECIFICATION InOrderSpec
VIEW Anonymous
CHECK_DEADLOCK FALSE
INVARIANTS
  QuiescentTermination
