CONSTANTS
  n1 = n1  n2 = n2  n3 = n3  b = b
  Nodes = {n1, n2, n3, b}
  Faulty = {b}
  F = 1
  MaxRound = 1
  None = None
SPECIFICATION RoundsFirst
SYMMETRY CorrectNodes
VIEW Decisions
CHECK_DEADLOCK FALSE
INVARIANTS
  TypeOK
  EstimatesLocked
  SingleDecision
  DecisionsSpread
PROPERTIES
  ABASpec
