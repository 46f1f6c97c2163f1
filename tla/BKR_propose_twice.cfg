CONSTANTS
  n1 = n1  n2 = n2  n3 = n3  n4 = n4  v = v  w = w
  Nodes = {n1, n2, n3, n4}
  Faulty = {n4}
  F = 1
  Inputs <- FaultyTwice
  Nil = Nil
SPECIFICATION HastySpec
CHECK_DEADLOCK FALSE
INVARIANTS
  OutputAgreement
