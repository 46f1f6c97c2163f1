CONSTANTS
  n1 = n1  n2 = n2  n3 = n3  b = b
  Nodes <- FourNodes
  Faulty = {b}
  T = 2
  Copies <- Twice
  Relayed <- Own
  Garbled = {}
SPECIFICATION Spec
CHECK_DEADLOCK FALSE
INVARIANTS
  CoinAgreement
