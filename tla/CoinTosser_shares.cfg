CONSTANTS
  n1 = n1  n2 = n2  n3 = n3  b = b
  Nodes <- FourNodes
  Faulty = {b}
  T = 2
  Copies <- Unequal
  Relayed <- OwnOrOther
  Garbled = {n3}
SPECIFICATION FairSpec
CHECK_DEADLOCK FALSE
INVARIANTS
  TypeOK
  SparedAgreement
  CoinHidden
  OnlyRepeatsBlock
PROPERTIES
  Termination
