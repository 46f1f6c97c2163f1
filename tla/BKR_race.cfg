CONSTANTS
  n1 = n1  n2 = n2  n3 = n3  n4 = n4  v = v  w = w
  Nodes = {n1, n2, n3}
  Faulty = {n3}
  F = 1
  Inputs <- FaultyTwice
  Nil = Nil
SPECIFICATION FairSpec
CHECK_DEADLOCK FALSE
INVARIANTS
  TypeOK
  AcceptedAgreement
  ProposalAgreement
  OutputSize
PROPERTIES
  ProposesOnce
  Termination
