CONSTANTS
  n1 = n1  n2 = n2  n3 = n3  b = b
  Nodes <- FourNodes
  Faulty = {b}
  F = 1
  Proposals <- Either
  FaultySends <- Anything
  None = None
SPECIFICATION ScenariosSpec
VIEW Anonymous
CHECK_DEADLOCK FALSE
INVARIANTS
  TypeOK
  ChannelsSuffice
  Binding
  UnanimousTermination
PROPERTIES
  CASpec
  EveryStepCounts
