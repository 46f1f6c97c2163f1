CONSTANTS
  n1 = n1  n2 = n2  n3 = n3  b = b
  Nodes <- FourNodes
  Faulty = {b}
  F = 1
  Outcomes <- AllOutcomes
  FaultySends <- AgainstCoin
  None = None
SPECIFICATION SparingSpec
VIEW Anonymous
CHECK_DEADLOCK FALSE
INVARIANTS
  TypeOK
  DecidedStays
  CoinNeedsQuorum
  ChannelsSuffice
  UnanimousTermination
PROPERTIES
  CASpec
