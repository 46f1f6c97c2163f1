CONSTANTS
  n0 = n0  n1 = n1  n2 = n2  n3 = n3
  Nodes = {n0, n1, n2, n3}
  Contact = n0
  MaxBroken = 1
SPECIFICATION ScheduledSpec
SYMMETRY Others
CHECK_DEADLOCK FALSE
INVARIANTS
  TypeOK
  DealComplete
  KnowsEverybody
  ListFollows
  SettledMeshed
