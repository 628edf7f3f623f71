SPECIFICATION Spec
CONSTANTS
  Asks <- PlainAsks
  Funds = 62
  OpenFee = 1
  Fee = 2
  Byte = 2
  ArgsBytes = 4
  DataSizes = {1, 2}
  MaxChallenges = 3
INVARIANTS
  TypeOK
  Agreement
  Accounted
  StakesSafe
  TurnsCounted
  SettlesWhole
  FairIfChallengedOnce
PROPERTIES
  RefundsDepositor
CHECK_DEADLOCK FALSE
