SPECIFICATION Spec
CONSTANTS
  Asks <- OneAsk
  Funds = 70
  OpenFee = 1
  Fee = 2
  Byte = 2
  ArgsBytes = 4
  DataSizes = {1}
  MaxChallenges = 2
INVARIANTS
  FairSettlement
CHECK_DEADLOCK FALSE
