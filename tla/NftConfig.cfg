SPECIFICATION Spec
CONSTANTS
  Base = 4
  Blake160Size = 2
  HashSize = 2
  Blake2b <- MCBlake2b
  Configs <- MCConfigs
  Counts = {0, 1, 3}
  BlockHashes <- MCHashes
  StoreCkb = 5
  MaxPurchases = 2
INVARIANTS
  ConfigKept
  ShareOfLotteries
PROPERTIES
  OpensByLottery
CHECK_DEADLOCK FALSE
