SPECIFICATION Spec
CONSTANTS
  alice = alice
  bob = bob
  composer = composer
  x = x
  y = y
  Users = {alice, bob}
  Composer = composer
  Nfts = {x, y}
  Configs <- SomeConfigs
  Counts = {2}
  Wishes <- SomeWishes
  Seeds <- SomeSeeds
  Wallet <- SomeWallet
  Base = 2
  Fee = 1
  MaxPool = 2
  MaxTxs = 5
INVARIANTS
  OneOfEach
  PackagesAccounted
  CkbAccounted
PROPERTIES
  ConfigInForce
  NftsKept
CHECK_DEADLOCK FALSE
