SPECIFICATION OpeningSpec
CONSTANTS
  alice = alice
  bob = bob
  composer = composer
  x = x
  y = y
  Users = {alice, bob}
  Composer = composer
  Nfts = {x, y}
  Configs <- NoConfigs
  Counts <- NoConfigs
  Wishes <- SomeWishes
  Seeds <- NoSeeds
  Wallet <- SomeWallet
  Base = 2
  Fee = 1
  MaxPool = 1
  MaxTxs = 3
  Players <- SomePlayers
  Cards <- SomeCards
  Asks <- SomeAsks
  OpenFee = 1
  ArgsBytes = 9
  CkbPage = 2
  NftPage = 1
  MaxOffers = 2
INVARIANTS
  SignedOpens
  SignsOwnShare
PROPERTIES
  NftsStay
CHECK_DEADLOCK FALSE
