\* A daemon bets on NO.
CONSTANTS
  m1 = m1
  m2 = m2
  daemon = daemon
  cli = cli
  deployer = deployer
  owner = owner
  Markets <- MCMarkets
  Reports <- MCReports
  FixtureFile <- MCFixtureFile
  NaN = NaN
  ModelRows <- MCModelRows
  ProviderSet = TRUE
  One = 20
  Full = 20
  Alpha = 8
  Nav = 40
  MaxPosition = 4
  MaxGross = 6
  MinBet = 2
  ThetaDen = 4
  WMarket = 1
  WModel = 1
  WSentiment = 1
  DivergenceThreshold = 2
  Lots = 2
  Writers <- MCWriters
  Wallets <- MCWallets
  Signer = deployer
  RegistryOwner = owner
  Records <- MCRecords
  NoRecord = NoRecord
  MaxAgents = 1
  Daemon = daemon
  CommandLine = cli
  Starts <- MCStarts
  Listed <- MCListed
  MaxCycles = 2
  MaxErrors = 1
SPECIFICATION Spec
INVARIANT
  OrderBuysOutcome
CHECK_DEADLOCK FALSE
