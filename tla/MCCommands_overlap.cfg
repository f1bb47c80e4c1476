\* Two transfers to one buyer, a clone and the demo at once.
CONSTANTS
  zero = zero
  none = none
  seller = seller
  buyer = buyer
  uri = uri
  demouri = demouri
  empty = empty
  plain = plain
  demoplain = demoplain
  nokey = nokey
  own = own
  sale = sale
  resale = resale
  copy = copy
  demo = demo
  Accounts <- MCAccounts
  Deployer = seller
  Hashes <- MCHashes
  ZeroHash = zero
  NoHash = none
  Uris <- MCUris
  EmptyUri = empty
  Keys <- MCKeys
  NoKey = nokey
  Proofs <- MCRuns
  HashOf <- MCHashOf
  Executors <- MCNone
  Investors <- MCNone
  MaxTokens = 2
  MaxTime = 0
  Runs <- MCRuns
  Kind <- MCKind
  Receiver <- MCReceiver
  ProofOf <- MCOwn
  FixtureHash = plain
  DemoHash = demoplain
  DemoUri = demouri
  SealedKey <- MCOwn
  OwnKey = own
SPECIFICATION FairCommandSpec
INVARIANTS
  OwnerHoldsKey
  SoldOnce
PROPERTIES
  RunsEnd
CHECK_DEADLOCK FALSE
