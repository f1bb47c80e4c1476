\* Two accounts pass the fund and one clone to each other and back.
CONSTANTS
  long = long
  short = short
  zero = zero
  fresh = fresh
  none = none
  seller = seller
  buyer = buyer
  uri = uri
  empty = empty
  key = key
  nokey = nokey
  executor = executor
  investor = investor
  Accounts <- MCAccounts
  Deployer = seller
  Hashes <- MCHashes
  ZeroHash = zero
  NoHash = none
  Uris <- MCUris
  EmptyUri = empty
  Keys <- MCKeys
  NoKey = nokey
  Proofs <- MCProofs
  HashOf <- MCHashOf
  Executors <- MCExecutors
  Investors <- MCInvestors
  MaxTokens = 2
  MaxTime = 1
SPECIFICATION Spec
INVARIANTS
  FundIsToken
  ClonesAreAttested
PROPERTIES
  HandedOverWithProof
CHECK_DEADLOCK FALSE
