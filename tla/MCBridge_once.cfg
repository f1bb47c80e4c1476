\* Two runs over the same two intents, one wallet of which may be revoked;
\* every fault and an outsider who submits first.
CONSTANTS
  r1 = r1
  r2 = r2
  i1 = i1
  i2 = i2
  owner = owner
  hot = hot
  Owner = owner
  None = None
  Wallets <- MCWallets
  Runs <- MCRuns
  Wallet <- MCWallet
  Intents <- MCIntents
  Events = {"connection", "place", "answer", "unnumbered", "crash", "revoke", "outsider"}
SPECIFICATION FairSpec
INVARIANTS
  ReportsAreTrue
PROPERTIES
  OrderedOnce
  EveryIntentAnswered
CHECK_DEADLOCK FALSE
