\* Two accounts in one wallet and two events: switches, clicks, grants, failures.
CONSTANTS
  alice = alice
  bob = bob
  Null = Null
  Accounts <- MCAccounts
  First = alice
  MaxEvents = 2
SPECIFICATION FairSpec
INVARIANTS
  MirrorsWallet
  ShownIsOwn
PROPERTIES
  AuthorizedSees
  BusyEnds
CHECK_DEADLOCK FALSE
