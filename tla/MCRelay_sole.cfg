\* One run of the command line after another, over a midnight and a session's
\* end: refusals, crashes, lost answers, an unreachable policy contract.
CONSTANTS
  daemon = daemon
  cli = cli
  NoContract = NoContract
  Relayers <- MCCli
  EarlyReaders <- MCCli
  Batches <- MCBatches
  SessionPolicy <- MCPolicy
  SessionTTLs = {1, 2}
  OnChainPolicies <- MCOnChain
  Faults = {"fetch", "client", "reject", "unnumbered", "answer", "crash"}
  TicksPerDay = 2
  MaxTime = 3
  MaxFaults = 2
  MaxPlaced = 50
SPECIFICATION Spec
INVARIANTS
  BudgetPerFault
  LedgerCoversPlaced
  CycleFitsItsReading
PROPERTIES
  ExpiryFreezesOrders
