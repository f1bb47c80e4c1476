\* The owner pauses the on-chain policy; the contract always answers.
CONSTANTS
  daemon = daemon
  cli = cli
  NoContract = NoContract
  Relayers <- MCDaemon
  EarlyReaders = {}
  Batches <- MCSmallBatches
  SessionPolicy <- MCShortPolicy
  SessionTTLs = {1}
  OnChainPolicies <- MCPausable
  Faults = {}
  TicksPerDay = 2
  MaxTime = 0
  MaxFaults = 0
  MaxPlaced = 10
SPECIFICATION Spec
PROPERTIES
  PauseStopsRelays
CHECK_DEADLOCK FALSE
