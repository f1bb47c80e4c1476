\* The daemon and the command line at once, nothing failing.
CONSTANTS
  daemon = daemon
  cli = cli
  NoContract = NoContract
  Relayers <- MCBoth
  EarlyReaders <- MCCli
  Batches <- MCSmallBatches
  SessionPolicy <- MCShortPolicy
  SessionTTLs = {1}
  OnChainPolicies <- MCNoContract
  Faults = {}
  TicksPerDay = 2
  MaxTime = 0
  MaxFaults = 0
  MaxPlaced = 10
SPECIFICATION Spec
INVARIANTS
  DailyCapKept
CHECK_DEADLOCK FALSE
