\* Capital in and out in both currencies at two token scales and several
\* prices; two holders approve and transfer in between, also to themselves.
CONSTANTS
  alice = alice
  bob = bob
  usdc = usdc
  og = og
  Native = og
  Runs <- MCRuns
  Endowment = 3
  Accounts <- MCAccounts
  Stablecoins <- MCStablecoins
  Amounts = {1, 3}
  MaxUint = 3
  ApproveAmounts = {1, 3}
  Decimals = {1, 3}
  Navs = {0, 6}
  MaxAUM = 3
  Base = 2
  FundDecimals = 2
  MaxSupply = 4
  MaxHoldings = 3
SYMMETRY Symmetric
SPECIFICATION MCSpec
INVARIANTS
  SupplyIsTotalOfBalances
  StablecoinsHeld
  RoundTripGainsNothing
  StandingAllowance
  AloneIsAllowed
PROPERTIES
  AssetsStayHeld
  StaysSolvent
CHECK_DEADLOCK FALSE
