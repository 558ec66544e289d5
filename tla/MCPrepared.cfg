\* Statements are prepared, as pgx does by default.
CONSTANTS
  Pools = {"main"}
  SchemeOf <- MCOnePool
  Workers = {"ann.1"}
  AddressOf <- MCAnn
  NumAddrs = 1
  ValidAddrs = {1}
  Diffs = {1}
  RewardSat = 5
  DevFeeBps = 0
  PoolFeeBps = 0
  MinPayoutSat = 3
  BlockMaturity = 1
  SimpleProtocol = FALSE
  Faults = {}
  MaxFaults = 0
  MaxShares = 1
  MaxBatches = 4
SPECIFICATION FairSpec
PROPERTIES
  MaturedIsSettled
