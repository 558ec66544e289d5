\* The wallet refuses a batch once: the refund never commits.
CONSTANTS
  Pools = {"main"}
  SchemeOf <- MCOnePool
  Workers = {"ann.1", "bob.1"}
  AddressOf <- MCAddressOf
  NumAddrs = 2
  ValidAddrs = {1, 2}
  Diffs = {1}
  RewardSat = 5
  DevFeeBps = 0
  PoolFeeBps = 0
  MinPayoutSat = 3
  BlockMaturity = 1
  SimpleProtocol = TRUE
  Faults = {"reject"}
  MaxFaults = 1
  MaxShares = 1
  MaxBatches = 4
SPECIFICATION Spec
INVARIANTS
  NothingStranded
