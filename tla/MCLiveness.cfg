\* An engine that is not interrupted and a wallet that pays every batch; lookups fail.
CONSTANTS
  Pools = {"main"}
  SchemeOf <- MCOnePool
  Workers = {"ann.1", "bob.1"}
  AddressOf <- MCAddressOf
  NumAddrs = 2
  ValidAddrs = {1, 2}
  Diffs = {1}
  RewardSat = 5
  DevFeeBps = 0
  PoolFeeBps = 0
  MinPayoutSat = 3
  BlockMaturity = 2
  SimpleProtocol = TRUE
  Faults = {"lookup"}
  MaxFaults = 2
  MaxShares = 2
  MaxBatches = 4
SPECIFICATION FairSpec
PROPERTIES
  MaturedIsSettled
  BalanceIsPaid
