\* An lprop and a solo pool over the same tables; a worker has no address.
CONSTANTS
  Pools = {"main", "lone"}
  SchemeOf <- MCTwoPools
  Workers = {"ann.1", ".rig"}
  AddressOf <- MCAnnOrNone
  NumAddrs = 1
  ValidAddrs = {1}
  Diffs = {1}
  RewardSat = 5
  DevFeeBps = 0
  PoolFeeBps = 0
  MinPayoutSat = 3
  BlockMaturity = 1
  SimpleProtocol = TRUE
  Faults = {}
  MaxFaults = 0
  MaxShares = 3
  MaxBatches = 4
SPECIFICATION Spec
INVARIANTS
  RoundsPartitionShares
PROPERTIES
  EnginesKeepApart
