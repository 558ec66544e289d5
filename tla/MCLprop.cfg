\* One lprop pool; the engine is interrupted, lookups fail, sendmany is refused or its answer lost.
CONSTANTS
  Pools = {"main"}
  SchemeOf <- MCOnePool
  Workers = {"ann.1", "bob.1"}
  AddressOf <- MCAddressOf
  NumAddrs = 2
  ValidAddrs = {1}
  Diffs = {1}
  RewardSat = 5
  DevFeeBps = 0
  PoolFeeBps = 0
  MinPayoutSat = 3
  BlockMaturity = 1
  SimpleProtocol = TRUE
  Faults = {"stop", "lookup", "reject", "lostReply"}
  MaxFaults = 2
  MaxShares = 3
  MaxBatches = 4
SPECIFICATION Spec
INVARIANTS
  TypeOK
  LedgerConserved
  NoOverpay
  RoundsPartitionShares
  SettledOnChain
  StatusMatchesRow
  RewardsAccounted
PROPERTIES
  FinalStatusSticks
  BatchEndsOnce
  ImplementsLedger
