\* Three addresses; products off by up to half a satoshi, together by three
\* quarters; coinbases worth less than, as much as and more than the reward.
CONSTANTS
  NumAddrs = 3
  CoinbaseValues = {7, 10}
  Rewards = {1, 7, 11}
  FeeBps = {0, 2500}
  Weights = {0, 1, 2, 3}
  Grid = 4
  Errors <- Quarters
SPECIFICATION Spec
INVARIANTS
  TypeOK
  SplitIsExact
  SplitIsFair
  SplitIsAllocateByWeight
  CoinbaseCoversCredits
CHECK_DEADLOCK FALSE
