\* Templates of up to eight transactions.
CONSTANT MaxTxs = 8
SPECIFICATION Spec
INVARIANT RootIsOfBlock
CHECK_DEADLOCK FALSE
