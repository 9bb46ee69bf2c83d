SPECIFICATION Spec
CONSTANTS
  t1 = t1
  t2 = t2
  t3 = t3
  None = None
  Txs = {t1, t2, t3}
  CreatedAt <- MCCreatedAt
  ChainOf <- MCChainOf
  OutputTypes = {"mint", "transfer"}
  OutputTypesOf <- MCOutputTypesOf
  Volume <- MCVolume
  TicksPerSecond = 2
  Limit = 1
  MaxJoinRows = 2
  MaxCachedTxs = 1
  MaxAggregateIntervalCount = 3
  InitNow = 3
  MaxNow = 5
  TTL = 1
  WorkerQueueSize = 1
  Windows = {}
  Step <- MCStep
  Span <- MCSpan
  IntervalSize <- MCIntervalSize
  SwapChain = 1
  TxStep = 3
  MaxFailures = 0
  InitStored = {t2}
  Clients = {1}
  Requests <- MCTypedRequests
  MaxRequests = 2
CHECK_DEADLOCK FALSE
INVARIANTS OwnOutput
