SPECIFICATION Spec
CONSTANTS
  t1 = t1
  t2 = t2
  t3 = t3
  None = None
  Txs = {t1, t2, t3}
  CreatedAt <- MCCreatedAt
  ChainOf <- MCChainOf
  OutputTypes = {"mint", "transfer"}
  OutputTypesOf <- MCOutputTypesOf
  Volume <- MCVolume
  TicksPerSecond = 2
  Limit = 2
  MaxJoinRows = 2
  MaxCachedTxs = 2
  MaxAggregateIntervalCount = 3
  InitNow = 3
  MaxNow = 5
  TTL = 1
  WorkerQueueSize = 1
  Windows = {"1m"}
  Step <- MCStep
  Span <- MCSpan
  IntervalSize <- MCIntervalSize
  SwapChain = 1
  TxStep = 3
  MaxFailures = 1
  InitStored = {t1, t2}
  Clients = {1}
  Requests <- MCRequests
  MaxRequests = 3
CONSTRAINT OnePart
CHECK_DEADLOCK FALSE
INVARIANTS TypeOK WalkExact FreshWithinSecond HistogramExact
PROPERTIES LiveEntryKept WindowsContiguous
