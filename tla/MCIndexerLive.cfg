SPECIFICATION FairSpec
CONSTANTS
  m1 = m1
  m2 = m2
  w1 = w1
  w2 = w2
  w3 = w3
  a = a
  b = b
  u = u
  NoRow = NoRow
  Machines = {m1}
  Threads = {w1}
  MachineOf <- OneMachine
  Rows = {a, b, u}
  Known = {a, b, u}
  Poison = {u}
  CreatedAt <- MCCreatedAt
  MaxTxPoolSize = 1
  MaxSizedList = 1
  MaximumRecordsRead = 0
  Cells = {1, 2, 3}
  MaxFailures = 1
PROPERTIES EventuallyProcessed
