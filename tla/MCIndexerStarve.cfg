SPECIFICATION FairSpec
CONSTANTS
  m1 = m1
  m2 = m2
  w1 = w1
  w2 = w2
  w3 = w3
  a = a
  b = b
  u = u
  NoRow = NoRow
  Machines = {m1}
  Threads = {w1, w2}
  MachineOf <- OneMachine
  Rows = {a, b}
  Known = {a, b}
  Poison = {a}
  CreatedAt <- MCCreatedAt
  MaxTxPoolSize = 2
  MaxSizedList = 2
  MaximumRecordsRead = 2
  Cells = {1, 2, 3, 4, 5}
  MaxFailures = 0
PROPERTIES EventuallyProcessed
