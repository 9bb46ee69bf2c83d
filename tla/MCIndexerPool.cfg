SPECIFICATION Spec
CONSTANTS
  m1 = m1
  m2 = m2
  w1 = w1
  w2 = w2
  w3 = w3
  a = a
  b = b
  u = u
  NoRow = NoRow
  Machines = {m1, m2}
  Threads = {w1, w2, w3}
  MachineOf <- TwoMachines
  Rows = {a}
  Known = {a}
  Poison = {}
  CreatedAt <- MCCreatedAt
  MaxTxPoolSize = 1
  MaxSizedList = 2
  MaximumRecordsRead = 0
  Cells = {1, 2, 3, 4}
  MaxFailures = 1
INVARIANTS TypeOK ProcessedIndexed ListProcessed
