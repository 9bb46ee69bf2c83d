SPECIFICATION FairSpec
CONSTANTS
  m1 = m1
  m2 = m2
  m3 = m3
  n1 = n1
  n2 = n2
  c1 = c1
  c2 = c2
  Machines = {m1, m2, m3}
  Instances = {n1, n2}
  InstanceOf <- MCInstanceOf
  Containers = {c1, c2}
  Order <- MCOrder
  MaxTxRead = 2
  MaxTxPoolSize = 1
  PerformUpdates = FALSE
  MaxFailures = 2
INVARIANTS TypeOK IndexCovered QueueDurable
PROPERTIES IndexMonotone EventuallyProduced
