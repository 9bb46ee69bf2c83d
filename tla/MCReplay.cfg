SPECIFICATION FairSpec
CONSTANTS
  c1 = c1
  ax = ax
  d1 = d1
  d2 = d2
  b1 = b1
  t1 = t1
  w1 = w1
  w2 = w2
  NoJob = NoJob
  Rows = {d1, d2, b1, t1}
  Chains = {c1}
  AXchain = ax
  Pool <- MCPool
  Contents <- MCContents
  Workers = {w1, w2}
  QueueSize = 1
  MaxErrors = 1
INVARIANTS TypeOK
PROPERTIES NilMeansReplayed EventuallyEnds
