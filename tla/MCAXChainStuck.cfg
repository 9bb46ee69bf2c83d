SPECIFICATION FairSpec
CONSTANTS
  w1 = w1
  w2 = w2
  MaxBlock = 2
  Parts = 1
  Workers = {w1}
  MaxWorkerQueue = 1
  Chunk = 2
  Cells = {1, 2, 3}
  ErrorKinds = {"notready", "other"}
  MaxErrors = 3
  MaxCrashes = 0
CHECK_DEADLOCK FALSE
PROPERTIES Retried
