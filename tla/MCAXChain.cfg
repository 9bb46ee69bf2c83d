SPECIFICATION FairSpec
CONSTANTS
  w1 = w1
  w2 = w2
  MaxBlock = 2
  Parts = 2
  Workers = {w1, w2}
  MaxWorkerQueue = 2
  Chunk = 2
  Cells = {1, 2, 3, 4, 5}
  ErrorKinds = {"notready", "other"}
  MaxErrors = 1
  MaxCrashes = 1
INVARIANTS TypeOK BlockComplete NothingForgotten
PROPERTIES Retried ProducedUnlessGivenUp
