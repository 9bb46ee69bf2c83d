SPECIFICATION FairSpec
CONSTANTS
  AXC = "axc"
  Width = 4
  Histories <- MCHistories
  Processes = {p1}
  Handlers = {h1, h2}
  MaxFailures = 1
INVARIANTS
  TypeOK
  NothingMissing
  NothingElse
  BootstrapComplete
  RowsFaithful
  RewardedComplete
  RewardsAnnounced
PROPERTIES
  ProcessedKept
  EventuallyRewarded
CHECK_DEADLOCK FALSE
