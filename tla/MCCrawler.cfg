CONSTANTS
  MaxBlock = 2
  Deploy = 0
  Calls = {1, 2}
  Referring = {1}
  Replaceable = {1, 2}
  Bucket = 2
  Batch = 2
  NoBlock = NoBlock
  Thru = {NoBlock, 0}
  MaxReplaced = 1
  MaxCrashes = 1
  MaxPurges = 1
SPECIFICATION Spec
CHECK_DEADLOCK FALSE
INVARIANTS
  CrawlerInv
  NothingSkipped
  FinalTransactions
PROPERTY
  PurgeAdvances
