SPECIFICATION FairSpec
CONSTANTS
  node = node
  core = core
  Producers = {node, core}
  Stragglers = {core}
  QueueCapacity = 2
  MaxRecords = 4
  MaxFailures = 1
INVARIANT SessionEvidenceTruthful
PROPERTY FinishReturns
CHECK_DEADLOCK FALSE
