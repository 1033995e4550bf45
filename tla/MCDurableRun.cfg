CONSTANTS
  Resumers <- TwoResumers
  MaxFaults = 2
SPECIFICATION FairSpec
INVARIANTS FenceCoversCommand AckIsCollectable SummaryIsTrue
PROPERTIES ResultOutlivesCollection Collected
CHECK_DEADLOCK FALSE
