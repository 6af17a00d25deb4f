SPECIFICATION FairSpec
CONSTANTS
  MaxRuns = 2
  MaxRecords = 3
INVARIANT EveryByteReportedOnce
PROPERTIES
  KeepsFeed
  RunGoesOn
  TasksEnd
