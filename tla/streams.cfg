SPECIFICATION FairSpec
CONSTANTS
  None = None
  Streams = {0, 1}
  Runtimes = {1, 2}
  Batch = 2
  MaxRounds = 3
  InFlight = 2
  MaxGone = 1
INVARIANTS
  TotalsAreTaken
  LossExplained
PROPERTY RunReturns
