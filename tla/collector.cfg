SPECIFICATION FairSpec
CONSTANTS
  p1 = p1
  p2 = p2
  Procs = {p1, p2}
  Nobody = Nobody
  Casts <- SharedByTwo
  MaxRounds <- OnceOrTwice
  MaxIntervals = 2
  MaxSeq = 1
INVARIANTS
  TotalsAreSums
  SnapshotWithinCall
  RingKeepsLast
  TextIsTrue
  DetailedWithinSync
PROPERTY EveryCallReturns
