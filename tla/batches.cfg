SPECIFICATION Spec
CONSTANTS
  Threads = {t1, t2}
  None = None
  Junk = Junk
  Rates = {None, 500}
  MaxBatch = 3
  LeastBatch = 2
  Micro = 2
  CacheFor = 2
  Room = 2
  MaxPackets = 3
  MaxTime = 5
INVARIANTS
  EachNumberOnce
  ReceivedOnce
PROPERTY StampsTrue
