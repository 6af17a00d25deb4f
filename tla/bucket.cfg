SPECIFICATION BucketSpec
CONSTANTS
  MicrosPerSec = 8
  NanosPerMicro = 5
  SkipNanos = 3
  MinBurst = 3
  Rates = {3, 17, 40}
  MaxWrite = 5
  MaxTime = 16
  MaxLag = 3
INVARIANTS
  NothingForFree
  RateRespected
CHECK_DEADLOCK FALSE
