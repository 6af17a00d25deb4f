SPECIFICATION RecvFairSpec
CONSTANTS
  w1 = w1
  w2 = w2
  Workers = {w1, w2}
  MaxPackets = 3
  Sizes = {1, 3}
INVARIANTS
  NothingLostBetween
  ResultExact
PROPERTY Returns
