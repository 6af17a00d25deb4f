SPECIFICATION LossSpec
CONSTANTS
  MaxSent = 4
  MaxTests = 2
  MaxCopies = 2
  SeqSpace = 8
  NoSeq = NoSeq
INVARIANTS
  LossExact
  LossNotOverstated
  OneWayAccount
  OneWayLossBounds
CHECK_DEADLOCK FALSE
