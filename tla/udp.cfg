SPECIFICATION FairSpec
CONSTANTS
  c1 = c1
  NoPeer = NoPeer
  Clients = {c1}
  Choices <- Alone
  MaxPackets = 3
  MaxBatch = 2
INVARIANT CountedOnce
PROPERTIES
  KeepsLifecycle
  StartedTestEnds
  ReceiverFreesPort
