SPECIFICATION FairSpec
CONSTANTS
  c1 = c1
  Clients = {c1}
  Choices = {{}, {c1}}
  MaxBulk = 3
  SockBuf = 2
INVARIANTS
  HandshakeInOrder
  ForwardConservation
  ReverseNothingLost
  ResultWithinSent
PROPERTIES
  KeepsLifecycle
  StartedTestEnds
  ConnectedClientReturns
  HandlerEnds
