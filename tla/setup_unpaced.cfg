SPECIFICATION Spec
CONSTANTS
  c1 = c1
  c2 = c2
  None = None
  Clients = {c1, c2}
  ClientLines <- SomeClientLines
  ServerLines <- SomeServerLines
  Calls <- SomeCalls
  ServerCalls <- SomeServerCalls
  MaxCalls <- ThreeCalls
  Thousand = 10
  Word = 16384
  Second = 2
  HeaderSize = 20
  NumbersSize = 8
  DefaultPayload = 1024
  PoolSize = 65536
  MaxDatagram = 65507
  DefaultLength = 131072
  UdpLength = 1500
INVARIANT RateAsAsked
