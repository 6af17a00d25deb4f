SPECIFICATION Spec
CONSTANTS
  c1 = c1
  Clients = {c1}
  Choices = {{}}
  MaxBulk = 2
  SockBuf = 2
INVARIANT DoneEndsTest
