CONSTANTS
  Conns = {c1}
  Fds = {f1}
  i1 = i1
  i2 = i2
  Imeis = {i1}
  Segments <- FewSegments
  Numback = 1
  SndBuf = 1
  MaxReports = 2
  MaxSub = 1
  None = None
  NoConn = NoConn
  NoFd = NoFd
SPECIFICATION Spec
INVARIANTS WaitersArePolled
CHECK_DEADLOCK FALSE
