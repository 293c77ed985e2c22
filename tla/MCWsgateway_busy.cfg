CONSTANTS
  Conns = {c1, c2}
  Fds = {f1, f2}
  i1 = i1
  i2 = i2
  Imeis = {i1}
  Segments <- FewSegments
  Numback = 1
  SndBuf = 1
  MaxReports = 1
  MaxSub = 1
  None = None
  NoConn = NoConn
  NoFd = NoFd
SPECIFICATION FairSpec
PROPERTIES BusyBrowserHarmsNobody
CHECK_DEADLOCK FALSE
