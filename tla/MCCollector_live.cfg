CONSTANTS
  Conns = {c1, c2}
  Fds = {f1, f2}
  Imeis = {bsimei}
  bsimei = bsimei
  zx = zx
  bs = bs
  Pmods = {zx, bs}
  Strict = {bs}
  Segments <- LiveSegments
  Resps <- LiveResps
  HandleHibernate = TRUE
  MaxWire = 1
  MaxPull = 1
  MaxDrain = 2
  None = None
  NoConn = NoConn
  NoFd = NoFd
  NoMsg = NoMsg
SPECIFICATION FairSpec
PROPERTIES HangupNoticed PushHandled ConnectionServed
