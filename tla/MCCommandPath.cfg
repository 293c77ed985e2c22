CONSTANTS
  Conns = {c1, c2}
  Fds = {f1, f2}
  zximei = zximei
  bsimei = bsimei
  Imeis = {zximei, bsimei}
  zx = zx
  bs = bs
  Pmods = {zx, bs}
  Strict = {bs}
  Segments <- PathSegments
  Resps <- PathResps
  HandleHibernate = TRUE
  MaxWire = 1
  MaxPull = 1
  MaxDrain = 2
  None = None
  NoConn = NoConn
  NoFd = NoFd
  NoMsg = NoMsg
  MaxRaw = 1
SPECIFICATION PathSpec
SYMMETRY Perms
INVARIANT EnframeAssertion
