CONSTANTS
  Conns = {c1, c2}
  Fds = {f1, f2}
  Imeis = {i1, i2}
  bsimei = bsimei
  zx = zx
  bs = bs
  Pmods = {zx}
  Strict = {}
  Segments <- SafetySegments
  Resps <- OwnResps
  HandleHibernate = TRUE
  MaxWire = 1
  MaxPull = 1
  MaxDrain = 2
  None = None
  NoConn = NoConn
  NoFd = NoFd
  NoMsg = NoMsg
SPECIFICATION Spec
SYMMETRY Perms
INVARIANTS TypeOK SocketsAccountedFor RegistryExact ResponseReady PollerTracksClients RecvNeverBlocks PublishedAsSender
PROPERTIES ImeiIsSticky ImplementsDirectory
