SPECIFICATION Spec
CHECK_DEADLOCK FALSE
CONSTANTS
  None = None  Free = Free  Orphan = Orphan  Foreign = Foreign
  Closed = Closed  Inet = Inet  Other = Other
  t1 = t1  t2 = t2  c1 = c1  c2 = c2
  eUnix = eUnix  eTcp = eTcp  eTcp6 = eTcp6  eRdma = eRdma
  vA = vA  vB = vB  vZero = vZero
  HostFds = {0, 1, 2}
  SockIds = {1, 2, 3, 4}
  Entries = {eUnix}
  Transport <- TransportDef
  Conns = {c1, c2}
  VAddrs = {vA, vB}
  ConnVAddr <- ConnFrom
  PeerFaults = FALSE
  ForeignFds = TRUE
  Threads = {t1}
  Tgid <- SelfTgid
  Fds = {3, 4}
  Calls <- ServerCalls
  Interrupts = FALSE
  SilentCloses = FALSE
  Kills = FALSE
  Kinds = {Inet}
  SAE <- AllowA
  CAE <- AllowA
  ServerEntries <- ServeUnix
  ClientEntries <- DialNone
  ZeroVAddr = vB
  AcceptedSocketQueueCapacity = 1
  FeatureRDMA = FALSE
  HostFaults = FALSE
PROPERTIES RemovedAcceptsNothing
