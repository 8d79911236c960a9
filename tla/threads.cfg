SPECIFICATION Spec
CHECK_DEADLOCK FALSE
CONSTANTS
  None = None  Free = Free  Orphan = Orphan  Foreign = Foreign
  Closed = Closed  Inet = Inet  Other = Other
  t1 = t1  t2 = t2  c1 = c1  c2 = c2
  eUnix = eUnix  eTcp = eTcp  eTcp6 = eTcp6  eRdma = eRdma
  vA = vA  vB = vB  vZero = vZero
  HostFds = {0, 1}
  SockIds = {1, 2, 3}
  Entries = {eTcp, eRdma}
  Transport <- TransportRdma
  Conns = {c1}
  VAddrs = {vA, vB}
  ConnVAddr <- ConnFrom
  PeerFaults = TRUE
  ForeignFds = FALSE
  Threads = {t1, t2}
  Tgid <- SelfTgid
  Fds = {3, 4}
  Calls <- ThreadCalls
  Interrupts = TRUE
  SilentCloses = TRUE
  Kills = TRUE
  Kinds = {Inet}
  SAE <- AllowA
  CAE <- AllowA
  ServerEntries <- ServeRdma
  ClientEntries <- DialRdma
  ZeroVAddr = vB
  AcceptedSocketQueueCapacity = 1
  FeatureRDMA = TRUE
  HostFaults = TRUE
INVARIANTS TypeOK AccessChecked OneHolder AddressReleased
