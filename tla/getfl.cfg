SPECIFICATION Spec
CHECK_DEADLOCK FALSE
CONSTANTS
  None = None  Free = Free  Orphan = Orphan  Foreign = Foreign
  Closed = Closed  Inet = Inet  Other = Other
  t1 = t1  t2 = t2  c1 = c1  c2 = c2
  eUnix = eUnix  eTcp = eTcp  eTcp6 = eTcp6  eRdma = eRdma
  vA = vA  vB = vB  vZero = vZero
  HostFds = {3, 4}
  SockIds = {1, 2, 3}
  Entries = {eTcp}
  Transport <- TransportDef
  Conns = {c1}
  VAddrs = {vA, vB}
  ConnVAddr <- ConnFrom
  PeerFaults = FALSE
  ForeignFds = FALSE
  Threads = {t1}
  Tgid <- SelfTgid
  Fds = {3, 4}
  Calls <- OptionCalls
  Interrupts = FALSE
  SilentCloses = FALSE
  Kills = FALSE
  Kinds = {Inet}
  SAE <- AllowA
  CAE <- AllowA
  ServerEntries <- ServeTcp
  ClientEntries <- DialNone
  ZeroVAddr = vB
  AcceptedSocketQueueCapacity = 1
  FeatureRDMA = FALSE
  HostFaults = FALSE
INVARIANTS AddressReleased
