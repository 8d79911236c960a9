SPECIFICATION Spec
CHECK_DEADLOCK FALSE
CONSTANTS
  None = None  Free = Free  Orphan = Orphan  Foreign = Foreign
  Closed = Closed  Inet = Inet  Other = Other
  t1 = t1  t2 = t2  c1 = c1  c2 = c2
  eUnix = eUnix  eTcp = eTcp  eTcp6 = eTcp6  eRdma = eRdma
  vA = vA  vB = vB  vZero = vZero
  HostFds = {0, 1, 2, 3}
  SockIds = {1, 2, 3}
  Entries = {eUnix, eTcp}
  Transport <- TransportDef
  Conns = {c1, c2}
  VAddrs = {vA, vB, vZero}
  ConnVAddr <- ConnFromB
  PeerFaults = FALSE
  ForeignFds = FALSE
  Threads = {t1}
  Tgid <- SelfTgid
  Fds = {3, 4, 5}
  Calls <- ServerCalls
  Interrupts = FALSE
  SilentCloses = FALSE
  Kills = FALSE
  Kinds = {Inet}
  SAE <- AllowB
  CAE <- AllowA
  ServerEntries <- ServeA
  ClientEntries <- DialNone
  ZeroVAddr = vZero
  AcceptedSocketQueueCapacity = 1
  FeatureRDMA = FALSE
  HostFaults = FALSE
INVARIANTS DeliveredApproved QueueSound NamesTrue ExitCleansUp
 
