SPECIFICATION Spec
CHECK_DEADLOCK FALSE
SYMMETRY PidSymmetry
CONSTANTS
  IPs <- TwoHosts
  defaultPolicy = FALSE
  Ports = {80}
  Addresses = {"x", "y"}
  myVIP <- Mine16
  featureRDMA = FALSE
  MaxAddresses = 2
  DaemonFds = {0, 1, 2, 3, 4, 5, 6, 7, 8, 9, 10}
  Containers = {"a", "b", "c"}
  Messages <- Runtimes
  MaxRejected = 2
  p1 = p1  p2 = p2  p3 = p3
  Pids = {p1, p2, p3}
  Incarnations = {1, 2}
  NoOne = NoOne
INVARIANTS TablesAgree  HandlersKept NothingKept CachesTrue
PROPERTIES PolicyKept DirectoryKept
