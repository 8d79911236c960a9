SPECIFICATION Spec
CHECK_DEADLOCK FALSE
SYMMETRY Symmetry
CONSTANTS
  NoPeer = NoPeer
  c1 = c1  c2 = c2
  Conns = {c1, c2}
  IPs <- AllIPs
  defaultPolicy = FALSE
  Bound <- BoundDef
  Dialled <- DialledDef
  AppData <- DataDef
  ServerVAddr <- ListenDef
  Channels = {1, 2}
  Questioned <- QuestionedDef
  ownVIP <- Server4
INVARIANTS PeerNamed StreamIntact
PROPERTIES Admitted ControlTruthful
