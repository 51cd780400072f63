SPECIFICATION PartsSpec
CONSTANTS
  Phone = {a, b}
  IdMax = 2
  EventMax = 2
  s1 = s1
  s2 = s2
  Share = {s1, s2}
  Rotation <- Order
  Broken = {}
  None = None
  PcEdited = {s1}
  PhoneWoken = {s2}
  Requested = {s2}
  FaultMax = 1
  c1 = c1
  c2 = c2
  Proc = {d1, d2}
  Cmd = {c1, c2}
  NoProc = NoProc
  Unit = d1
  Given <- Pairs
  LineMax = 2
  CrashMax = 1
  Writer = {w1, w2}
  ImportMax = 1
  LossMax = 2
  Watched = {e1, e2}
  Version = {v1, v2}
  Received = {}
  Tree = Tree
  Nothing = Nothing
  QueueMax = 1
  NoticeMax = 1
  Path = {p1}
  Node = {n1, n2}
  Piece = {x, y}
  Absent = Absent
  EditMax = 2
INVARIANTS EditsRemembered PeerConsented CommandsTellTruth ConfigurationHolds
PROPERTIES NewerRequestKept CacheTellsTruth
CHECK_DEADLOCK FALSE
