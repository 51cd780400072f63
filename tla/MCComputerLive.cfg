SPECIFICATION PartsSpec
CONSTANTS
  s1 = s1
  s2 = s2
  Share <- TwoShares
  Rotation <- Order
  Broken = {}
  None = None
  PcEdited = {s2}
  PhoneWoken = {}
  Requested = {}
  FaultMax = 2
  Paired = {a}
  c1 = c1
  c2 = c2
  d1 = d1
  d2 = d2
  NoProc = NoProc
PROPERTIES DaemonEnds PairingHeals ChangesAreServed
CHECK_DEADLOCK FALSE
