SPECIFICATION FairSpec
CONSTANTS
  s1 = s1
  s2 = s2
  Share <- TwoShares
  Rotation <- Order
  Broken = {s2}
  None = None
  PcEdited = {s1}
  PhoneWoken = {}
  Requested = {}
  FaultMax = 1

PROPERTY OthersProgress
