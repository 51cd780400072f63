SPECIFICATION FairSpec
CONSTANTS
  Path = {a}
  Version = {v1}
  Received = {r1}
  Absent = Absent
  Tree = Tree
  Nothing = Nothing
  QueueMax = 1
  EventMax = 2
INVARIANTS ChangeRemembered
PROPERTIES HintReachesDisk
