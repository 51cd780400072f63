CONSTANTS
  Path = {p1}
  Content = {a, b}
  Token = {t1, t2, t3}
  Absent = Absent
  NoToken = NoToken
  Tree = Tree
  Mode = "Bidirectional"
  Window = 1
  Events = {"overflow"}
SPECIFICATION Spec
SYMMETRY Interchangeable
PROPERTIES DeltaCommitCoversPc
