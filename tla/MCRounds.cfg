SPECIFICATION RoundsSpec
CONSTANTS
  Path = {p1}
  TwoPaths = {p1, p2}
  One = {a}
  Content = {b, c}
  Three = {b, c, d}
  Token = {t1, t2, t3}
  Absent = Absent
  NoToken = NoToken
  Tree = Tree
  Mode = "Bidirectional"
  Window = 1
  Events = {"delete", "overflow", "crash"}
SYMMETRY Interchangeable
INVARIANTS BaseSound ChangesRemembered
PROPERTIES NoLostUpdate FullCommitCoversPc OtherRoundsHold
