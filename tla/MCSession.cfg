SPECIFICATION PartsSpec
CONSTANTS
  Path = {p1}
  Content = {a, b}
  Token = {t1, t2, t3}
  Absent = Absent
  NoToken = NoToken
  Tree = Tree
  Mode = "Bidirectional"
  Window = 1
  Events = {"miss"}
  Job = {j1, j2, j3, j4}
  Hashes = {j1, j2, j3}
  Large = {j2, j4}
  Ask = {r1, r2}
PROPERTIES FramesAgree BudgetsServeAll RequestsSettle FoldersConverge
CHECK_DEADLOCK FALSE
