SPECIFICATION FairSpec
CONSTANTS
  Path = {p1}
  Content = {c1, c2, c3}
  Id = {i1, i2}
  Absent = Absent
  NoJournal = NoJournal
  Nobody = Nobody
  Idle = Idle
PROPERTY
  UndisturbedOpens
  ImplementsReplacement
  StoreOnlyApplies
