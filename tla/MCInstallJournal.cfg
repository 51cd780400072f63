\* Two paths share the recovery directory: two records, three versions.
SPECIFICATION Spec
CONSTANTS
  Path = {p1, p2}
  Content = {c1, c2, c3}
  Id = {i1, i2}
  Absent = Absent
  NoJournal = NoJournal
  Nobody = Nobody
  Idle = Idle
SYMMETRY Interchangeable
INVARIANTS
  TypeOK
  ReplaceIsAtomic
  BlockedOnlyIfTouched
  SupersedesOnlyExpected
  SettledBeforeUse
  BackupIsListed
PROPERTY
  NothingLost
