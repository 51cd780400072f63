\* Two documents, an empty fragment and two whole versions, two records.
SPECIFICATION Spec
CONSTANTS
  Path = {p1, p2}
  Content = {c0, c1, c2}
  Fragment = {c0}
  Empty = c0
  Id = {i1, i2}
  Absent = Absent
  NoJournal = NoJournal
  Nobody = Nobody
  Idle = Idle
SYMMETRY Interchangeable
INVARIANTS
  TypeOK
  TornIsRecorded
  FullRoundReadsWhole
  BlockedOnlyIfDisturbed
  TruncatesOnlyExpected
PROPERTY
  NothingLost
