SPECIFICATION PartsSpec
CONSTANTS
  Waker = {w1, w2}
  Main = Main
  Nobody = Nobody
  Share = {s1, s2}
  None = None
  Addr = {a1, a2, a3, a4}
  NoAddr = NoAddr
INVARIANTS NoSleepOverWake
PROPERTIES WorkerServes FailuresStayLocal Reconnects
CHECK_DEADLOCK FALSE
