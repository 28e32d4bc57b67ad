SPECIFICATION MCSpec
CONSTANTS
  Subjects = {"writers", "contract", "import", "settings"}
  NoSession = NoSession
  Writers = {w1, w2}
  Sessions = {s1, s2}
  MaxEntries = 3
  Interrupts = TRUE
  DirSessions = {s1, s2, s3}
  DirEntries = 4
  FileSessions = {s1}
  FileEntries = 1
  Conns = {c1, c2}
  NewEntries = {11, 12}
  Processes = {p, q}
  Keys = {"theme", "model"}
  Values = {1, 2}
  MaxWrites = 2
SYMMETRY Symmetry
INVARIANTS
  SessionsAreWhole
  ImportComplete
  LegacyKept
  WatcherCatchesUp
PROPERTIES
  StoresImplementContract
CHECK_DEADLOCK FALSE
