CONSTANTS
  Storage = storage
  Procs = {storage, wsgateway}
  Imeis = {i1, i2}
  MaxCrashes = 2
  NoProc = NoProc
  d1 = d1
  d2 = d2
  BadRow = BadRow
  NoTable = NoTable
  NoSnap = NoSnap
  NoAnswer = NoAnswer
  NoDload = NoDload
  StoredImeis = {"imei"}
  None = "None"
  Clocks <- MCClocks
  stowevents = TRUE
  Tz = 1
  Numbacks = {0, 2}
  MaxBcasts = 2
  MaxRepts = 3
  Row <- MCRow
  Terminals = {"t1", "t2"}
  Hints <- MCHints
  Bodies <- MCBodies
  Dloads = {d1, d2}
  FirstCells <- MCFirstCells
  MaxRuns = 3
SPECIFICATION FairDatabasesSpec
INVARIANTS RowsKept KnownBeforeRecorded RecordedInOrder
PROPERTIES StowedRowStays BothServe LastLocations ReplacedAtOnce AnswerFromLatestCells StrayCellsOfFailed
