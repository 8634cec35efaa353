SPECIFICATION ProcessesSpec
CONSTANTS
  Scenes = {"tick", "open", "edit", "sync", "update"}
  Ticks = {t1, t2, t3}
  None = None
  Empty = Empty
  MaxFaults = 1
  MaxAged = 1
  Openers = {r1, r2}
  FoundVersions = {0, 2, 5, 6}
  MaxResets = 1
  MaxDeaths = 1
  NoStore = NoStore
  e1 = e1
  e2 = e2
  e3 = e3
  Editors = {e1, e2, e3}
  Adds = {e1, e2}
  MachineOf <- MCMachineOf
  NoEditor = NoEditor
  Commands = {p1, p2}
  Dests = {d1, d2}
  SessionFiles = {1, 2}
  Interval = 1
  MaxRuns = 3
  MaxTime = 2
  MaxEdits = 1
  MaxHappenings = 4
  Nothing = Nothing
  Checkers = {c1, c2}
  CiRuns = {}
  CheckTtl = 1
  CheckTries = 2
  MaxHour = 2
  MaxRelease = 2
SYMMETRY TickSymmetry
INVARIANTS
  OnePlace OneHolder BuiltOnce ReclaimsOnlyStale
  OldNotRevived SchemaSound CacheIsOneExport
PROPERTIES
  LedgerKept NoEditLost OneSyncPerInterval RefreshClaims
CHECK_DEADLOCK FALSE
