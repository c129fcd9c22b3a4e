SPECIFICATION Spec
CONSTANTS
  f1 = f1  f2 = f2  f3 = f3  w1 = w1  w2 = w2
  Facts = {f1, f2, f3}
  InPlace = {f1}
  Writers = {w1, w2}
  Backends = {"file", "database"}
  Signals = {"SIGINT", "SIGTERM"}
  RestoreFails = FALSE
  MaxFailures = 1
  Garbage = Garbage
INVARIANTS
  TypeOK
  DiskIsWhole
PROPERTIES
  SavedStays
  ScheduledIsSaved
  ImplementsDurable
