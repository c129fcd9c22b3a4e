SPECIFICATION Spec
CONSTANTS
  f1 = f1  f2 = f2  f3 = f3  w1 = w1  w2 = w2
  Facts = {f1, f2}
  InPlace = {f1}
  Writers = {w1}
  Backends = {"file", "database"}
  Signals = {"SIGINT"}
  RestoreFails = TRUE
  MaxFailures = 0
  Garbage = Garbage
PROPERTY SavedStays
