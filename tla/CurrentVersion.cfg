SPECIFICATION Spec
CONSTANTS
  Threads = {t1, t2}
  Names = {a, b}
  Versions = {v1, v2}
  Storages = {"local", "s3", "cassandra"}
  Ops = {"set", "get"}
  Faults = {"io", "lost", "crash"}
  NoFile = NoFile
  Torn = Torn
  None = None
SYMMETRY Symmetry
INVARIANTS CurrentTypeOK AckedSetIsKept CurrentWasStored
CONSTRAINT Bounds
