SPECIFICATION Spec
CONSTANTS
  Threads = {t1, t2}
  Names = {a}
  Versions <- FourVersions
  Contents = {c1}
  Ops = {"create", "update", "read", "readVersion", "delete", "deleteVersion"}
  Faults = {"io", "lost", "crash"}
  MaxInt = 11
  Absent = Absent
SYMMETRY Symmetry
INVARIANTS CassandraTypeOK ReadIsLatest UpdateGoesUp DeletedRowsAreGone AbsentWasDropped
