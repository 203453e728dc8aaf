SPECIFICATION HSpec
CONSTANTS
  pet = pet
  c1 = c1
  c2 = c2
  Threads = {t1, t2}
  Names = {pet}
  StartsWith <- Unrelated
  MaxVersion = 2
  Contents = {c1, c2}
  Ops = {"create", "update", "read", "readVersion", "versions", "delete", "deleteVersion"}
  Absent = Absent
  Partial = Partial
  Storages = {"local", "s3"}
  Faults = {"io", "crash"}
  MaxFaults = 2
CONSTRAINT OverlapOnVersion1
SYMMETRY Symmetry
INVARIANTS TypeOK AckedPairIsStored DeleteIsAllOrNothing
PROPERTIES VersionsAreImmutable
