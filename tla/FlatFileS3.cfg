SPECIFICATION HSpec
CONSTANTS
  pet = pet
  petstore = petstore
  c1 = c1
  c2 = c2
  Threads = {t1, t2}
  Names = {pet}
  StartsWith <- Unrelated
  MaxVersion = 2
  Contents = {c1, c2}
  Absent = Absent
  Storage = "s3"
  PageSize = 2
  KeyRank <- TextRank
  Faults = {"io", "crash"}
SYMMETRY Symmetry
INVARIANTS NoVersionMissed DeleteIsComplete AbsentWasRemoved
