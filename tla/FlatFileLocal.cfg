SPECIFICATION HSpec
CONSTANTS
  pet = pet
  petstore = petstore
  c1 = c1
  c2 = c2
  Threads = {t1, t2}
  Names = {pet}
  StartsWith <- Unrelated
  MaxVersion = 2
  Contents = {c1, c2}
  Absent = Absent
  Storage = "local"
  PageSize = 10
  KeyRank <- TextRank
  Faults = {"io", "crash"}
SYMMETRY Symmetry
INVARIANTS TypeOK AckedWriteIsStored DeleteIsComplete CreateIsNew
PROPERTIES ImplementsStore
