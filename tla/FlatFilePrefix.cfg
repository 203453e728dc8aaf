SPECIFICATION Spec
CONSTANTS
  pet = pet
  petstore = petstore
  c1 = c1
  c2 = c2
  Threads = {t1}
  Names = {pet, petstore}
  StartsWith <- PetPrefix
  MaxVersion = 1
  Contents = {c1}
  Absent = Absent
  Storage = "local"
  PageSize = 10
  KeyRank <- TextRank
  Faults = {}
PROPERTIES DeletesOwnFilesOnly
