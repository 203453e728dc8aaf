SPECIFICATION ServiceSpec
CONSTANTS
  pet = pet
  petstore = petstore
  c1 = c1
  c2 = c2
  Threads = {t1}
  Names = {pet, petstore}
  StartsWith <- Unrelated
  MaxVersion = 2
  Contents = {c1, c2}
  Absent = Absent
  Storage = "local"
  PageSize = 10
  KeyRank <- TextRank
  Faults = {"crash"}
  Ops <- AllOps
  EvictAll = TRUE
  CacheKey <- DistinctKeys
  Expiry = TRUE
  NoEntry = NoEntry
SYMMETRY Symmetry
INVARIANTS CacheIsCoherent
PROPERTIES DeletesOwnFilesOnly
