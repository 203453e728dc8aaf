SPECIFICATION FairServiceSpec
CONSTANTS
  pet = pet
  petstore = petstore
  c1 = c1
  c2 = c2
  Threads = {t1, t2}
  Names = {pet}
  StartsWith <- Unrelated
  MaxVersion = 1
  Contents = {c1}
  Absent = Absent
  Storage = "local"
  PageSize = 10
  KeyRank <- TextRank
  Faults = {}
  Ops <- AllOps
  EvictAll = FALSE
  CacheKey <- DistinctKeys
  Expiry = TRUE
  NoEntry = NoEntry
PROPERTIES DeletedFadesFromCache
