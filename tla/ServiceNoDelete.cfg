SPECIFICATION ServiceSpec
CONSTANTS
  pet = pet
  petstore = petstore
  c1 = c1
  c2 = c2
  Threads = {t1, t2}
  Names = {pet}
  StartsWith <- Unrelated
  MaxVersion = 2
  Contents = {c1, c2}
  Absent = Absent
  Storage = "local"
  PageSize = 10
  KeyRank <- TextRank
  Faults = {"io", "crash"}
  Ops = {"create", "update", "read", "readVersion", "versions"}
  EvictAll = FALSE
  CacheKey <- DistinctKeys
  Expiry = TRUE
  NoEntry = NoEntry
SYMMETRY Symmetry
INVARIANTS ServiceTypeOK CachedIsStored
