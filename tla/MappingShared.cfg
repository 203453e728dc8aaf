SPECIFICATION SSpec
CONSTANTS
  t1 = t1
  t2 = t2
  r1 = r1
  r2 = r2
  Precedence <- ShopPrecedence
  Threads = {t1, t2}
  Ops = {"set", "delete", "find"}
  MappingKeys <- NestedKeys
  Queries <- NestedQueries
  References = {r1}
  NullKey = NullKey
  NoReference = NoReference
  Unknown = Unknown
  NoFile = NoFile
  Empty = Empty
  NoThread = NoThread
  Storages = {"local", "s3", "cassandra"}
  Faults = {"io", "crash"}
SYMMETRY Symmetry
INVARIANTS MappingTypeOK LockIsReleased WriterIsAlone AckedIsSaved FindIsTimely
