SPECIFICATION SSpec
CONSTANTS
  t1 = t1
  t2 = t2
  r1 = r1
  r2 = r2
  Precedence <- DefaultPrecedence
  Threads = {t1}
  Ops = {"set", "delete", "find"}
  MappingKeys <- SomeKeys
  Queries <- ShopQueries
  References = {r1, r2}
  NullKey = NullKey
  NoReference = NoReference
  Unknown = Unknown
  NoFile = NoFile
  Empty = Empty
  NoThread = NoThread
  Storages = {"s3", "cassandra"}
  Faults = {"crash"}
SYMMETRY Symmetry
CONSTRAINT TwoRows
INVARIANTS FindIsBest FindIsCandidate AckedIsSaved
