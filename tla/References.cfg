SPECIFICATION Spec
CONSTANTS
  pet = pet
  s1 = s1
  c1 = c1
  Threads = {t1, t2}
  Names = {pet}
  MaxVersion = 2
  Sets = {s1}
  Contents = {c1}
  References <- MCReferences
  Batches <- MCBatches
  Ops <- AllOps
  Faults = {"io", "crash"}
  Absent = Absent
SYMMETRY Symmetry
INVARIANTS ReferencesTypeOK ReferencesResolve DeleteRespectsReferences AckedBatchIsStored MissingWasDeleted
CONSTRAINT Bounds
