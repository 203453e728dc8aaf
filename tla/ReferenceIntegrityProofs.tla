---------------------- MODULE ReferenceIntegrityProofs ----------------------
(***************************************************************************)
(* Proofs about ReferenceIntegrity, for any number of threads, property    *)
(* groups, version sets and batches, with failures and restarts.           *)
(***************************************************************************)
EXTENDS ReferenceIntegrity, TLAPS

(***************************************************************************)
(* The inductive invariant                                                 *)
(***************************************************************************)

(* What is stored now, or was.  It stays so.                               *)
Here(i) == files[i] # Absent \/ i \in Retracted

(* The same of an element of a batch, as it is in the batch.               *)
Kept(t, i) == files[i] = BatchData(t, i) \/ i \in Retracted

DataOf(i) == IF i \in Groups THEN Contents ELSE SUBSET Groups

(* Files, erased files and left tasks have the data of their items, and    *)
(* what a version set among them refers to is stored or was.               *)
Entry(i, d) ==
  /\ d \in DataOf(i)
  /\ i \in Sets => \A g \in d : Here(g)

GlobalOK ==
  /\ \A i \in Items : Whole(i) => Entry(i, files[i])
  /\ \A x \in removed : x[2] # Absent => Entry(x[1], x[2])
  /\ \A x \in late : IF x[2] = Absent THEN x[1] \in Sets /\ Here(x[1])
                                      ELSE Entry(x[1], x[2])
  /\ \A s \in mapped : Here(s)
  /\ \A t \in Threads : since[t] \subseteq WholeSets

(* What of a request is certain at each step.                              *)
ValidateOK(t) ==
  pc[t] = "validate" =>
    /\ req[t].op \in {"createSet", "map", "batch"}
    /\ req[t].op = "createSet" => current[t] = req[t].item
    /\ todo[t] \subseteq ToValidate(req[t])
    /\ \A i \in ToValidate(req[t]) \ todo[t] : Here(i)

DeleteOK(t) ==
  /\ pc[t] \in {"listSets", "readSets"} => req[t].op \in {"deleteVersion", "deleteName"}
  /\ pc[t] = "readSets" => todo[t] \subseteq Sets
  /\ pc[t] \in {"readSets", "readOwn", "unlink"} /\ req[t].op = "deleteVersion" =>
       \A s \in since[t] :
         req[t].item \in files[s] => pc[t] = "readSets" /\ s \in todo[t]
  /\ pc[t] \in {"listGroups", "readLatest"} => req[t].op = "deleteName"
  /\ pc[t] \in {"readOwn", "unlink"} =>
       req[t].op \in {"deleteVersion", "deleteName", "deleteSet"}

WriteOK(t) ==
  /\ pc[t] \in {"open", "fill"} =>
       /\ req[t].op \in {"createGroup", "createSet", "batch"}
       /\ current[t] \in Items
       /\ req[t].op = "batch" => current[t] \in todo[t]
       /\ req[t].op # "batch" => current[t] = req[t].item
       /\ req[t].op = "createSet" => \A g \in req[t].data : Here(g)
  /\ pc[t] = "fill" => files[current[t]] = t \/ current[t] \in Retracted

InGroups(t) == pc[t] = "groups" \/ (pc[t] \in {"open", "fill"} /\ current[t] \in Groups)
InSets(t)   == pc[t] = "sets" \/ (pc[t] \in {"open", "fill"} /\ current[t] \notin Groups)
InMaps(t)   == pc[t] = "maps"

BatchOK(t) ==
  /\ pc[t] \in {"groups", "sets"} => req[t].op = "batch"
  /\ req[t].op = "batch" /\ (InGroups(t) \/ InSets(t) \/ InMaps(t)) =>
       /\ \A i \in External(Batch(t)) : Here(i)
       /\ InGroups(t) => /\ todo[t] \subseteq DOMAIN Batch(t).groups
                         /\ \A g \in DOMAIN Batch(t).groups \ todo[t] : Kept(t, g)
       /\ InSets(t) => /\ todo[t] \subseteq DOMAIN Batch(t).sets
                       /\ \A g \in DOMAIN Batch(t).groups : Kept(t, g)
                       /\ \A s \in DOMAIN Batch(t).sets \ todo[t] : Kept(t, s)
       /\ InMaps(t) => /\ \A i \in DOMAIN Batch(t).groups \cup DOMAIN Batch(t).sets : Kept(t, i)
                       /\ Batch(t).maps \ todo[t] \subseteq mapped

MapOK(t) ==
  pc[t] = "maps" =>
    /\ req[t].op \in {"map", "batch"}
    /\ todo[t] \subseteq Sets
    /\ \A s \in todo[t] : Here(s)

FindOK(t) ==
  /\ pc[t] \in {"lookUp", "find"} => req[t].op = "find"
  /\ pc[t] = "find" => todo[t] \subseteq Groups /\ \A g \in todo[t] : Here(g)

EndOK(t) ==
  /\ pc[t] # "idle" => req[t] \in Requests
  /\ outcome[t] # "none" => pc[t] = "done"
  /\ req[t].op = "batch" /\ outcome[t] = "ok" =>
       /\ \A i \in DOMAIN Batch(t).groups \cup DOMAIN Batch(t).sets : Kept(t, i)
       /\ Batch(t).maps \subseteq mapped
  /\ outcome[t] = "missing" => todo[t] \subseteq Retracted

ThreadOK(t) ==
  /\ ValidateOK(t)
  /\ DeleteOK(t)
  /\ WriteOK(t)
  /\ BatchOK(t)
  /\ MapOK(t)
  /\ FindOK(t)
  /\ EndOK(t)

IInv == ReferencesTypeOK /\ GlobalOK /\ \A t \in Threads : ThreadOK(t)

(***************************************************************************)
(* Facts about requests, batches and data                                  *)
(***************************************************************************)

LEMMA RequestFacts ==
  ASSUME NEW r \in Requests
  PROVE  /\ r.op \in Ops
         /\ r.op = "createGroup" => r.item \in Groups /\ r.data \in Contents
         /\ r.op = "createSet" => r.item \in Sets /\ r.data \in References
         /\ r.op = "deleteVersion" => r.item \in Groups
         /\ r.op \in {"deleteSet", "map"} => r.item \in Sets
         /\ r.op = "batch" => r.data \in Batches
BY DEF Requests, Request

LEMMA BatchFacts ==
  ASSUME NEW b \in Batches
  PROVE  /\ DOMAIN b.groups \subseteq Groups
         /\ DOMAIN b.sets \subseteq Sets
         /\ b.maps \subseteq Sets
         /\ \A g \in DOMAIN b.groups : b.groups[g] \in Contents
         /\ \A s \in DOMAIN b.sets : b.sets[s] \subseteq Groups
         /\ External(b) \subseteq Items
         /\ \A s \in DOMAIN b.sets : b.sets[s] \subseteq External(b) \cup DOMAIN b.groups
         /\ b.maps \subseteq External(b) \cup DOMAIN b.sets
<1>1. b \in BatchType
  BY ReferenceConstantsAssumption
<1>2. /\ b.groups \in UNION {[D -> Contents] : D \in SUBSET Groups}
      /\ b.sets \in UNION {[D -> SUBSET Groups] : D \in SUBSET Sets}
      /\ b.maps \in SUBSET Sets
  BY <1>1 DEF BatchType
<1>3. PICK D \in SUBSET Groups : b.groups \in [D -> Contents]
  BY <1>2
<1>4. PICK E \in SUBSET Sets : b.sets \in [E -> SUBSET Groups]
  BY <1>2
<1>5. /\ DOMAIN b.groups \subseteq Groups
      /\ DOMAIN b.sets \subseteq Sets
      /\ \A g \in DOMAIN b.groups : b.groups[g] \in Contents
      /\ \A s \in DOMAIN b.sets : b.sets[s] \subseteq Groups
  BY <1>3, <1>4
<1>6. QED
  BY <1>2, <1>5 DEF External, Items

LEMMA DataFacts ==
  /\ \A i : DataOf(i) \subseteq Data
  /\ \A d \in Data : d \notin Threads /\ d # Absent
  /\ Absent \notin Threads
BY ReferenceConstantsAssumption DEF DataOf, Data

LEMMA BatchDataFacts ==
  ASSUME NEW t \in Threads, Batch(t) \in Batches,
         NEW i \in DOMAIN Batch(t).groups \cup DOMAIN Batch(t).sets
  PROVE  BatchData(t, i) \in DataOf(i) /\ i \in Items
BY BatchFacts, ReferenceConstantsAssumption DEF BatchData, DataOf, Items

LEMMA InitIInv == Init => IInv
<1> SUFFICES ASSUME Init PROVE IInv
  OBVIOUS
<1> USE DEF Init
<1>1. ReferencesTypeOK
  BY DEF ReferencesTypeOK, Labels, Outcomes
<1>2. GlobalOK
  BY DEF GlobalOK, Whole
<1>3. ASSUME NEW t \in Threads PROVE ThreadOK(t)
  BY DEF ThreadOK, ValidateOK, DeleteOK, WriteOK, BatchOK, MapOK, FindOK, EndOK, NoRequest,
         InGroups, InSets, InMaps
<1>4. QED
  BY <1>1, <1>2, <1>3 DEF IInv

(***************************************************************************)
(* Types                                                                   *)
(***************************************************************************)

LEMMA PayloadTyped ==
  ASSUME IInv, NEW t \in Threads, pc[t] \in {"open", "fill"}
  PROVE  Payload(t) \in DataOf(current[t]) /\ current[t] \in Items
<1>1. /\ req[t] \in Requests
      /\ req[t].op \in {"createGroup", "createSet", "batch"}
      /\ current[t] \in Items
      /\ req[t].op # "batch" => current[t] = req[t].item
  BY DEF IInv, ThreadOK, WriteOK, EndOK
<1>2. CASE req[t].op = "batch"
  <2>1. Batch(t) \in Batches /\ current[t] \in DOMAIN Batch(t).groups \cup DOMAIN Batch(t).sets
    BY <1>1, <1>2, RequestFacts DEF IInv, ThreadOK, WriteOK, BatchOK, InGroups, InSets, Batch
  <2>2. QED
    BY <1>1, <1>2, <2>1, BatchDataFacts DEF Payload
<1>3. CASE req[t].op # "batch"
  BY <1>1, <1>3, RequestFacts, ReferenceConstantsAssumption DEF Payload, DataOf
<1>4. QED
  BY <1>2, <1>3

LEMMA KeptIsHere ==
  ASSUME NEW t \in Threads, Batch(t) \in Batches,
         NEW i \in DOMAIN Batch(t).groups \cup DOMAIN Batch(t).sets, Kept(t, i)
  PROVE  Here(i)
BY BatchDataFacts, DataFacts DEF Kept, Here

(* The version sets of a batch refer to what is stored once its groups are. *)
LEMMA BatchEntry ==
  ASSUME IInv, NEW t \in Threads, req[t].op = "batch", InSets(t),
         NEW s \in DOMAIN Batch(t).sets
  PROVE  Entry(s, BatchData(t, s))
<1>1. Batch(t) \in Batches
  BY RequestFacts DEF IInv, ThreadOK, EndOK, InSets, Batch
<1>2. \A i \in External(Batch(t)) : Here(i)
  BY DEF IInv, ThreadOK, BatchOK
<1>3. \A g \in DOMAIN Batch(t).groups : Here(g)
  BY <1>1, KeptIsHere DEF IInv, ThreadOK, BatchOK
<1>4. BatchData(t, s) \in DataOf(s) /\ s \in Sets /\ BatchData(t, s) = Batch(t).sets[s]
  BY <1>1, BatchDataFacts, BatchFacts, ReferenceConstantsAssumption DEF BatchData
<1>5. QED
  BY <1>1, <1>2, <1>3, <1>4, BatchFacts DEF Entry

LEMMA LeftBehindTyped ==
  ASSUME IInv, NEW t \in Threads, pc[t] \notin {"idle", "done"}, NEW i,
         NEW x \in LeftBehind(t, i)
  PROVE  /\ x[1] \in Items
         /\ IF x[2] = Absent THEN x[1] \in Sets /\ Here(x[1]) ELSE Entry(x[1], x[2])
<1>1. req[t].op = "batch" /\ pc[t] # "validate"
  BY DEF LeftBehind
<1>2. PICK j \in todo[t] \ {i} :
        x = <<j, IF pc[t] = "maps" THEN Absent ELSE BatchData(t, j)>>
  BY <1>1 DEF LeftBehind
<1>3. InGroups(t) \/ InSets(t) \/ InMaps(t)
  BY <1>1 DEF IInv, ThreadOK, DeleteOK, FindOK, ReferencesTypeOK, Labels,
              InGroups, InSets, InMaps
<1>4. Batch(t) \in Batches
  BY <1>1, RequestFacts DEF IInv, ThreadOK, EndOK, Batch
<1>5. CASE InGroups(t)
  <2>1. j \in DOMAIN Batch(t).groups /\ x = <<j, BatchData(t, j)>>
    BY <1>1, <1>2, <1>5 DEF IInv, ThreadOK, BatchOK, InGroups
  <2>2. BatchData(t, j) \in DataOf(j) /\ j \in Groups /\ j \notin Sets
    BY <1>4, <2>1, BatchDataFacts, BatchFacts, ReferenceConstantsAssumption
  <2>3. QED
    BY <2>1, <2>2, DataFacts DEF Entry, Items
<1>6. CASE InSets(t)
  <2>1. j \in DOMAIN Batch(t).sets /\ x = <<j, BatchData(t, j)>>
    BY <1>1, <1>2, <1>6 DEF IInv, ThreadOK, BatchOK, InSets
  <2>2. BatchData(t, j) \in DataOf(j) /\ j \in Items
    BY <1>4, <2>1, BatchDataFacts
  <2>3. Entry(j, BatchData(t, j))
    BY <1>1, <1>6, <2>1, BatchEntry
  <2>4. QED
    BY <2>1, <2>2, <2>3, DataFacts
<1>7. CASE InMaps(t)
  BY <1>2, <1>7 DEF IInv, ThreadOK, MapOK, InMaps, Items
<1>8. QED
  BY <1>3, <1>5, <1>6, <1>7

LEMMA PayloadEntry ==
  ASSUME IInv, NEW t \in Threads, pc[t] \in {"open", "fill"}
  PROVE  Entry(current[t], Payload(t))
<1>1. /\ req[t] \in Requests
      /\ req[t].op \in {"createGroup", "createSet", "batch"}
      /\ current[t] \in Items
      /\ req[t].op # "batch" => current[t] = req[t].item
      /\ req[t].op = "createSet" => \A g \in req[t].data : Here(g)
  BY DEF IInv, ThreadOK, WriteOK, EndOK
<1>2. Payload(t) \in DataOf(current[t])
  BY PayloadTyped
<1>3. CASE req[t].op = "batch" /\ current[t] \in Sets
  <2>1. InSets(t) /\ current[t] \in DOMAIN Batch(t).sets
    BY <1>3, ReferenceConstantsAssumption
       DEF IInv, ThreadOK, WriteOK, BatchOK, InGroups, InSets
  <2>2. QED
    BY <1>3, <2>1, BatchEntry DEF Payload
<1>4. CASE current[t] \notin Sets
  BY <1>2, <1>4 DEF Entry
<1>5. CASE req[t].op # "batch" /\ current[t] \in Sets
  BY <1>1, <1>2, <1>5, RequestFacts, ReferenceConstantsAssumption DEF Entry, Payload
<1>6. QED
  BY <1>3, <1>4, <1>5

LEMMA RequestItems ==
  ASSUME NEW r \in Requests
  PROVE  /\ r.op \in {"createSet", "map", "batch"} => ToValidate(r) \subseteq Items
         /\ r.op \in {"createGroup", "createSet", "deleteVersion", "deleteSet", "map"} =>
              r.item \in Items
BY RequestFacts, BatchFacts, ReferenceConstantsAssumption DEF ToValidate, Items

(* How each request begins.                                                *)
LEMMA BeginFacts ==
  ASSUME NEW t \in Threads, NEW r \in Requests, Begin(t, r)
  PROVE  \/ r.op = "createGroup" /\ Goto(t, "open", {r.item})
         \/ r.op \in {"createSet", "map", "batch"} /\ Goto(t, "validate", ToValidate(r))
         \/ r.op \in {"deleteVersion", "deleteName"} /\ Goto(t, "listSets", {})
         \/ r.op = "deleteSet" /\ Goto(t, "readOwn", {r.item})
         \/ r.op = "find" /\ Goto(t, "lookUp", {})
<1>1. r.op \in {"createGroup", "createSet", "deleteVersion", "deleteName",
               "deleteSet", "map", "batch", "find"}
  BY RequestFacts, ReferenceConstantsAssumption
<1>2. CASE r.op = "createGroup"
  BY <1>2 DEF Begin
<1>3. CASE r.op \in {"createSet", "map", "batch"}
  BY <1>3 DEF Begin
<1>4. CASE r.op \in {"deleteVersion", "deleteName"}
  BY <1>4 DEF Begin
<1>5. CASE r.op = "deleteSet"
  BY <1>5 DEF Begin
<1>6. CASE r.op = "find"
  BY <1>6 DEF Begin
<1>7. QED
  BY <1>1, <1>2, <1>3, <1>4, <1>5, <1>6

LEMMA ValidatedFacts ==
  ASSUME IInv, NEW t \in Threads, Validated(t)
  PROVE  \/ req[t].op = "createSet" /\ Goto(t, "open", {req[t].item})
         \/ req[t].op = "map" /\ Goto(t, "maps", {req[t].item})
         \/ req[t].op = "batch" /\ Goto(t, "groups", DOMAIN Batch(t).groups)
<1>1. req[t].op \in {"createSet", "map", "batch"}
  BY DEF Validated, IInv, ThreadOK, ValidateOK
<1>2. QED
  BY <1>1 DEF Validated

LEMMA TypeStep == IInv /\ [Next]_vars => ReferencesTypeOK'
<1> SUFFICES ASSUME IInv, [Next]_vars PROVE ReferencesTypeOK'
  OBVIOUS
<1>0. ReferencesTypeOK
  BY DEF IInv
<1>1. ASSUME NEW t \in Threads, NEW r \in Requests, Invoke(t, r) PROVE ReferencesTypeOK'
  <2>1. /\ r.op = "createGroup" => r.item \in Items
        /\ r.op = "deleteSet" => r.item \in Items
        /\ r.op \in {"createSet", "map", "batch"} => ToValidate(r) \subseteq Items
        /\ r.op \in {"createGroup", "createSet"} => r.item \in Items
    BY RequestItems
  <2>3. pc' \in [Threads -> Labels] /\ todo' \in [Threads -> SUBSET Items]
    <3>1. Begin(t, r)
      BY <1>1 DEF Invoke
    <3>2. CASE r.op = "createGroup" /\ Goto(t, "open", {r.item})
      BY <1>0, <2>1, <3>2 DEF Goto, ReferencesTypeOK, Labels
    <3>3. CASE /\ r.op \in {"createSet", "map", "batch"}
               /\ Goto(t, "validate", ToValidate(r))
      BY <1>0, <2>1, <3>3 DEF Goto, ReferencesTypeOK, Labels
    <3>4. CASE Goto(t, "listSets", {}) \/ Goto(t, "lookUp", {})
      BY <1>0, <3>4 DEF Goto, ReferencesTypeOK, Labels
    <3>5. CASE r.op = "deleteSet" /\ Goto(t, "readOwn", {r.item})
      BY <1>0, <2>1, <3>5 DEF Goto, ReferencesTypeOK, Labels
    <3>6. QED
      BY <3>1, <3>2, <3>3, <3>4, <3>5, BeginFacts
  <2>4. since' \in [Threads -> SUBSET Sets]
    BY <1>0, <1>1 DEF Invoke, ReferencesTypeOK, WholeSets
  <2>5. QED
    BY <1>0, <1>1, <2>1, <2>3, <2>4 DEF Invoke, ReferencesTypeOK
<1>2. ASSUME NEW t \in Threads, Respond(t) PROVE ReferencesTypeOK'
  BY <1>0, <1>2 DEF Respond, Goto, ReferencesTypeOK, Labels, Outcomes
<1>3. ASSUME NEW t \in Threads, Validated(t) PROVE ReferencesTypeOK'
  <2>1. /\ req[t] \in Requests
        /\ req[t].op \in {"createSet", "map", "batch"}
    BY <1>3 DEF Validated, IInv, ThreadOK, ValidateOK, EndOK
  <2>2. /\ req[t].op \in {"createSet", "map"} => req[t].item \in Items
        /\ req[t].op = "batch" => DOMAIN Batch(t).groups \subseteq Items
    BY <2>1, RequestItems, RequestFacts, BatchFacts DEF Items, Batch
  <2>3. pc' \in [Threads -> Labels] /\ todo' \in [Threads -> SUBSET Items]
    <3>1. CASE req[t].op = "createSet" /\ Goto(t, "open", {req[t].item})
      BY <1>0, <2>2, <3>1 DEF Goto, ReferencesTypeOK, Labels
    <3>2. CASE req[t].op = "map" /\ Goto(t, "maps", {req[t].item})
      BY <1>0, <2>2, <3>2 DEF Goto, ReferencesTypeOK, Labels
    <3>3. CASE req[t].op = "batch" /\ Goto(t, "groups", DOMAIN Batch(t).groups)
      BY <1>0, <2>2, <3>3 DEF Goto, ReferencesTypeOK, Labels
    <3>4. QED
      BY <1>3, <3>1, <3>2, <3>3, ValidatedFacts
  <2>4. QED
    BY <1>0, <1>3, <2>3 DEF Validated, ReferencesTypeOK
<1>4. ASSUME NEW t \in Threads,
             ListSets(t) \/ Unreferenced(t) \/ ListGroups(t) \/ ReadLatest(t) \/ Unlinked(t)
      PROVE  ReferencesTypeOK'
  <2>1. CASE ListSets(t)
    BY <1>0, <2>1 DEF ListSets, Goto, ReferencesTypeOK, Labels, Items
  <2>2. CASE Unreferenced(t)
    <3>1. req[t].op = "deleteVersion" => req[t].item \in Items
      BY <2>2, RequestItems DEF Unreferenced, IInv, ThreadOK, EndOK
    <3>2. QED
      BY <1>0, <2>2, <3>1 DEF Unreferenced, Goto, ReferencesTypeOK, Labels
  <2>3. CASE ListGroups(t)
    BY <1>0, <2>3 DEF ListGroups, VersionsOf, Goto, Finish, ReferencesTypeOK, Labels, Outcomes, Items
  <2>4. CASE ReadLatest(t)
    BY <1>0, <2>4 DEF ReadLatest, Goto, Finish, ReferencesTypeOK, Labels, Outcomes
  <2>5. CASE Unlinked(t)
    BY <1>0, <2>5 DEF Unlinked, Finish, ReferencesTypeOK, Labels, Outcomes
  <2>6. QED
    BY <1>4, <2>1, <2>2, <2>3, <2>4, <2>5
<1>5. ASSUME NEW t \in Threads, NEW i, Fail(t, i, "conflict") \/ Fail(t, i, "error"),
             pc[t] \notin {"idle", "done"}
      PROVE  /\ pc' \in [Threads -> Labels]
             /\ outcome' \in [Threads -> Outcomes]
             /\ late' \subseteq Items \X ({Absent} \cup Data)
  <2>1. pc' \in [Threads -> Labels] /\ outcome' \in [Threads -> Outcomes]
    BY <1>0, <1>5 DEF Fail, Finish, ReferencesTypeOK, Labels, Outcomes
  <2>2. ASSUME NEW x \in LeftBehind(t, i) PROVE x \in Items \X ({Absent} \cup Data)
    <3>1. x[1] \in Items /\ (x[2] # Absent => x[2] \in Data)
      BY <1>5, LeftBehindTyped, DataFacts DEF Entry
    <3>2. PICK j \in todo[t] \ {i} :
            x = <<j, IF pc[t] = "maps" THEN Absent ELSE BatchData(t, j)>>
      BY DEF LeftBehind
    <3>3. QED
      BY <3>1, <3>2
  <2>3. QED
    BY <1>0, <1>5, <2>1, <2>2 DEF Fail, ReferencesTypeOK
<1>6. ASSUME NEW t \in Threads, Refuse(t) \/ IOFailure(t) PROVE ReferencesTypeOK'
  BY <1>0, <1>5, <1>6 DEF Refuse, IOFailure, ReferencesTypeOK
<1>7. ASSUME NEW t \in Threads, CreateNewFile(t) PROVE ReferencesTypeOK'
  BY <1>0, <1>7 DEF CreateNewFile, Goto, ReferencesTypeOK, Labels
<1>8. ASSUME NEW t \in Threads, FillFile(t) PROVE ReferencesTypeOK'
  <2>1. Payload(t) \in Data
    BY <1>8, PayloadTyped, DataFacts DEF FillFile
  <2>2. files' \in [Items -> Threads \cup {Absent} \cup Data]
    BY <1>0, <1>8, <2>1 DEF FillFile, ReferencesTypeOK
  <2>3. CASE req[t].op = "batch"
    BY <1>0, <1>8, <2>2, <2>3 DEF FillFile, Goto, ReferencesTypeOK, Labels
  <2>4. CASE req[t].op # "batch"
    BY <1>0, <1>8, <2>2, <2>4 DEF FillFile, Finish, ReferencesTypeOK, Labels, Outcomes
  <2>5. QED
    BY <2>3, <2>4
<1>9. ASSUME NEW t \in Threads, NextPhase(t) PROVE ReferencesTypeOK'
  <2>1. req[t].op = "batch" /\ Batch(t) \in Batches
    BY <1>9, RequestFacts DEF NextPhase, IInv, ThreadOK, BatchOK, EndOK, Batch
  <2>2. DOMAIN Batch(t).sets \subseteq Items /\ Batch(t).maps \subseteq Items
    BY <2>1, BatchFacts DEF Items
  <2>3. pc' \in [Threads -> Labels] /\ todo' \in [Threads -> SUBSET Items]
    <3>1. Goto(t, "sets", DOMAIN Batch(t).sets) \/ Goto(t, "maps", Batch(t).maps)
      BY <1>9 DEF NextPhase
    <3>2. QED
      BY <1>0, <2>2, <3>1 DEF Goto, ReferencesTypeOK, Labels
  <2>4. QED
    BY <1>0, <1>9, <2>3 DEF NextPhase, ReferencesTypeOK
<1>10. ASSUME NEW t \in Threads, AllMapped(t) \/ Found(t) PROVE ReferencesTypeOK'
  BY <1>0, <1>10 DEF AllMapped, Found, Finish, ReferencesTypeOK, Labels, Outcomes
<1>11. ASSUME NEW t \in Threads, LookUp(t) PROVE ReferencesTypeOK'
  <2>1. \A s \in mapped : \A d \in Answers(s) : d \subseteq Items
    <3>1. SUFFICES ASSUME NEW s \in mapped, NEW d \in Answers(s) PROVE d \subseteq Items
      OBVIOUS
    <3>2. s \in Sets /\ d \in Data /\ ((Whole(s) /\ d = files[s]) \/ <<s, d>> \in removed)
      BY <1>0 DEF Answers, ReferencesTypeOK
    <3>3. Entry(s, d)
      BY <3>2, DataFacts DEF IInv, GlobalOK, Items
    <3>4. QED
      BY <3>2, <3>3, ReferenceConstantsAssumption DEF Entry, DataOf, Items
  <2>2. QED
    BY <1>0, <1>11, <2>1 DEF LookUp, Goto, Finish, ReferencesTypeOK, Labels, Outcomes
<1>12. ASSUME NEW t \in Threads, NEW i \in Items, Visit(t, i) PROVE ReferencesTypeOK'
  <2>1. CASE ReferenceExists(t, i) \/ ReadSet(t, i) \/ SkipElement(t, i)
             \/ CreateElement(t, i) \/ FindGroup(t, i)
    BY <1>0, <2>1 DEF ReferenceExists, ReadSet, SkipElement, CreateElement, FindGroup,
                      Goto, ReferencesTypeOK, Labels
  <2>2. CASE ReferenceMissing(t, i) \/ RefuseDelete(t, i) \/ GroupMissing(t, i)
             \/ GroupUnfinished(t, i)
    BY <1>0, <2>2 DEF ReferenceMissing, RefuseDelete, GroupMissing, GroupUnfinished,
                      Finish, ReferencesTypeOK, Labels, Outcomes
  <2>3. CASE ReadOwn(t, i)
    <3>1. \/ Goto(t, "unlink", {i}) /\ UNCHANGED outcome
          \/ (Finish(t, "absent") \/ Finish(t, "error")) /\ UNCHANGED todo
      <4>1. Whole(i) \/ files[i] = Absent \/ files[i] \in Threads
        BY DEF Whole
      <4>2. Absent \notin Threads
        BY DataFacts
      <4>3. QED
        BY <2>3, <4>1, <4>2 DEF ReadOwn, Whole
    <3>2. QED
      BY <1>0, <2>3, <3>1 DEF ReadOwn, Goto, Finish, ReferencesTypeOK, Labels, Outcomes
  <2>4. CASE Unlink(t, i)
    <3>1. /\ files' \in [Items -> Threads \cup {Absent} \cup Data]
          /\ removed' \subseteq Items \X ({Absent} \cup Data)
          /\ since' \in [Threads -> SUBSET Sets]
      BY <1>0, <2>4 DEF Unlink, Whole, ReferencesTypeOK
    <3>2. /\ pc' \in [Threads -> Labels]
          /\ todo' \in [Threads -> SUBSET Items]
          /\ outcome' \in [Threads -> Outcomes]
      BY <1>0, <2>4 DEF Unlink, Goto, Finish, ReferencesTypeOK, Labels, Outcomes
    <3>3. QED
      BY <1>0, <2>4, <3>1, <3>2 DEF Unlink, ReferencesTypeOK
  <2>5. CASE RefuseElement(t, i)
    BY <1>0, <1>5, <2>5 DEF RefuseElement, ReferencesTypeOK
  <2>6. CASE PutMapping(t, i)
    <3>1. i \in Sets
      BY <2>6 DEF PutMapping, IInv, ThreadOK, MapOK
    <3>2. QED
      BY <1>0, <2>6, <3>1 DEF PutMapping, Goto, ReferencesTypeOK, Labels
  <2>7. QED
    BY <1>12, <2>1, <2>2, <2>3, <2>4, <2>5, <2>6 DEF Visit
<1>13. ASSUME NEW x \in late, LateTask(x) PROVE ReferencesTypeOK'
  <2>1. x[2] = Absent => x[1] \in Sets
    BY DEF IInv, GlobalOK
  <2>2. QED
    BY <1>0, <1>13, <2>1 DEF LateTask, ReferencesTypeOK
<1>14. CASE Restart
  BY <1>0, <1>14 DEF Restart, ReferencesTypeOK, Labels, Outcomes
<1>15. CASE UNCHANGED vars
  BY <1>0, <1>15 DEF vars, ReferencesTypeOK
<1>16. QED
  BY <1>1, <1>2, <1>3, <1>4, <1>6, <1>7, <1>8, <1>9, <1>10, <1>11, <1>12, <1>13, <1>14, <1>15
     DEF Next, Step
(***************************************************************************)
(* What a step keeps                                                       *)
(***************************************************************************)

(* The steps that touch files.                                             *)
LEMMA FileSteps ==
  ASSUME [Next]_vars
  PROVE  \/ UNCHANGED <<files, removed>>
         \/ \E t \in Threads, i \in Items : Unlink(t, i)
         \/ \E t \in Threads : CreateNewFile(t)
         \/ \E t \in Threads : FillFile(t)
         \/ \E x \in late : LateTask(x)
<1>1. ASSUME NEW t \in Threads, Step(t), ~CreateNewFile(t), ~FillFile(t),
             \A i \in Items : ~Visit(t, i)
      PROVE  UNCHANGED <<files, removed>>
  BY <1>1 DEF Step, Validated, ListSets, Unreferenced, ListGroups, ReadLatest, Unlinked, Refuse,
              NextPhase, AllMapped, LookUp, Found, IOFailure, Respond
<1>2. ASSUME NEW t \in Threads, NEW i \in Items, Visit(t, i), ~Unlink(t, i)
      PROVE  UNCHANGED <<files, removed>>
  BY <1>2 DEF Visit, ReferenceExists, ReferenceMissing, ReadSet, RefuseDelete, ReadOwn,
              SkipElement, CreateElement, RefuseElement, PutMapping, FindGroup, GroupMissing,
              GroupUnfinished
<1>3. ASSUME NEW t \in Threads, NEW r \in Requests, Invoke(t, r)
      PROVE  UNCHANGED <<files, removed>>
  BY <1>3 DEF Invoke
<1>4. Restart => UNCHANGED <<files, removed>>
  BY DEF Restart
<1>5. UNCHANGED vars => UNCHANGED <<files, removed>>
  BY DEF vars
<1>6. QED
  BY <1>1, <1>2, <1>3, <1>4, <1>5 DEF Next

LEMMA MappedGrows ==
  ASSUME [Next]_vars
  PROVE  mapped \subseteq mapped'
<1>1. ASSUME NEW t \in Threads, Step(t), \A i \in Items : ~Visit(t, i)
      PROVE  mapped' = mapped
  BY <1>1 DEF Step, Validated, ListSets, Unreferenced, ListGroups, ReadLatest, Unlinked, Refuse,
              NextPhase, AllMapped, LookUp, Found, IOFailure, Respond, CreateNewFile, FillFile
<1>2. ASSUME NEW t \in Threads, NEW i \in Items, Visit(t, i)
      PROVE  mapped \subseteq mapped'
  BY <1>2 DEF Visit, ReferenceExists, ReferenceMissing, ReadSet, RefuseDelete, ReadOwn, Unlink,
              SkipElement, CreateElement, RefuseElement, PutMapping, FindGroup, GroupMissing,
              GroupUnfinished
<1>3. ASSUME NEW t \in Threads, NEW r \in Requests, Invoke(t, r)
      PROVE  mapped' = mapped
  BY <1>3 DEF Invoke
<1>4. ASSUME NEW x \in late, LateTask(x) PROVE mapped \subseteq mapped'
  BY <1>4 DEF LateTask
<1>5. Restart => mapped' = mapped
  BY DEF Restart
<1>6. UNCHANGED vars => mapped' = mapped
  BY DEF vars
<1>7. QED
  BY <1>1, <1>2, <1>3, <1>4, <1>5, <1>6 DEF Next

LEMMA FilesEvolve ==
  ASSUME IInv, [Next]_vars
  PROVE  /\ Retracted \subseteq Retracted'
         /\ \A i \in Items : files[i] # Absent => files'[i] # Absent \/ i \in Retracted'
         /\ \A i \in Items : Whole(i) => files'[i] = files[i] \/ i \in Retracted'
<1>0. ReferencesTypeOK
  BY DEF IInv
<1>1. CASE UNCHANGED <<files, removed>>
  BY <1>1 DEF Retracted
<1>2. ASSUME NEW t \in Threads, NEW j \in Items, Unlink(t, j)
      PROVE  /\ Retracted \subseteq Retracted'
             /\ \A i \in Items : files[i] # Absent => files'[i] # Absent \/ i \in Retracted'
             /\ \A i \in Items : Whole(i) => files'[i] = files[i] \/ i \in Retracted'
  <2>1. CASE files[j] = Absent
    BY <1>2, <2>1 DEF Unlink, Retracted
  <2>2. CASE files[j] # Absent
    <3> DEFINE y == <<j, IF Whole(j) THEN files[j] ELSE Absent>>
    <3>1. removed' = removed \cup {y} /\ files' = [files EXCEPT ![j] = Absent]
      BY <1>2, <2>2 DEF Unlink
    <3>2. y \in removed' /\ y[1] = j
      BY <3>1
    <3>3. j \in Retracted' /\ Retracted \subseteq Retracted'
      BY <3>1, <3>2 DEF Retracted
    <3>4. QED
      BY <1>0, <3>1, <3>3 DEF ReferencesTypeOK
  <2>3. QED
    BY <2>1, <2>2
<1>3. ASSUME NEW t \in Threads, CreateNewFile(t)
      PROVE  /\ Retracted \subseteq Retracted'
             /\ \A i \in Items : files[i] # Absent => files'[i] # Absent \/ i \in Retracted'
             /\ \A i \in Items : Whole(i) => files'[i] = files[i] \/ i \in Retracted'
  BY <1>0, <1>3 DEF CreateNewFile, Retracted, Whole, ReferencesTypeOK
<1>4. ASSUME NEW t \in Threads, FillFile(t)
      PROVE  /\ Retracted \subseteq Retracted'
             /\ \A i \in Items : files[i] # Absent => files'[i] # Absent \/ i \in Retracted'
             /\ \A i \in Items : Whole(i) => files'[i] = files[i] \/ i \in Retracted'
  <2>1. Payload(t) # Absent
    BY <1>4, PayloadTyped, DataFacts DEF FillFile
  <2>2. QED
    BY <1>0, <1>4, <2>1 DEF FillFile, Retracted, Whole, ReferencesTypeOK
<1>5. ASSUME NEW x \in late, LateTask(x)
      PROVE  /\ Retracted \subseteq Retracted'
             /\ \A i \in Items : files[i] # Absent => files'[i] # Absent \/ i \in Retracted'
             /\ \A i \in Items : Whole(i) => files'[i] = files[i] \/ i \in Retracted'
  BY <1>0, <1>5 DEF LateTask, Retracted, Whole, ReferencesTypeOK
<1>6. QED
  BY <1>1, <1>2, <1>3, <1>4, <1>5, FileSteps

LEMMA HereStays ==
  ASSUME IInv, [Next]_vars
  PROVE  \A i \in Items : Here(i) => Here(i)'
BY FilesEvolve DEF Here

LEMMA EntryStays ==
  ASSUME IInv, [Next]_vars
  PROVE  \A i, d : Entry(i, d) => d \in DataOf(i) /\ (i \in Sets => \A g \in d : Here(g)')
<1>1. SUFFICES ASSUME NEW i, NEW d, Entry(i, d), i \in Sets, NEW g \in d
               PROVE  Here(g)'
  BY DEF Entry
<1>2. g \in Items /\ Here(g)
  BY <1>1, ReferenceConstantsAssumption DEF Entry, DataOf, Items
<1>3. QED
  BY <1>2, HereStays

LEMMA SinceEvolves ==
  ASSUME IInv, [Next]_vars
  PROVE  \A u \in Threads : \A s \in since'[u] : s \in Sets /\ Whole(s) /\ files'[s] = files[s]
<1>0. ReferencesTypeOK /\ \A u \in Threads : \A s \in since[u] : s \in Sets /\ Whole(s)
  BY DEF IInv, GlobalOK, WholeSets
<1>1. ASSUME NEW t \in Threads, NEW r \in Requests, Invoke(t, r), NEW u \in Threads, NEW s \in since'[u]
      PROVE  s \in Sets /\ Whole(s) /\ files'[s] = files[s]
  BY <1>0, <1>1 DEF Invoke, WholeSets, ReferencesTypeOK
<1>2. ASSUME NEW t \in Threads, Respond(t), NEW u \in Threads, NEW s \in since'[u]
      PROVE  s \in Sets /\ Whole(s) /\ files'[s] = files[s]
  BY <1>0, <1>2 DEF Respond, ReferencesTypeOK
<1>3. ASSUME Restart, NEW u \in Threads, NEW s \in since'[u]
      PROVE  s \in Sets /\ Whole(s) /\ files'[s] = files[s]
  BY <1>3 DEF Restart
<1>4. ASSUME NEW t \in Threads, NEW i \in Items, Unlink(t, i), NEW u \in Threads, NEW s \in since'[u]
      PROVE  s \in Sets /\ Whole(s) /\ files'[s] = files[s]
  BY <1>0, <1>4 DEF Unlink, ReferencesTypeOK, Items
<1>5. ASSUME NEW t \in Threads, CreateNewFile(t) \/ FillFile(t), NEW u \in Threads, NEW s \in since'[u]
      PROVE  s \in Sets /\ Whole(s) /\ files'[s] = files[s]
  BY <1>0, <1>5 DEF CreateNewFile, FillFile, Whole, ReferencesTypeOK, Items
<1>6. ASSUME NEW x \in late, LateTask(x), NEW u \in Threads, NEW s \in since'[u]
      PROVE  s \in Sets /\ Whole(s) /\ files'[s] = files[s]
  BY <1>0, <1>6 DEF LateTask, Whole, ReferencesTypeOK, Items
<1>7. ASSUME NEW t \in Threads, Step(t), ~Respond(t), ~CreateNewFile(t), ~FillFile(t),
             \A i \in Items : ~Visit(t, i)
      PROVE  UNCHANGED <<files, since>>
  BY <1>7 DEF Step, Validated, ListSets, Unreferenced, ListGroups, ReadLatest, Unlinked, Refuse,
              NextPhase, AllMapped, LookUp, Found, IOFailure
<1>8. ASSUME NEW t \in Threads, NEW i \in Items, Visit(t, i), ~Unlink(t, i)
      PROVE  UNCHANGED <<files, since>>
  BY <1>8 DEF Visit, ReferenceExists, ReferenceMissing, ReadSet, RefuseDelete, ReadOwn,
              SkipElement, CreateElement, RefuseElement, PutMapping, FindGroup, GroupMissing,
              GroupUnfinished
<1>9. UNCHANGED vars => UNCHANGED <<files, since>>
  BY DEF vars
<1>10. UNCHANGED <<files, since>> =>
         \A u \in Threads : \A s \in since'[u] : s \in Sets /\ Whole(s) /\ files'[s] = files[s]
  BY <1>0
<1>11. QED
  BY <1>1, <1>2, <1>3, <1>4, <1>5, <1>6, <1>7, <1>8, <1>9, <1>10 DEF Next

LEMMA GlobalStep == IInv /\ [Next]_vars => GlobalOK'
<1> SUFFICES ASSUME IInv, [Next]_vars PROVE GlobalOK'
  OBVIOUS
<1>0. ReferencesTypeOK /\ GlobalOK
  BY DEF IInv
<1>1. ASSUME NEW i \in Items, Whole(i)' PROVE Entry(i, files[i])'
  <2>1. Entry(i, files'[i])
    <3>1. CASE UNCHANGED <<files, removed>>
      BY <1>0, <1>1, <3>1 DEF GlobalOK, Whole
    <3>2. ASSUME NEW t \in Threads, NEW j \in Items, Unlink(t, j) PROVE Entry(i, files'[i])
      BY <1>0, <1>1, <3>2 DEF Unlink, GlobalOK, Whole, ReferencesTypeOK
    <3>3. ASSUME NEW t \in Threads, CreateNewFile(t) PROVE Entry(i, files'[i])
      BY <1>0, <1>1, <3>3 DEF CreateNewFile, GlobalOK, Whole, ReferencesTypeOK
    <3>4. ASSUME NEW t \in Threads, FillFile(t) PROVE Entry(i, files'[i])
      <4>1. pc[t] = "fill" /\ current[t] \in Items /\ Entry(current[t], Payload(t))
        BY <3>4, PayloadEntry, PayloadTyped DEF FillFile
      <4>2. files'[i] = files[i] \/ (i = current[t] /\ files'[i] = Payload(t))
        BY <1>0, <3>4 DEF FillFile, ReferencesTypeOK
      <4>3. QED
        BY <1>0, <1>1, <4>1, <4>2 DEF GlobalOK, Whole
    <3>5. ASSUME NEW x \in late, LateTask(x) PROVE Entry(i, files'[i])
      <4>1. files'[i] = files[i] \/ (i = x[1] /\ files'[i] = x[2] /\ x[2] # Absent)
        BY <1>0, <3>5 DEF LateTask, ReferencesTypeOK
      <4>2. QED
        BY <1>0, <1>1, <4>1 DEF GlobalOK, Whole
    <3>6. QED
      BY <3>1, <3>2, <3>3, <3>4, <3>5, FileSteps
  <2>2. QED
    BY <2>1, EntryStays DEF Entry
<1>2. ASSUME NEW x \in removed', x[2] # Absent PROVE Entry(x[1], x[2])'
  <2>1. Entry(x[1], x[2])
    <3>1. CASE x \in removed
      BY <1>0, <1>2, <3>1 DEF GlobalOK
    <3>2. CASE x \notin removed
      <4>1. PICK t \in Threads, j \in Items : Unlink(t, j)
        BY <3>2, FileSteps DEF CreateNewFile, FillFile, LateTask
      <4>2. x = <<j, IF Whole(j) THEN files[j] ELSE Absent>>
        BY <3>2, <4>1 DEF Unlink
      <4>3. QED
        BY <1>0, <1>2, <4>2 DEF GlobalOK
    <3>3. QED
      BY <3>1, <3>2
  <2>2. QED
    BY <2>1, EntryStays DEF Entry
<1>3. ASSUME NEW x \in late'
      PROVE  IF x[2] = Absent THEN x[1] \in Sets /\ Here(x[1])' ELSE Entry(x[1], x[2])'
  <2>1. IF x[2] = Absent THEN x[1] \in Sets /\ Here(x[1]) ELSE Entry(x[1], x[2])
    <3>1. CASE x \in late
      BY <1>0, <3>1 DEF GlobalOK
    <3>2. CASE x \notin late
      <4>1. PICK t \in Threads, i \in Items \cup {Absent} :
              pc[t] \notin {"idle", "done"} /\ x \in LeftBehind(t, i)
        <5>1. ASSUME NEW t \in Threads, Step(t), ~Refuse(t), ~IOFailure(t),
                     \A i \in Items : ~Visit(t, i)
              PROVE  late' = late
          BY <5>1 DEF Step, Validated, ListSets, Unreferenced, ListGroups, ReadLatest, Unlinked,
                      CreateNewFile, FillFile, NextPhase, AllMapped, LookUp, Found, Respond
        <5>2. ASSUME NEW t \in Threads, NEW i \in Items, Visit(t, i), ~RefuseElement(t, i)
              PROVE  late' = late
          BY <5>2 DEF Visit, ReferenceExists, ReferenceMissing, ReadSet, RefuseDelete, ReadOwn,
                      Unlink, SkipElement, CreateElement, PutMapping, FindGroup, GroupMissing,
                      GroupUnfinished
        <5>3. ASSUME NEW t \in Threads, Refuse(t) \/ IOFailure(t)
              PROVE  pc[t] \notin {"idle", "done"} /\ late' = late \cup LeftBehind(t, current[t])
          BY <5>3 DEF Refuse, IOFailure, Fail
        <5>4. ASSUME NEW t \in Threads, NEW i \in Items, RefuseElement(t, i)
              PROVE  pc[t] \notin {"idle", "done"} /\ late' = late \cup LeftBehind(t, i)
          BY <5>4 DEF RefuseElement, Fail
        <5>5. ASSUME NEW t \in Threads, NEW r \in Requests, Invoke(t, r) PROVE late' = late
          BY <5>5 DEF Invoke
        <5>6. ASSUME NEW y \in late, LateTask(y) PROVE late' \subseteq late
          BY <5>6 DEF LateTask
        <5>7. Restart \/ UNCHANGED vars => late' \subseteq late
          BY DEF Restart, vars
        <5>8. QED
          BY <1>0, <3>2, <5>1, <5>2, <5>3, <5>4, <5>5, <5>6, <5>7 DEF Next, ReferencesTypeOK
      <4>2. QED
        BY <4>1, LeftBehindTyped
    <3>3. QED
      BY <3>1, <3>2
  <2>2. CASE x[2] = Absent
    BY <2>1, <2>2, HereStays DEF Items
  <2>3. CASE x[2] # Absent
    BY <2>1, <2>3, EntryStays DEF Entry
  <2>4. QED
    BY <2>2, <2>3
<1>4. ASSUME NEW s \in mapped' PROVE Here(s)'
  <2>1. s \in Sets /\ Here(s)
    <3>1. CASE s \in mapped
      BY <1>0, <3>1 DEF GlobalOK, ReferencesTypeOK
    <3>2. CASE s \notin mapped
      <4>1. \/ \E t \in Threads : PutMapping(t, s)
            \/ \E x \in late : LateTask(x)
        <5>1. ASSUME NEW t \in Threads, Step(t), \A i \in Items : ~Visit(t, i)
              PROVE  mapped' = mapped
          BY <5>1 DEF Step, Validated, ListSets, Unreferenced, ListGroups, ReadLatest, Unlinked,
                      Refuse, NextPhase, AllMapped, LookUp, Found, IOFailure, Respond,
                      CreateNewFile, FillFile
        <5>2. ASSUME NEW t \in Threads, NEW i \in Items, Visit(t, i), ~PutMapping(t, i)
              PROVE  mapped' = mapped
          BY <5>2 DEF Visit, ReferenceExists, ReferenceMissing, ReadSet, RefuseDelete, ReadOwn,
                      Unlink, SkipElement, CreateElement, RefuseElement, FindGroup, GroupMissing,
                      GroupUnfinished
        <5>3. ASSUME NEW t \in Threads, NEW i \in Items, PutMapping(t, i)
              PROVE  mapped' = mapped \cup {i}
          BY <5>3 DEF PutMapping
        <5>4. ASSUME NEW t \in Threads, NEW r \in Requests, Invoke(t, r)
              PROVE  mapped' = mapped
          BY <5>4 DEF Invoke
        <5>5. Restart \/ UNCHANGED vars => mapped' = mapped
          BY DEF Restart, vars
        <5>6. QED
          BY <3>2, <5>1, <5>2, <5>3, <5>4, <5>5 DEF Next
      <4>2. ASSUME NEW t \in Threads, PutMapping(t, s) PROVE s \in Sets /\ Here(s)
        BY <4>2 DEF PutMapping, IInv, ThreadOK, MapOK
      <4>3. ASSUME NEW x \in late, LateTask(x) PROVE s \in Sets /\ Here(s)
        BY <1>0, <3>2, <4>3 DEF LateTask, GlobalOK
      <4>4. QED
        BY <4>1, <4>2, <4>3
    <3>3. QED
      BY <3>1, <3>2
  <2>2. QED
    BY <2>1, HereStays DEF Items
<1>5. ASSUME NEW t \in Threads PROVE since'[t] \subseteq WholeSets'
  BY SinceEvolves DEF WholeSets, Whole
<1>6. QED
  BY <1>1, <1>2, <1>3, <1>4, <1>5 DEF GlobalOK

(* A thread that does not move keeps what it relies on.                    *)
Still(u) ==
  /\ pc'[u] = pc[u]
  /\ req'[u] = req[u]
  /\ todo'[u] = todo[u]
  /\ current'[u] = current[u]
  /\ outcome'[u] = outcome[u]
  /\ since'[u] \subseteq since[u]

LEMMA KeptStays ==
  ASSUME IInv, [Next]_vars, NEW t \in Threads, req'[t] = req[t], Batch(t) \in Batches
  PROVE  \A i \in DOMAIN Batch(t).groups \cup DOMAIN Batch(t).sets : Kept(t, i) => Kept(t, i)'
<1>1. SUFFICES ASSUME NEW i \in DOMAIN Batch(t).groups \cup DOMAIN Batch(t).sets, Kept(t, i)
               PROVE  Kept(t, i)'
  OBVIOUS
<1>2. BatchData(t, i)' = BatchData(t, i)
  BY DEF BatchData, Batch
<1>3. i \in Items /\ BatchData(t, i) \notin Threads \cup {Absent}
  BY BatchDataFacts, DataFacts
<1>4. QED
  BY <1>1, <1>2, <1>3, FilesEvolve DEF Kept, Whole

LEMMA StillOK ==
  ASSUME IInv, [Next]_vars, NEW u \in Threads, Still(u),
         pc[u] = "fill" /\ files[current[u]] = u =>
           files'[current[u]] = u \/ current[u] \in Retracted'
  PROVE  ThreadOK(u)'
<1>0. ThreadOK(u) /\ ReferencesTypeOK /\ GlobalOK
  BY DEF IInv
<1>1. ValidateOK(u)'
  <2>1. pc[u] = "validate" => ToValidate(req[u]) \subseteq Items
    BY <1>0, RequestItems DEF ThreadOK, ValidateOK, EndOK
  <2>2. QED
    BY <1>0, <2>1, HereStays DEF ThreadOK, ValidateOK, Still
<1>2. DeleteOK(u)'
  <2>1. \A s \in since'[u] : s \in since[u] /\ files'[s] = files[s]
    BY SinceEvolves DEF Still
  <2>2. QED
    BY <1>0, <2>1 DEF ThreadOK, DeleteOK, Still
<1>3. WriteOK(u)'
  <2>1. pc[u] \in {"open", "fill"} /\ req[u].op = "createSet" => req[u].data \subseteq Items
    <3>1. pc[u] \in {"open", "fill"} => req[u] \in Requests
      BY <1>0 DEF ThreadOK, EndOK
    <3>2. QED
      BY <3>1, RequestFacts, ReferenceConstantsAssumption DEF Items
  <2>2. Retracted \subseteq Retracted'
    BY FilesEvolve
  <2>3. QED
    BY <1>0, <2>1, <2>2, HereStays DEF ThreadOK, WriteOK, Still
<1>4. BatchOK(u)'
  <2>1. CASE ~(req[u].op = "batch" /\ (InGroups(u) \/ InSets(u) \/ InMaps(u)))
    BY <1>0, <2>1 DEF ThreadOK, BatchOK, Still, InGroups, InSets, InMaps
  <2>2. CASE req[u].op = "batch" /\ (InGroups(u) \/ InSets(u) \/ InMaps(u))
    <3>1. Batch(u) \in Batches
      BY <1>0, <2>2, RequestFacts DEF ThreadOK, EndOK, InGroups, InSets, InMaps, Batch
    <3>2. /\ InGroups(u)' <=> InGroups(u)
          /\ InSets(u)' <=> InSets(u)
          /\ InMaps(u)' <=> InMaps(u)
          /\ Batch(u)' = Batch(u)
          /\ External(Batch(u))' = External(Batch(u))
      BY DEF Still, InGroups, InSets, InMaps, Batch, External
    <3>3. External(Batch(u)) \subseteq Items /\ mapped \subseteq mapped'
      BY <3>1, BatchFacts, MappedGrows
    <3>4. \A i \in DOMAIN Batch(u).groups \cup DOMAIN Batch(u).sets : Kept(u, i) => Kept(u, i)'
      BY <3>1, KeptStays DEF Still
    <3>5. \A i \in External(Batch(u)) : Here(i)'
      BY <1>0, <2>2, <3>3, HereStays DEF ThreadOK, BatchOK
    <3>6. QED
      BY <1>0, <2>2, <3>2, <3>3, <3>4, <3>5 DEF ThreadOK, BatchOK, Still
  <2>3. QED
    BY <2>1, <2>2
<1>5. MapOK(u)'
  BY <1>0, HereStays DEF ThreadOK, MapOK, Still, Items
<1>6. FindOK(u)'
  BY <1>0, HereStays DEF ThreadOK, FindOK, Still, Items
<1>7. EndOK(u)'
  <2>1. Retracted \subseteq Retracted' /\ mapped \subseteq mapped' /\ Batch(u)' = Batch(u)
    BY FilesEvolve, MappedGrows DEF Still, Batch
  <2>2. CASE req[u].op = "batch" /\ outcome[u] = "ok"
    <3>1. Batch(u) \in Batches
      BY <1>0, <2>2, RequestFacts DEF ThreadOK, EndOK, Batch
    <3>2. \A i \in DOMAIN Batch(u).groups \cup DOMAIN Batch(u).sets : Kept(u, i) => Kept(u, i)'
      BY <3>1, KeptStays DEF Still
    <3>3. QED
      BY <1>0, <2>1, <2>2, <3>2 DEF ThreadOK, EndOK, Still
  <2>3. CASE ~(req[u].op = "batch" /\ outcome[u] = "ok")
    BY <1>0, <2>1, <2>3 DEF ThreadOK, EndOK, Still
  <2>4. QED
    BY <2>2, <2>3
<1>8. QED
  BY <1>1, <1>2, <1>3, <1>4, <1>5, <1>6, <1>7 DEF ThreadOK

(* A thread that has ended its request without success.                    *)
LEMMA EndedOK ==
  ASSUME NEW t \in Threads, req[t] \in Requests, req'[t] = req[t], pc'[t] = "done",
         outcome'[t] \in {"absent", "invalid", "conflict", "error"}
  PROVE  ThreadOK(t)'
BY DEF ThreadOK, ValidateOK, DeleteOK, WriteOK, BatchOK, MapOK, FindOK, EndOK,
       InGroups, InSets, InMaps

(* A step that moves one thread leaves the others where they are.          *)
OnlyMoves(t) ==
  \A u \in Threads \ {t} :
    /\ Still(u)
    /\ pc[u] = "fill" /\ files[current[u]] = u =>
         files'[current[u]] = u \/ current[u] \in Retracted'

LEMMA OthersStay ==
  ASSUME IInv, NEW t \in Threads, Step(t) \/ \E r \in Requests : Invoke(t, r)
  PROVE  OnlyMoves(t)
<1>0. ReferencesTypeOK
  BY DEF IInv
<1>1. ASSUME NEW r \in Requests, Invoke(t, r) PROVE OnlyMoves(t)
  <2>1. \E label, items : Goto(t, label, items)
    BY <1>1, BeginFacts DEF Invoke
  <2>2. QED
    BY <1>0, <1>1, <2>1 DEF Invoke, Goto, OnlyMoves, Still, ReferencesTypeOK
<1>2. CASE Respond(t)
  BY <1>0, <1>2 DEF Respond, Goto, OnlyMoves, Still, ReferencesTypeOK
<1>3. CASE Validated(t)
  <2>1. \E label, items : Goto(t, label, items)
    BY <1>3, ValidatedFacts
  <2>2. QED
    BY <1>0, <1>3, <2>1 DEF Validated, Goto, OnlyMoves, Still, ReferencesTypeOK
<1>4. CASE ListSets(t) \/ Unreferenced(t) \/ ListGroups(t) \/ ReadLatest(t) \/ Unlinked(t)
  BY <1>0, <1>4 DEF ListSets, Unreferenced, ListGroups, ReadLatest, Unlinked, Goto, Finish,
                    OnlyMoves, Still, ReferencesTypeOK
<1>5. CASE Refuse(t) \/ IOFailure(t)
  BY <1>0, <1>5 DEF Refuse, IOFailure, Fail, Finish, OnlyMoves, Still, ReferencesTypeOK
<1>6. CASE CreateNewFile(t)
  <2>1. \A u \in Threads : u # Absent
    BY DataFacts
  <2>2. files'= [files EXCEPT ![current[t]] = t] /\ files[current[t]] = Absent
    BY <1>6 DEF CreateNewFile
  <2>3. current[t] \in Items
    BY <1>6 DEF CreateNewFile, IInv, ThreadOK, WriteOK
  <2>4. \A u \in Threads : files[current[u]] = u /\ current[u] \in Items => files'[current[u]] = u
    BY <1>0, <2>1, <2>2, <2>3 DEF ReferencesTypeOK
  <2>5. \A u \in Threads : pc[u] = "fill" => current[u] \in Items
    BY DEF IInv, ThreadOK, WriteOK
  <2>6. QED
    BY <1>0, <1>6, <2>4, <2>5 DEF CreateNewFile, Goto, OnlyMoves, Still, ReferencesTypeOK
<1>7. CASE FillFile(t)
  <2>1. \A u \in Threads : pc[u] = "fill" => current[u] \in Items
    BY DEF IInv, ThreadOK, WriteOK
  <2>2. \A u \in Threads \ {t} : files[current[u]] = u /\ current[u] \in Items => files'[current[u]] = u
    BY <1>0, <1>7 DEF FillFile, ReferencesTypeOK
  <2>3. \A u \in Threads \ {t} : Still(u)
    BY <1>0, <1>7 DEF FillFile, Goto, Finish, Still, ReferencesTypeOK
  <2>4. QED
    BY <2>1, <2>2, <2>3 DEF OnlyMoves
<1>8. CASE NextPhase(t) \/ AllMapped(t) \/ LookUp(t) \/ Found(t)
  <2>1. /\ \A u \in Threads \ {t} : pc'[u] = pc[u] /\ todo'[u] = todo[u] /\ outcome'[u] = outcome[u]
        /\ UNCHANGED <<files, req, current, since>>
    BY <1>0, <1>8 DEF NextPhase, AllMapped, LookUp, Found, Goto, Finish, ReferencesTypeOK
  <2>2. QED
    BY <2>1 DEF OnlyMoves, Still
<1>9. ASSUME NEW i \in Items, Unlink(t, i) PROVE OnlyMoves(t)
  <2>1. [Next]_vars
    BY <1>9 DEF Next, Step, Visit
  <2>2. \A u \in Threads : pc[u] = "fill" => current[u] \in Items
    BY DEF IInv, ThreadOK, WriteOK
  <2>3. \A j \in Items : files'[j] = files[j] \/ (j = i /\ files[i] # Absent /\ files'[i] = Absent)
    BY <1>0, <1>9 DEF Unlink, ReferencesTypeOK
  <2>4. \A j \in Items : files'[j] = files[j] \/ j \in Retracted'
    BY <2>1, <2>3, FilesEvolve
  <2>5. \A u \in Threads \ {t} : Still(u)
    BY <1>0, <1>9 DEF Unlink, Goto, Finish, Still, ReferencesTypeOK
  <2>6. QED
    BY <2>2, <2>4, <2>5 DEF OnlyMoves
<1>10. ASSUME NEW i \in Items, Visit(t, i), ~Unlink(t, i) PROVE OnlyMoves(t)
  <2>1. CASE ReferenceExists(t, i) \/ ReadSet(t, i) \/ SkipElement(t, i) \/ FindGroup(t, i)
             \/ CreateElement(t, i) \/ PutMapping(t, i)
    BY <1>0, <2>1 DEF ReferenceExists, ReadSet, SkipElement, FindGroup, CreateElement, PutMapping,
                      Goto, OnlyMoves, Still, ReferencesTypeOK
  <2>2. CASE ReferenceMissing(t, i) \/ RefuseDelete(t, i) \/ GroupMissing(t, i)
             \/ GroupUnfinished(t, i) \/ RefuseElement(t, i)
    BY <1>0, <2>2 DEF ReferenceMissing, RefuseDelete, GroupMissing, GroupUnfinished, RefuseElement,
                      Fail, Finish, OnlyMoves, Still, ReferencesTypeOK
  <2>3. CASE ReadOwn(t, i)
    <3>1. \/ Goto(t, "unlink", {i}) /\ UNCHANGED outcome
          \/ (Finish(t, "absent") \/ Finish(t, "error")) /\ UNCHANGED todo
      <4>1. Whole(i) \/ files[i] = Absent \/ files[i] \in Threads
        BY DEF Whole
      <4>2. QED
        BY <2>3, <4>1, DataFacts DEF ReadOwn, Whole
    <3>2. QED
      BY <1>0, <2>3, <3>1 DEF ReadOwn, Goto, Finish, OnlyMoves, Still, ReferencesTypeOK
  <2>4. QED
    BY <1>10, <2>1, <2>2, <2>3 DEF Visit
<1>11. QED
  BY <1>1, <1>2, <1>3, <1>4, <1>5, <1>6, <1>7, <1>8, <1>9, <1>10 DEF Step

(***************************************************************************)
(* The thread that moves                                                   *)
(***************************************************************************)

LEMMA InvokeOK ==
  ASSUME IInv, NEW t \in Threads, NEW r \in Requests, Invoke(t, r)
  PROVE  ThreadOK(t)'
<1>0. ReferencesTypeOK
  BY DEF IInv
<1>1. req'[t] = r /\ outcome'[t] = "none"
  BY <1>0 DEF Invoke, IInv, ThreadOK, EndOK, ReferencesTypeOK
<1>2. r.op \in {"createGroup", "createSet"} => current'[t] = r.item /\ r.item \in Items
  BY <1>0, RequestItems DEF Invoke, ReferencesTypeOK
<1>3. CASE r.op = "createGroup" /\ Goto(t, "open", {r.item})
  BY <1>0, <1>1, <1>2, <1>3
     DEF Goto, ThreadOK, ValidateOK, DeleteOK, WriteOK, BatchOK, MapOK, FindOK, EndOK,
         InGroups, InSets, InMaps, ReferencesTypeOK
<1>4. CASE r.op \in {"createSet", "map", "batch"} /\ Goto(t, "validate", ToValidate(r))
  BY <1>0, <1>1, <1>2, <1>4
     DEF Goto, ThreadOK, ValidateOK, DeleteOK, WriteOK, BatchOK, MapOK, FindOK, EndOK,
         InGroups, InSets, InMaps, ReferencesTypeOK
<1>5. CASE r.op \in {"deleteVersion", "deleteName"} /\ Goto(t, "listSets", {})
  BY <1>0, <1>1, <1>5
     DEF Goto, ThreadOK, ValidateOK, DeleteOK, WriteOK, BatchOK, MapOK, FindOK, EndOK,
         InGroups, InSets, InMaps, ReferencesTypeOK
<1>6. CASE r.op = "deleteSet" /\ Goto(t, "readOwn", {r.item})
  BY <1>0, <1>1, <1>6
     DEF Goto, ThreadOK, ValidateOK, DeleteOK, WriteOK, BatchOK, MapOK, FindOK, EndOK,
         InGroups, InSets, InMaps, ReferencesTypeOK
<1>7. CASE r.op = "find" /\ Goto(t, "lookUp", {})
  BY <1>0, <1>1, <1>7
     DEF Goto, ThreadOK, ValidateOK, DeleteOK, WriteOK, BatchOK, MapOK, FindOK, EndOK,
         InGroups, InSets, InMaps, ReferencesTypeOK
<1>8. QED
  BY <1>3, <1>4, <1>5, <1>6, <1>7, BeginFacts DEF Invoke

(* Most steps leave the files, the mapping and the history as they are, and *)
(* with them all that is said of them.                                     *)
LEMMA SameFiles ==
  ASSUME NEW t \in Threads, UNCHANGED <<files, mapped, removed, since, req>>
  PROVE  /\ \A i : Here(i)' <=> Here(i)
         /\ \A i : Kept(t, i)' <=> Kept(t, i)
         /\ Retracted' = Retracted
         /\ \A i : Whole(i)' <=> Whole(i)
         /\ Batch(t)' = Batch(t)
         /\ req'[t] = req[t]
         /\ since'[t] = since[t]
BY DEF Here, Kept, Retracted, Whole, Batch, BatchData

LEMMA RequestKnown ==
  ASSUME IInv, NEW t \in Threads, pc[t] # "idle"
  PROVE  /\ req[t] \in Requests
         /\ req[t].op = "batch" => Batch(t) \in Batches
         /\ req[t].op \in {"createSet", "map", "deleteSet"} => req[t].item \in Sets
         /\ pc[t] # "done" => outcome[t] = "none"
BY RequestFacts DEF IInv, ThreadOK, EndOK, Batch

LEMMA ValidateSteps ==
  ASSUME IInv, NEW t \in Threads,
         \/ Validated(t)
         \/ \E i \in Items : ReferenceExists(t, i) \/ ReferenceMissing(t, i)
  PROVE  ThreadOK(t)'
<1>0. ReferencesTypeOK /\ ThreadOK(t)
  BY DEF IInv
<1>1. /\ pc[t] = "validate" /\ UNCHANGED <<files, mapped, removed, since, req, current>>
      /\ outcome[t] = "none" /\ req[t] \in Requests
  BY RequestKnown DEF Validated, ReferenceExists, ReferenceMissing
<1>2. ASSUME NEW i \in Items, ReferenceMissing(t, i) PROVE ThreadOK(t)'
  BY <1>0, <1>1, <1>2, EndedOK DEF ReferenceMissing, Finish, ReferencesTypeOK
<1>3. ASSUME NEW i \in Items, ReferenceExists(t, i) PROVE ThreadOK(t)'
  <2>1. Here(i) /\ pc'[t] = "validate" /\ todo'[t] = todo[t] \ {i} /\ outcome'[t] = "none"
    BY <1>0, <1>1, <1>3 DEF ReferenceExists, Goto, Here, ReferencesTypeOK
  <2>2. ValidateOK(t)'
    BY <1>0, <1>1, <2>1, SameFiles DEF ThreadOK, ValidateOK
  <2>3. QED
    BY <1>1, <2>1, <2>2
       DEF ThreadOK, DeleteOK, WriteOK, BatchOK, MapOK, FindOK, EndOK, InGroups, InSets, InMaps
<1>4. CASE Validated(t)
  <2>1. \A i \in ToValidate(req[t]) : Here(i)
    BY <1>0, <1>1, <1>4 DEF Validated, ThreadOK, ValidateOK
  <2>2. CASE req[t].op = "createSet" /\ Goto(t, "open", {req[t].item})
    <3>1. pc'[t] = "open" /\ todo'[t] = {req[t].item} /\ outcome'[t] = "none"
      BY <1>0, <1>1, <1>4, <2>2 DEF Validated, Goto, ReferencesTypeOK
    <3>2. \A g \in req[t].data : Here(g)
      BY <2>1, <2>2 DEF ToValidate
    <3>3. current[t] = req[t].item /\ req[t].item \in Items
      BY <1>0, <1>1, <2>2, RequestItems DEF ThreadOK, ValidateOK
    <3>4. QED
      BY <1>1, <2>2, <3>1, <3>2, <3>3, SameFiles
         DEF ThreadOK, ValidateOK, DeleteOK, WriteOK, BatchOK, MapOK, FindOK, EndOK,
             InGroups, InSets, InMaps
  <2>3. CASE req[t].op = "map" /\ Goto(t, "maps", {req[t].item})
    <3>1. pc'[t] = "maps" /\ todo'[t] = {req[t].item} /\ outcome'[t] = "none"
      BY <1>0, <1>1, <1>4, <2>3 DEF Validated, Goto, ReferencesTypeOK
    <3>2. Here(req[t].item) /\ req[t].item \in Sets
      BY <1>1, <2>1, <2>3, RequestKnown DEF ToValidate
    <3>3. QED
      BY <1>1, <2>3, <3>1, <3>2, SameFiles
         DEF ThreadOK, ValidateOK, DeleteOK, WriteOK, BatchOK, MapOK, FindOK, EndOK,
             InGroups, InSets, InMaps
  <2>4. CASE req[t].op = "batch" /\ Goto(t, "groups", DOMAIN Batch(t).groups)
    <3>1. pc'[t] = "groups" /\ todo'[t] = DOMAIN Batch(t).groups /\ outcome'[t] = "none"
      BY <1>0, <1>1, <1>4, <2>4 DEF Validated, Goto, ReferencesTypeOK
    <3>2. \A i \in External(Batch(t)) : Here(i)
      BY <2>1, <2>4 DEF ToValidate, Batch
    <3>3. \A i : i \in External(Batch(t))' <=> i \in External(Batch(t))
      BY <1>1 DEF External, Batch
    <3>4. BatchOK(t)'
      BY <1>1, <2>4, <3>1, <3>2, <3>3, SameFiles DEF BatchOK, InGroups, InSets, InMaps
    <3>5. QED
      BY <1>1, <2>4, <3>1, <3>4
         DEF ThreadOK, ValidateOK, DeleteOK, WriteOK, MapOK, FindOK, EndOK
  <2>5. QED
    BY <1>4, <2>2, <2>3, <2>4, ValidatedFacts
<1>5. QED
  BY <1>2, <1>3, <1>4

LEMMA DeleteSteps ==
  ASSUME IInv, NEW t \in Threads,
         \/ ListSets(t) \/ Unreferenced(t) \/ ListGroups(t) \/ ReadLatest(t) \/ Unlinked(t)
         \/ \E i \in Items : ReadSet(t, i) \/ RefuseDelete(t, i) \/ ReadOwn(t, i)
  PROVE  ThreadOK(t)'
<1>0. ReferencesTypeOK /\ ThreadOK(t) /\ since[t] \subseteq WholeSets
  BY DEF IInv, GlobalOK
<1>1. /\ pc[t] \in {"listSets", "readSets", "listGroups", "readLatest", "readOwn", "unlink"}
      /\ UNCHANGED <<files, mapped, removed, since, req, current>>
      /\ outcome[t] = "none" /\ req[t] \in Requests
      /\ req[t].op \in {"deleteVersion", "deleteName", "deleteSet"}
  <2>1. /\ pc[t] \in {"listSets", "readSets", "listGroups", "readLatest", "readOwn", "unlink"}
        /\ UNCHANGED <<files, mapped, removed, since, req, current>>
    BY DEF ListSets, Unreferenced, ListGroups, ReadLatest, Unlinked, ReadSet, RefuseDelete, ReadOwn
  <2>2. QED
    BY <1>0, <2>1, RequestKnown DEF ThreadOK, DeleteOK
<1>2. ASSUME pc'[t] = "done", outcome'[t] \in {"absent", "conflict", "error"}
      PROVE  ThreadOK(t)'
  BY <1>1, <1>2, EndedOK
<1>3. ASSUME pc'[t] \in {"listSets", "readSets", "listGroups", "readLatest", "readOwn", "unlink"},
             outcome'[t] = outcome[t], DeleteOK(t)'
      PROVE  ThreadOK(t)'
  BY <1>1, <1>3 DEF ThreadOK, ValidateOK, WriteOK, BatchOK, MapOK, FindOK, EndOK,
                    InGroups, InSets, InMaps
<1>4. CASE ListSets(t)
  <2>1. pc'[t] = "readSets" /\ todo'[t] = {s \in Sets : files[s] # Absent}
    BY <1>0, <1>4 DEF ListSets, Goto, ReferencesTypeOK
  <2>2. \A s \in since[t] : s \in todo'[t]
    BY <1>0, <2>1 DEF WholeSets, Whole
  <2>3. DeleteOK(t)'
    BY <1>0, <1>1, <1>4, <2>1, <2>2 DEF ListSets, ThreadOK, DeleteOK
  <2>4. QED
    BY <1>3, <1>4, <2>1, <2>3 DEF ListSets
<1>5. CASE Unreferenced(t)
  <2>1. CASE req[t].op = "deleteVersion"
    <3>1. pc'[t] = "readOwn" /\ todo[t] = {}
      BY <1>0, <1>5, <2>1 DEF Unreferenced, Goto, ReferencesTypeOK
    <3>2. DeleteOK(t)'
      BY <1>0, <1>1, <1>5, <2>1, <3>1 DEF Unreferenced, ThreadOK, DeleteOK
    <3>3. QED
      BY <1>3, <1>5, <3>1, <3>2 DEF Unreferenced
  <2>2. CASE req[t].op # "deleteVersion"
    <3>1. pc'[t] = "listGroups"
      BY <1>0, <1>5, <2>2 DEF Unreferenced, Goto, ReferencesTypeOK
    <3>2. DeleteOK(t)'
      BY <1>0, <1>1, <1>5, <2>2, <3>1 DEF Unreferenced, ThreadOK, DeleteOK
    <3>3. QED
      BY <1>3, <1>5, <3>1, <3>2 DEF Unreferenced
  <2>3. QED
    BY <2>1, <2>2
<1>6. CASE ListGroups(t)
  <2>1. \/ pc'[t] = "done" /\ outcome'[t] = "absent"
        \/ pc'[t] = "readLatest" /\ outcome'[t] = outcome[t]
    BY <1>0, <1>6 DEF ListGroups, Goto, Finish, ReferencesTypeOK
  <2>2. pc'[t] = "readLatest" => DeleteOK(t)'
    BY <1>0, <1>1, <1>6 DEF ListGroups, ThreadOK, DeleteOK
  <2>3. QED
    BY <1>2, <1>3, <2>1, <2>2
<1>7. CASE ReadLatest(t)
  <2>1. \/ pc'[t] = "done" /\ outcome'[t] = "error"
        \/ pc'[t] = "unlink" /\ outcome'[t] = outcome[t]
    BY <1>0, <1>7 DEF ReadLatest, Goto, Finish, ReferencesTypeOK
  <2>2. pc'[t] = "unlink" => DeleteOK(t)'
    BY <1>0, <1>1, <1>7 DEF ReadLatest, ThreadOK, DeleteOK
  <2>3. QED
    BY <1>2, <1>3, <2>1, <2>2
<1>8. CASE Unlinked(t)
  <2>1. pc'[t] = "done" /\ outcome'[t] = "ok" /\ req'[t] = req[t]
    BY <1>0, <1>1, <1>8 DEF Unlinked, Finish, ReferencesTypeOK
  <2>2. QED
    BY <1>1, <2>1 DEF ThreadOK, ValidateOK, DeleteOK, WriteOK, BatchOK, MapOK, FindOK, EndOK,
                      InGroups, InSets, InMaps
<1>9. ASSUME NEW i \in Items, ReadSet(t, i) PROVE ThreadOK(t)'
  <2>1. pc'[t] = "readSets" /\ todo'[t] = todo[t] \ {i} /\ ~Refers(t, i)
    BY <1>0, <1>9 DEF ReadSet, Goto, ReferencesTypeOK
  <2>2. DeleteOK(t)'
    BY <1>0, <1>1, <1>9, <2>1 DEF ReadSet, Refers, ThreadOK, DeleteOK
  <2>3. QED
    BY <1>3, <1>9, <2>1, <2>2 DEF ReadSet
<1>10. ASSUME NEW i \in Items, RefuseDelete(t, i) PROVE ThreadOK(t)'
  BY <1>0, <1>2, <1>10 DEF RefuseDelete, Finish, ReferencesTypeOK
<1>11. ASSUME NEW i \in Items, ReadOwn(t, i) PROVE ThreadOK(t)'
  <2>0. Whole(i) \/ files[i] = Absent \/ files[i] \in Threads
    BY DEF Whole
  <2>1. \/ pc'[t] = "done" /\ outcome'[t] \in {"absent", "error"}
        \/ pc'[t] = "unlink" /\ outcome'[t] = outcome[t]
    BY <1>0, <1>11, <2>0, DataFacts DEF ReadOwn, Whole, Goto, Finish, ReferencesTypeOK
  <2>2. pc'[t] = "unlink" => DeleteOK(t)'
    BY <1>0, <1>1, <1>11 DEF ReadOwn, ThreadOK, DeleteOK
  <2>3. QED
    BY <1>2, <1>3, <2>1, <2>2
<1>12. QED
  BY <1>4, <1>5, <1>6, <1>7, <1>8, <1>9, <1>10, <1>11

LEMMA UnlinkOK ==
  ASSUME IInv, NEW t \in Threads, NEW i \in Items, Unlink(t, i)
  PROVE  ThreadOK(t)'
<1>0. ReferencesTypeOK /\ ThreadOK(t) /\ [Next]_vars
  BY DEF IInv, Unlink, Next, Step, Visit
<1>1. /\ pc[t] = "unlink" /\ outcome[t] = "none"
      /\ req[t] \in Requests /\ req'[t] = req[t]
      /\ req[t].op \in {"deleteVersion", "deleteName", "deleteSet"}
  BY <1>0, RequestKnown DEF Unlink, ThreadOK, DeleteOK
<1>2. \/ pc'[t] = "done" /\ outcome'[t] = "error"
      \/ pc'[t] = "unlink" /\ outcome'[t] = "none"
  BY <1>0, <1>1 DEF Unlink, Goto, Finish, ReferencesTypeOK
<1>3. since'[t] \subseteq since[t] /\ \A s \in since'[t] : files'[s] = files[s]
  BY <1>0, SinceEvolves DEF Unlink, ReferencesTypeOK
<1>4. CASE pc'[t] = "unlink"
  <2>1. DeleteOK(t)'
    BY <1>0, <1>1, <1>3, <1>4 DEF ThreadOK, DeleteOK
  <2>2. QED
    BY <1>1, <1>2, <1>4, <2>1 DEF ThreadOK, ValidateOK, WriteOK, BatchOK, MapOK, FindOK, EndOK,
                      InGroups, InSets, InMaps
<1>5. QED
  BY <1>1, <1>2, <1>4, EndedOK

LEMMA SearchSteps ==
  ASSUME IInv, NEW t \in Threads,
         \/ LookUp(t) \/ Found(t)
         \/ \E i \in Items : FindGroup(t, i) \/ GroupMissing(t, i) \/ GroupUnfinished(t, i)
  PROVE  ThreadOK(t)'
<1>0. ReferencesTypeOK /\ GlobalOK /\ ThreadOK(t)
  BY DEF IInv
<1>1. /\ pc[t] \in {"lookUp", "find"} /\ req[t].op = "find"
      /\ UNCHANGED <<files, mapped, removed, since, req, current>>
      /\ outcome[t] = "none" /\ req[t] \in Requests
  <2>1. /\ pc[t] \in {"lookUp", "find"}
        /\ UNCHANGED <<files, mapped, removed, since, req, current>>
    BY DEF LookUp, Found, FindGroup, GroupMissing, GroupUnfinished
  <2>2. QED
    BY <1>0, <2>1, RequestKnown DEF ThreadOK, FindOK
<1>2. ASSUME pc'[t] = "find", outcome'[t] = "none", todo'[t] \subseteq Groups,
             \A g \in todo'[t] : Here(g)
      PROVE  ThreadOK(t)'
  BY <1>1, <1>2, SameFiles
     DEF ThreadOK, ValidateOK, DeleteOK, WriteOK, BatchOK, MapOK, FindOK, EndOK,
         InGroups, InSets, InMaps
<1>3. ASSUME pc'[t] = "done", outcome'[t] = "missing" => todo'[t] \subseteq Retracted
      PROVE  ThreadOK(t)'
  BY <1>1, <1>3, SameFiles
     DEF ThreadOK, ValidateOK, DeleteOK, WriteOK, BatchOK, MapOK, FindOK, EndOK,
         InGroups, InSets, InMaps
<1>4. CASE LookUp(t)
  <2>1. CASE Finish(t, "absent") /\ UNCHANGED todo
    BY <1>0, <1>3, <2>1 DEF Finish, ReferencesTypeOK
  <2>2. ASSUME NEW s \in mapped, NEW d \in Answers(s), Goto(t, "find", d), UNCHANGED outcome
        PROVE  ThreadOK(t)'
    <3>1. s \in Sets /\ d \in Data /\ ((Whole(s) /\ d = files[s]) \/ <<s, d>> \in removed)
      BY <1>0 DEF Answers, ReferencesTypeOK
    <3>2. Entry(s, d)
      BY <1>0, <3>1, DataFacts DEF GlobalOK, Items
    <3>3. d \subseteq Groups /\ \A g \in d : Here(g)
      BY <3>1, <3>2, ReferenceConstantsAssumption DEF Entry, DataOf
    <3>4. pc'[t] = "find" /\ todo'[t] = d
      BY <1>0, <2>2 DEF Goto, ReferencesTypeOK
    <3>5. QED
      BY <1>1, <1>2, <2>2, <3>3, <3>4
  <2>3. QED
    BY <1>4, <2>1, <2>2 DEF LookUp
<1>5. CASE Found(t)
  BY <1>0, <1>3, <1>5 DEF Found, Finish, ReferencesTypeOK
<1>6. ASSUME NEW i \in Items, FindGroup(t, i) PROVE ThreadOK(t)'
  <2>1. pc'[t] = "find" /\ todo'[t] = todo[t] \ {i} /\ outcome'[t] = "none" /\ pc[t] = "find"
    BY <1>0, <1>1, <1>6 DEF FindGroup, Goto, ReferencesTypeOK
  <2>2. QED
    BY <1>0, <1>2, <2>1 DEF ThreadOK, FindOK
<1>7. ASSUME NEW i \in Items, GroupMissing(t, i) PROVE ThreadOK(t)'
  <2>1. pc'[t] = "done" /\ todo'[t] = {i} /\ pc[t] = "find" /\ i \in todo[t] /\ files[i] = Absent
    BY <1>0, <1>7 DEF GroupMissing, Finish, ReferencesTypeOK
  <2>2. i \in Retracted
    BY <1>0, <2>1 DEF ThreadOK, FindOK, Here
  <2>3. QED
    BY <1>3, <2>1, <2>2
<1>8. ASSUME NEW i \in Items, GroupUnfinished(t, i) PROVE ThreadOK(t)'
  BY <1>0, <1>3, <1>8 DEF GroupUnfinished, Finish, ReferencesTypeOK
<1>9. QED
  BY <1>4, <1>5, <1>6, <1>7, <1>8

LEMMA FailSteps ==
  ASSUME IInv, NEW t \in Threads,
         \/ Refuse(t) \/ IOFailure(t)
         \/ \E i \in Items : RefuseElement(t, i)
  PROVE  ThreadOK(t)'
<1>0. ReferencesTypeOK
  BY DEF IInv
<1>1. pc[t] \notin {"idle", "done"} /\ req' = req
  BY DEF Refuse, IOFailure, RefuseElement
<1>2. pc'[t] = "done" /\ outcome'[t] \in {"conflict", "error"}
  BY <1>0 DEF Refuse, IOFailure, RefuseElement, Fail, Finish, ReferencesTypeOK
<1>3. QED
  BY <1>1, <1>2, RequestKnown, EndedOK

(* What a thread knows of its batch outlives a step, wherever it stands.   *)
LEMMA BatchStays ==
  ASSUME IInv, [Next]_vars, NEW t \in Threads, req[t].op = "batch", req'[t] = req[t],
         InGroups(t) \/ InSets(t) \/ InMaps(t)
  PROVE  /\ Batch(t) \in Batches
         /\ Batch(t)' = Batch(t)
         /\ \A i \in External(Batch(t)) : Here(i)'
         /\ \A i : i \in External(Batch(t))' <=> i \in External(Batch(t))
         /\ \A i \in DOMAIN Batch(t).groups \cup DOMAIN Batch(t).sets : Kept(t, i) => Kept(t, i)'
         /\ mapped \subseteq mapped'
<1>1. Batch(t) \in Batches
  BY RequestKnown DEF InGroups, InSets, InMaps
<1>2. \A i \in External(Batch(t)) : i \in Items /\ Here(i)
  BY <1>1, BatchFacts DEF IInv, ThreadOK, BatchOK
<1>3. Batch(t)' = Batch(t) /\ \A i : i \in External(Batch(t))' <=> i \in External(Batch(t))
  BY DEF Batch, External
<1>4. QED
  BY <1>1, <1>2, <1>3, HereStays, KeptStays, MappedGrows

LEMMA CreateNewFileOK ==
  ASSUME IInv, NEW t \in Threads, CreateNewFile(t)
  PROVE  ThreadOK(t)'
<1>0. ReferencesTypeOK /\ ThreadOK(t) /\ [Next]_vars
  BY DEF IInv, Next, Step
<1>1. /\ pc[t] = "open" /\ pc'[t] = "fill" /\ todo'[t] = todo[t]
      /\ UNCHANGED <<mapped, req, current, outcome, removed, since>>
      /\ outcome[t] = "none" /\ req[t] \in Requests
  BY <1>0, RequestKnown DEF CreateNewFile, Goto, ReferencesTypeOK
<1>2. files'[current[t]] = t
  BY <1>0, <1>1 DEF CreateNewFile, ThreadOK, WriteOK, ReferencesTypeOK
<1>3. WriteOK(t)'
  <2>1. req[t].op = "createSet" => req[t].data \subseteq Items
    BY <1>1, RequestFacts, ReferenceConstantsAssumption DEF Items
  <2>2. QED
    BY <1>0, <1>1, <1>2, <2>1, HereStays DEF ThreadOK, WriteOK
<1>4. BatchOK(t)'
  <2>1. CASE req[t].op = "batch"
    <3>1. /\ InGroups(t)' <=> InGroups(t)
          /\ InSets(t)' <=> InSets(t)
          /\ ~InMaps(t)'
          /\ InGroups(t) \/ InSets(t)
      BY <1>1 DEF InGroups, InSets, InMaps
    <3>2. QED
      BY <1>0, <1>1, <2>1, <3>1, BatchStays DEF ThreadOK, BatchOK
  <2>2. CASE req[t].op # "batch"
    BY <1>1, <2>2 DEF BatchOK
  <2>3. QED
    BY <2>1, <2>2
<1>5. QED
  BY <1>1, <1>3, <1>4 DEF ThreadOK, ValidateOK, DeleteOK, MapOK, FindOK, EndOK

LEMMA FillFileOK ==
  ASSUME IInv, NEW t \in Threads, FillFile(t)
  PROVE  ThreadOK(t)'
<1>0. ReferencesTypeOK /\ ThreadOK(t) /\ [Next]_vars
  BY DEF IInv, Next, Step
<1>1. /\ pc[t] = "fill" /\ current[t] \in Items
      /\ UNCHANGED <<mapped, req, removed, since>>
      /\ outcome[t] = "none" /\ req[t] \in Requests
  BY <1>0, RequestKnown DEF FillFile, ThreadOK, WriteOK
<1>2. CASE req[t].op # "batch"
  <2>1. pc'[t] = "done" /\ outcome'[t] = "ok"
    BY <1>0, <1>2 DEF FillFile, Finish, ReferencesTypeOK
  <2>2. QED
    BY <1>1, <1>2, <2>1 DEF ThreadOK, ValidateOK, DeleteOK, WriteOK, BatchOK, MapOK, FindOK, EndOK,
                             InGroups, InSets, InMaps
<1>3. CASE req[t].op = "batch"
  <2>0. PICK c \in Items : c = current[t]
    BY <1>1
  <2>1. /\ pc'[t] = IF c \in Groups THEN "groups" ELSE "sets"
        /\ todo'[t] = todo[t] \ {c}
        /\ outcome'[t] = "none"
    BY <1>0, <1>1, <1>3, <2>0 DEF FillFile, Goto, ReferencesTypeOK
  <2>2. files[c] = t \/ c \in Retracted
    BY <1>0, <1>1, <2>0 DEF ThreadOK, WriteOK
  <2>3. Kept(t, c)'
    <3>1. CASE files[c] = t
      <4>1. files'[c] = BatchData(t, c)
        BY <1>0, <1>1, <1>3, <2>0, <3>1 DEF FillFile, Payload, ReferencesTypeOK
      <4>2. BatchData(t, c)' = BatchData(t, c)
        BY <1>1 DEF BatchData, Batch
      <4>3. QED
        BY <4>1, <4>2 DEF Kept
    <3>2. CASE c \in Retracted
      BY <1>1, <3>2 DEF Kept, Retracted
    <3>3. QED
      BY <2>2, <3>1, <3>2
  <2>4. BatchOK(t)'
    <3>1. CASE c \in Groups
      <4>1. InGroups(t) /\ InGroups(t)' /\ ~InSets(t)' /\ ~InMaps(t)'
        BY <1>1, <2>0, <2>1, <3>1 DEF InGroups, InSets, InMaps
      <4>2. QED
        BY <1>0, <1>1, <1>3, <2>1, <2>3, <4>1, BatchStays DEF ThreadOK, BatchOK
    <3>2. CASE c \notin Groups
      <4>1. InSets(t) /\ InSets(t)' /\ ~InGroups(t)' /\ ~InMaps(t)'
        BY <1>1, <2>0, <2>1, <3>2 DEF InGroups, InSets, InMaps
      <4>2. QED
        BY <1>0, <1>1, <1>3, <2>1, <2>3, <4>1, BatchStays DEF ThreadOK, BatchOK
    <3>3. QED
      BY <3>1, <3>2
  <2>5. QED
    BY <1>1, <2>1, <2>4 DEF ThreadOK, ValidateOK, DeleteOK, WriteOK, MapOK, FindOK, EndOK
<1>4. QED
  BY <1>2, <1>3

LEMMA ElementSteps ==
  ASSUME IInv, NEW t \in Threads, NEW i \in Items, SkipElement(t, i) \/ CreateElement(t, i)
  PROVE  ThreadOK(t)'
<1>0. ReferencesTypeOK /\ ThreadOK(t) /\ [Next]_vars
  BY DEF IInv, Next, Step, Visit
<1>1. /\ pc[t] \in {"groups", "sets"} /\ i \in todo[t]
      /\ UNCHANGED <<files, mapped, req, outcome, removed, since>>
      /\ outcome[t] = "none" /\ req[t] \in Requests /\ req[t].op = "batch"
  <2>1. /\ pc[t] \in {"groups", "sets"} /\ i \in todo[t]
        /\ UNCHANGED <<files, mapped, req, outcome, removed, since>>
    BY DEF SkipElement, CreateElement
  <2>2. QED
    BY <1>0, <2>1, RequestKnown DEF ThreadOK, BatchOK
<1>2. InGroups(t) \/ InSets(t)
  BY <1>1 DEF InGroups, InSets
<1>3. CASE SkipElement(t, i)
  <2>1. pc'[t] = pc[t] /\ todo'[t] = todo[t] \ {i} /\ current'[t] = current[t]
    BY <1>0, <1>1, <1>3 DEF SkipElement, Goto, ReferencesTypeOK
  <2>2. Kept(t, i)
    BY <1>3 DEF SkipElement, Answers, Kept, Retracted
  <2>3. BatchOK(t)'
    <3>1. /\ InGroups(t)' <=> InGroups(t)
          /\ InSets(t)' <=> InSets(t)
          /\ ~InMaps(t)'
          /\ Kept(t, i)'
      BY <1>1, <2>1, <2>2, SameFiles DEF InGroups, InSets, InMaps
    <3>2. QED
      BY <1>0, <1>1, <1>2, <2>1, <3>1, BatchStays DEF ThreadOK, BatchOK
  <2>4. QED
    BY <1>1, <2>1, <2>3 DEF ThreadOK, ValidateOK, DeleteOK, WriteOK, MapOK, FindOK, EndOK
<1>4. CASE CreateElement(t, i)
  <2>1. pc'[t] = "open" /\ todo'[t] = todo[t] /\ current'[t] = i
    BY <1>0, <1>1, <1>4 DEF CreateElement, Goto, ReferencesTypeOK
  <2>2. i \in Groups <=> pc[t] = "groups"
    <3>1. Batch(t) \in Batches
      BY <1>1, RequestKnown
    <3>2. CASE pc[t] = "groups"
      BY <1>0, <1>1, <3>1, <3>2, BatchFacts DEF ThreadOK, BatchOK, InGroups
    <3>3. CASE pc[t] = "sets"
      BY <1>0, <1>1, <3>1, <3>3, BatchFacts, ReferenceConstantsAssumption
         DEF ThreadOK, BatchOK, InSets
    <3>4. QED
      BY <1>1, <3>2, <3>3
  <2>3. BatchOK(t)'
    <3>1. /\ InGroups(t)' <=> InGroups(t)
          /\ InSets(t)' <=> InSets(t)
          /\ ~InMaps(t)'
      BY <1>1, <2>1, <2>2 DEF InGroups, InSets, InMaps
    <3>2. QED
      BY <1>0, <1>1, <1>2, <2>1, <3>1, BatchStays DEF ThreadOK, BatchOK
  <2>4. QED
    BY <1>1, <2>1, <2>3 DEF ThreadOK, ValidateOK, DeleteOK, WriteOK, MapOK, FindOK, EndOK
<1>5. QED
  BY <1>3, <1>4

LEMMA NextPhaseOK ==
  ASSUME IInv, NEW t \in Threads, NextPhase(t)
  PROVE  ThreadOK(t)'
<1>0. ReferencesTypeOK /\ ThreadOK(t) /\ [Next]_vars
  BY DEF IInv, Next, Step
<1>1. /\ pc[t] \in {"groups", "sets"} /\ todo[t] = {}
      /\ UNCHANGED <<files, mapped, req, current, outcome, removed, since>>
      /\ outcome[t] = "none" /\ req[t] \in Requests /\ req[t].op = "batch"
  <2>1. /\ pc[t] \in {"groups", "sets"} /\ todo[t] = {}
        /\ UNCHANGED <<files, mapped, req, current, outcome, removed, since>>
    BY DEF NextPhase
  <2>2. QED
    BY <1>0, <2>1, RequestKnown DEF ThreadOK, BatchOK
<1>2. /\ Batch(t) \in Batches /\ Batch(t)' = Batch(t)
      /\ \A i \in External(Batch(t)) : Here(i)'
      /\ \A i : i \in External(Batch(t))' <=> i \in External(Batch(t))
      /\ \A i \in DOMAIN Batch(t).groups \cup DOMAIN Batch(t).sets : Kept(t, i) => Kept(t, i)'
  BY <1>0, <1>1, BatchStays DEF InGroups, InSets
<1>3. CASE pc[t] = "groups"
  <2>1. pc'[t] = "sets" /\ todo'[t] = DOMAIN Batch(t).sets
    BY <1>0, <1>1, <1>3 DEF NextPhase, Goto, ReferencesTypeOK
  <2>2. \A g \in DOMAIN Batch(t).groups : Kept(t, g)
    BY <1>0, <1>1, <1>3 DEF ThreadOK, BatchOK, InGroups
  <2>3. BatchOK(t)'
    BY <1>1, <1>2, <2>1, <2>2 DEF BatchOK, InGroups, InSets, InMaps
  <2>4. QED
    BY <1>1, <2>1, <2>3 DEF ThreadOK, ValidateOK, DeleteOK, WriteOK, MapOK, FindOK, EndOK
<1>4. CASE pc[t] = "sets"
  <2>1. pc'[t] = "maps" /\ todo'[t] = Batch(t).maps
    BY <1>0, <1>1, <1>4 DEF NextPhase, Goto, ReferencesTypeOK
  <2>2. \A i \in DOMAIN Batch(t).groups \cup DOMAIN Batch(t).sets : Kept(t, i)
    BY <1>0, <1>1, <1>4 DEF ThreadOK, BatchOK, InSets
  <2>3. BatchOK(t)'
    BY <1>1, <1>2, <2>1, <2>2 DEF BatchOK, InGroups, InSets, InMaps
  <2>4. MapOK(t)'
    <3>1. \A i \in DOMAIN Batch(t).sets : Here(i)
      BY <1>2, <2>2, KeptIsHere
    <3>2. Batch(t).maps \subseteq Sets /\ Batch(t).maps \subseteq External(Batch(t)) \cup DOMAIN Batch(t).sets
      BY <1>2, BatchFacts
    <3>3. \A i \in DOMAIN Batch(t).sets : Here(i)'
      BY <1>1, <3>1, SameFiles
    <3>4. QED
      BY <1>1, <1>2, <2>1, <3>2, <3>3 DEF MapOK
  <2>5. QED
    BY <1>1, <2>1, <2>3, <2>4 DEF ThreadOK, ValidateOK, DeleteOK, WriteOK, FindOK, EndOK
<1>5. QED
  BY <1>1, <1>3, <1>4

LEMMA MapSteps ==
  ASSUME IInv, NEW t \in Threads,
         AllMapped(t) \/ \E s \in Items : PutMapping(t, s)
  PROVE  ThreadOK(t)'
<1>0. ReferencesTypeOK /\ ThreadOK(t) /\ [Next]_vars
  BY DEF IInv, Next, Step, Visit
<1>1. /\ pc[t] = "maps"
      /\ UNCHANGED <<files, req, current, removed, since>>
      /\ outcome[t] = "none" /\ req[t] \in Requests /\ req[t].op \in {"map", "batch"}
      /\ Batch(t)' = Batch(t)
  <2>1. pc[t] = "maps" /\ UNCHANGED <<files, req, current, removed, since>>
    BY DEF AllMapped, PutMapping
  <2>2. QED
    BY <1>0, <2>1, RequestKnown DEF ThreadOK, MapOK, Batch
<1>2. req[t].op = "batch" =>
        /\ \A i \in External(Batch(t)) : Here(i)'
        /\ \A i : i \in External(Batch(t))' <=> i \in External(Batch(t))
        /\ \A i \in DOMAIN Batch(t).groups \cup DOMAIN Batch(t).sets : Kept(t, i)'
  BY <1>0, <1>1, BatchStays DEF ThreadOK, BatchOK, InMaps
<1>3. req[t].op = "batch" => Batch(t).maps \ todo[t] \subseteq mapped
  BY <1>0, <1>1 DEF ThreadOK, BatchOK, InMaps
<1>4. CASE AllMapped(t)
  <2>1. pc'[t] = "done" /\ outcome'[t] = "ok" /\ mapped' = mapped /\ todo[t] = {}
    BY <1>0, <1>4 DEF AllMapped, Finish, ReferencesTypeOK
  <2>2. EndOK(t)'
    BY <1>1, <1>2, <1>3, <2>1 DEF EndOK
  <2>3. QED
    BY <1>1, <2>1, <2>2 DEF ThreadOK, ValidateOK, DeleteOK, WriteOK, BatchOK, MapOK, FindOK,
                            InGroups, InSets, InMaps
<1>5. ASSUME NEW s \in Items, PutMapping(t, s) PROVE ThreadOK(t)'
  <2>1. pc'[t] = "maps" /\ todo'[t] = todo[t] \ {s} /\ mapped' = mapped \cup {s} /\ outcome' = outcome
    BY <1>0, <1>1, <1>5 DEF PutMapping, Goto, ReferencesTypeOK
  <2>2. BatchOK(t)'
    BY <1>1, <1>2, <1>3, <2>1 DEF BatchOK, InGroups, InSets, InMaps
  <2>3. MapOK(t)'
    BY <1>0, <1>1, <2>1, HereStays DEF ThreadOK, MapOK, Items
  <2>4. QED
    BY <1>1, <2>1, <2>2, <2>3 DEF ThreadOK, ValidateOK, DeleteOK, WriteOK, FindOK, EndOK
<1>6. QED
  BY <1>4, <1>5

(* Threads at rest.                                                        *)
LEMMA IdleOK ==
  ASSUME NEW t \in Threads, pc'[t] = "idle", outcome'[t] = "none"
  PROVE  ThreadOK(t)'
BY DEF ThreadOK, ValidateOK, DeleteOK, WriteOK, BatchOK, MapOK, FindOK, EndOK,
       InGroups, InSets, InMaps

LEMMA ActorOK ==
  ASSUME IInv, NEW t \in Threads, Step(t) \/ \E r \in Requests : Invoke(t, r)
  PROVE  ThreadOK(t)'
<1>1. Respond(t) => ThreadOK(t)'
  <2>1. Respond(t) => pc'[t] = "idle" /\ outcome'[t] = "none"
    BY DEF Respond, Goto, IInv, ReferencesTypeOK
  <2>2. QED
    BY <2>1, IdleOK
<1>2. QED
  BY <1>1, InvokeOK, ValidateSteps, DeleteSteps, UnlinkOK, SearchSteps, FailSteps,
     CreateNewFileOK, FillFileOK, ElementSteps, NextPhaseOK, MapSteps
     DEF Step, Visit

LEMMA Invariance == IInv /\ [Next]_vars => IInv'
<1> SUFFICES ASSUME IInv, [Next]_vars PROVE IInv'
  OBVIOUS
<1>1. ReferencesTypeOK' /\ GlobalOK'
  BY TypeStep, GlobalStep
<1>2. ASSUME NEW u \in Threads PROVE ThreadOK(u)'
  <2>1. ASSUME NEW t \in Threads, Step(t) \/ \E r \in Requests : Invoke(t, r)
        PROVE  ThreadOK(u)'
    <3>1. CASE u = t
      BY <2>1, <3>1, ActorOK
    <3>2. CASE u # t
      BY <2>1, <3>2, OthersStay, StillOK DEF OnlyMoves
    <3>3. QED
      BY <3>1, <3>2
  <2>2. ASSUME NEW x \in late, LateTask(x) PROVE ThreadOK(u)'
    <3>1. Still(u)
      BY <2>2 DEF LateTask, Still
    <3>2. pc[u] = "fill" /\ files[current[u]] = u => files'[current[u]] = u
      <4>1. pc[u] = "fill" => current[u] \in Items
        BY DEF IInv, ThreadOK, WriteOK
      <4>2. QED
        BY <2>2, <4>1, DataFacts DEF LateTask, IInv, ReferencesTypeOK
    <3>3. QED
      BY <3>1, <3>2, StillOK
  <2>3. CASE Restart
    <3>1. pc'[u] = "idle" /\ outcome'[u] = "none"
      BY <2>3 DEF Restart
    <3>2. QED
      BY <3>1, IdleOK
  <2>4. CASE UNCHANGED vars
    BY <2>4, StillOK DEF vars, Still
  <2>5. QED
    BY <2>1, <2>2, <2>3, <2>4 DEF Next
<1>3. QED
  BY <1>1, <1>2 DEF IInv

(***************************************************************************)
(* The theorems                                                            *)
(***************************************************************************)

(* Every variable keeps its type: files hold their writers or their data,  *)
(* and what failed batches leave behind are elements of batches.           *)
THEOREM ReferencesTypeCorrect == Spec => []ReferencesTypeOK
<1>1. IInv => ReferencesTypeOK
  BY DEF IInv
<1>2. QED
  BY InitIInv, Invariance, <1>1, PTL DEF Spec

(* A reference never leads to what was never there, in the middle of a     *)
(* batch, after a failure and for the tasks that one leaves behind:        *)
(* validation and the order of a batch's writes see to it.                 *)
THEOREM ReferencesAlwaysResolve == Spec => []ReferencesResolve
<1>1. IInv => ReferencesResolve
  <2> SUFFICES ASSUME IInv PROVE ReferencesResolve
    OBVIOUS
  <2>1. ASSUME NEW s \in WholeSets, NEW g \in files[s] PROVE Here(g)
    BY <2>1 DEF WholeSets, IInv, GlobalOK, Entry, Items
  <2>2. \A s \in mapped : Here(s)
    BY DEF IInv, GlobalOK
  <2>3. QED
    BY <2>1, <2>2 DEF ReferencesResolve, Here
<1>2. QED
  BY InitIInv, Invariance, <1>1, PTL DEF Spec

(* A version of a property group to which a version set refers that was    *)
(* stored all through the request is not deleted.                          *)
THEOREM DeletesRespectReferences == Spec => []DeleteRespectsReferences
<1>1. IInv => DeleteRespectsReferences
  BY DEF IInv, ThreadOK, DeleteOK, DeleteRespectsReferences
<1>2. QED
  BY InitIInv, Invariance, <1>1, PTL DEF Spec

(* What a successful batch held is stored as it was sent, and mapped, but  *)
(* for what was deleted.                                                   *)
THEOREM AckedBatchesAreStored == Spec => []AckedBatchIsStored
<1>1. IInv => AckedBatchIsStored
  BY DEF IInv, ThreadOK, EndOK, AckedBatchIsStored, Kept
<1>2. QED
  BY InitIInv, Invariance, <1>1, PTL DEF Spec

(* A search finds a property group missing only when it was deleted.       *)
THEOREM MissingWereDeleted == Spec => []MissingWasDeleted
<1>1. IInv => MissingWasDeleted
  BY DEF IInv, ThreadOK, EndOK, MissingWasDeleted
<1>2. QED
  BY InitIInv, Invariance, <1>1, PTL DEF Spec
=============================================================================
