-------------------- MODULE FileVersionRepositoryProofs --------------------
(***************************************************************************)
(* Proofs about FileVersionRepository, for any number of threads, names,   *)
(* versions and contents, on both storages, with faults and without, and   *)
(* about what FileVersionHistory says of an acknowledged upload and of a   *)
(* delete and its rollback.                                                *)
(***************************************************************************)
EXTENDS FileVersionHistory, TLAPS

(***************************************************************************)
(* The inductive invariant.  Type correctness depends on which methods     *)
(* make which storage calls, and on what a thread knows at each of them:   *)
(* the version it reads, or the file it writes and the bytes.              *)
(***************************************************************************)

AllOps == {"create", "update", "read", "readVersion", "versions", "delete",
           "deleteVersion"}

(* The methods op that make the storage call label.                        *)
Calls(op, label) ==
  /\ op \in AllOps
  /\ label = "exists" => op = "create"
  /\ label = "list" => op \in {"update", "read", "versions", "delete"}
  /\ label \in {"readModel", "readData"} =>
       op \in {"update", "read", "readVersion", "delete", "deleteVersion"}
  /\ label = "readAgain" => op \in {"read", "delete"}
  /\ label \in {"write", "fill"} => op \in {"create", "update", "delete"}
  /\ label = "eraseModel" => op \in {"create", "update"}
  /\ label \in {"listModels", "save", "unlink", "listData", "rollback"} => op = "delete"
  /\ label \in {"deleteModel", "deleteData"} => op = "deleteVersion"

Labels == StorageCalls \cup {"idle", "rollback", "done"}

(* Where a thread is in which method.                                      *)
ControlOK ==
  /\ storage \in Storages
  /\ pc      \in [Threads -> Labels]
  /\ request \in [Threads -> Requests \cup {NoRequest}]
  /\ reply   \in [Threads -> Outcomes]
  /\ \A t \in Threads :
       pc[t] # "idle" => request[t] \in Requests /\ Calls(request[t].op, pc[t])

(* What it knows there.                                                    *)
Knows(t) ==
  /\ pc[t] \in {"readModel", "readData", "readAgain"} => VersionRead(t) \in Versions
  /\ pc[t] \in {"write", "fill", "unlink"} =>
       target[t] \in Files /\ bytes[t] \in ByteStates \ {Absent}

KnowledgeOK == \A t \in Threads : Knows(t)

DataOK ==
  /\ files  \in [Files -> FileStates]
  /\ faults \in 0 .. MaxFaults
  /\ latest \in [Threads -> 0 .. MaxVersion]
  /\ target \in [Threads -> Files \cup {NoTarget}]
  /\ bytes  \in [Threads -> ByteStates]
  /\ listed \in [Threads -> SUBSET Files]
  /\ erased \in [Threads -> SUBSET (Files \X (ByteStates \ {Absent}))]

IInv == ControlOK /\ KnowledgeOK /\ DataOK

LEMMA IInvTypes == IInv => TypeOK
  BY DEF IInv, ControlOK, DataOK, TypeOK, Labels

(***************************************************************************)
(* Facts about requests and files                                          *)
(***************************************************************************)

LEMMA RequestFields ==
  ASSUME NEW r \in Requests
  PROVE  /\ r.op \in AllOps
         /\ r.name \in Names
         /\ r.op \in {"create", "update"} => r.content \in Contents
         /\ r.op \in {"create", "update", "readVersion", "deleteVersion"} =>
              r.version \in Versions
  BY DEF Requests, AllOps

LEMMA FileOfIsFile ==
  ASSUME NEW t \in Threads, request[t] \in Requests,
         NEW kind \in {"model", "data"}, NEW v \in Versions
  PROVE  FileOf(t, kind, v) \in Files
  BY RequestFields DEF FileOf, Files

LEMMA ListedAreFiles ==
  ASSUME NEW kind, NEW name
  PROVE  /\ ListedFor(kind, name) \subseteq Files
         /\ \A f \in ListedFor(kind, name) : f[3] \in Versions
  BY DEF ListedFor, Files

(* The bytes of a file that exists are bytes that can be written.          *)
LEMMA BytesOfFile ==
  ASSUME DataOK, NEW f \in Files, files[f] # Absent
  PROVE  BytesOf(f) \in ByteStates \ {Absent}
  BY FileConstantsAssumption DEF DataOK, BytesOf, FileStates, ByteStates

LEMMA VersionsAreRanks == Versions \subseteq 0 .. MaxVersion
  BY FileConstantsAssumption DEF Versions

(***************************************************************************)
(* Control: a thread goes on in its call, or ends it                       *)
(***************************************************************************)

LEMMA GotoControl ==
  ASSUME NEW t \in Threads, NEW label \in Labels \ {"idle"}, ControlOK, Goto(t, label),
         pc[t] # "idle", Calls(request[t].op, label)
  PROVE  ControlOK'
  BY DEF ControlOK, Goto

LEMMA AnswerControl ==
  ASSUME NEW t \in Threads, NEW outcome \in Outcomes, ControlOK, Answer(t, outcome),
         pc[t] # "idle"
  PROVE  ControlOK'
<1>1. Calls(request[t].op, "done")
  BY RequestFields DEF ControlOK, Calls
<1> QED
  BY <1>1 DEF ControlOK, Answer, Labels

(* An exception is caught at a call that belongs to the handler's method.  *)
LEMMA CatchControl ==
  ASSUME NEW t \in Threads, ControlOK, Catch(t), pc[t] \in StorageCalls
  PROVE  /\ ControlOK'
         /\ Goto(t, "rollback") \/ Goto(t, "eraseModel") \/ (\E out : Answer(t, out))
<1>1. pc[t] # "idle"
  BY DEF StorageCalls
<1>2. CASE pc[t] \in {"save", "unlink", "listData"}
  <2>1. Calls(request[t].op, "rollback")
    BY <1>1, <1>2 DEF ControlOK, Calls
  <2> QED
    BY <1>1, <1>2, <2>1, GotoControl DEF Catch, Labels
<1>3. CASE Goto(t, "eraseModel") /\ pc[t] = "write" /\ DataWrite(t)
  <2>1. Calls(request[t].op, "eraseModel")
    BY <1>1, <1>3 DEF ControlOK, Calls, DataWrite
  <2> QED
    BY <1>1, <1>3, <2>1, GotoControl DEF Labels, StorageCalls
<1>4. CASE Answer(t, "conflict") \/ Answer(t, "error")
  BY <1>1, <1>4, AnswerControl DEF Outcomes
<1> QED
  BY <1>2, <1>3, <1>4 DEF Catch

(***************************************************************************)
(* Knowledge: a step changes what its own thread knows, and no other       *)
(***************************************************************************)

LEMMA OthersKnow ==
  ASSUME IInv, NEW t \in Threads, request' = request,
         \A u \in Threads \ {t} :
           /\ pc'[u] = pc[u]         /\ latest'[u] = latest[u]
           /\ target'[u] = target[u] /\ bytes'[u] = bytes[u],
         Knows(t)'
  PROVE  KnowledgeOK'
  BY DEF IInv, KnowledgeOK, Knows, VersionRead

LEMMA MovesAlone ==
  ASSUME IInv, NEW t \in Threads,
         (\E label : Goto(t, label)) \/ (\E out : Answer(t, out))
  PROVE  request' = request /\ \A u \in Threads \ {t} : pc'[u] = pc[u]
  BY DEF Goto, Answer, IInv, ControlOK

(* A thread that is done, or at a call that needs no version and no file.  *)
LEMMA NeedsNothing ==
  ASSUME IInv, NEW t \in Threads, UNCHANGED <<latest, target, bytes>>,
         \/ \E out : Answer(t, out)
         \/ \E label \in Labels \ {"readModel", "readData", "readAgain", "write", "fill",
                                   "unlink"} : Goto(t, label)
  PROVE  KnowledgeOK'
<1>1. request' = request /\ \A u \in Threads \ {t} : pc'[u] = pc[u]
  BY MovesAlone
<1>2. pc'[t] \notin {"readModel", "readData", "readAgain", "write", "fill", "unlink"}
  BY DEF Goto, Answer, IInv, ControlOK, Labels
<1> QED
  BY <1>1, <1>2, OthersKnow DEF Knows

(***************************************************************************)
(* The steps of reading                                                    *)
(***************************************************************************)

LEMMA ReadingIInv ==
  ASSUME NEW t \in Threads, IInv,
         \/ NothingListed(t) \/ ListVersions(t) \/ PickLatest(t) \/ ReadModel(t)
         \/ ReadData(t) \/ DataMissing(t)
  PROVE  IInv'
<1> USE DEF IInv
<1>1. ASSUME UNCHANGED <<files, faults, locals>>, pc[t] # "idle",
             NEW outcome \in Outcomes, Answer(t, outcome)
      PROVE  IInv'
  BY <1>1, AnswerControl, NeedsNothing DEF DataOK, locals
<1>2. CASE NothingListed(t) \/ ListVersions(t) \/ DataMissing(t)
  BY <1>1, <1>2 DEF NothingListed, ListVersions, DataMissing, Outcomes
<1>3. CASE PickLatest(t)
  <2>1. PICK f \in ListedFor("model", request[t].name) :
          latest' = [latest EXCEPT ![t] = f[3]]
    BY <1>3 DEF PickLatest
  <2>2. f[3] \in Versions
    BY <2>1, ListedAreFiles
  <2>3. /\ Goto(t, "readModel") /\ pc[t] = "list" /\ request[t].op # "versions"
        /\ UNCHANGED <<files, faults, target, bytes, listed, erased>>
    BY <1>3 DEF PickLatest
  <2>4. Calls(request[t].op, "readModel") /\ request[t].op # "readVersion"
         /\ request[t].op # "deleteVersion"
    BY <2>3 DEF ControlOK, Calls
  <2>5. ControlOK'
    BY <2>3, <2>4, GotoControl DEF Labels, StorageCalls
  <2>6. DataOK'
    BY <2>1, <2>2, <2>3, VersionsAreRanks DEF DataOK
  <2>7. Knows(t)'
    BY <2>1, <2>2, <2>3, <2>4 DEF Knows, VersionRead, Goto, ControlOK, DataOK
  <2>8. \A u \in Threads \ {t} : latest'[u] = latest[u]
    BY <2>1 DEF DataOK
  <2> QED
    BY <2>3, <2>5, <2>6, <2>7, <2>8, MovesAlone, OthersKnow
<1>4. CASE ReadModel(t)
  <2>1. /\ pc[t] = "readModel"
        /\ UNCHANGED <<files, faults, locals>>
        /\ Goto(t, "readData") \/ Answer(t, "error") \/ Answer(t, "absent")
    BY <1>4 DEF ReadModel
  <2>2. CASE Goto(t, "readData")
    <3>1. Calls(request[t].op, "readData")
      BY <2>1 DEF ControlOK, Calls
    <3>2. ControlOK'
      BY <2>1, <2>2, <3>1, GotoControl DEF Labels, StorageCalls
    <3>3. Knows(t)'
      BY <2>1, <2>2 DEF KnowledgeOK, Knows, VersionRead, Goto, ControlOK, locals
    <3> QED
      BY <2>1, <2>2, <3>2, <3>3, MovesAlone, OthersKnow DEF DataOK, locals
  <2> QED
    BY <1>1, <2>1, <2>2 DEF Outcomes
<1>5. CASE ReadData(t)
  <2> DEFINE data == FileOf(t, "data", VersionRead(t))
             next == AfterData(pc[t], request[t].op)
  <2>1. /\ pc[t] \in {"readData", "readAgain"} /\ files[data] # Absent
        /\ request[t].op # "update"
        /\ bytes' = [bytes EXCEPT ![t] = BytesOf(data)]
        /\ IF next = "done" THEN Answer(t, "ok") ELSE Goto(t, next)
        /\ UNCHANGED <<files, faults, latest, target, listed, erased>>
    BY <1>5 DEF ReadData
  <2>2. /\ Calls(request[t].op, pc[t]) /\ request[t] \in Requests
        /\ VersionRead(t) \in Versions
    BY <2>1 DEF ControlOK, KnowledgeOK, Knows
  <2>3. BytesOf(data) \in ByteStates
    BY <2>1, <2>2, FileOfIsFile, BytesOfFile
  <2>4. DataOK'
    BY <2>1, <2>3 DEF DataOK
  <2>5. /\ next \in {"readAgain", "save", "deleteModel", "done"}
        /\ next # "done" => Calls(request[t].op, next)
    BY <2>1, <2>2 DEF AfterData, Calls, AllOps
  <2>6. ControlOK'
    BY <2>1, <2>5, AnswerControl, GotoControl DEF Labels, StorageCalls, Outcomes
  <2>7. pc'[t] = next /\ request' = request
    BY <2>1 DEF Goto, Answer, ControlOK
  <2>8. Knows(t)'
    BY <2>1, <2>2, <2>5, <2>7 DEF Knows, VersionRead
  <2>9. \A u \in Threads \ {t} : bytes'[u] = bytes[u]
    BY <2>1 DEF DataOK
  <2>10. (\E label : Goto(t, label)) \/ (\E out : Answer(t, out))
    BY <2>1
  <2> QED
    BY <2>1, <2>4, <2>6, <2>8, <2>9, <2>10, MovesAlone, OthersKnow
<1> QED
  BY <1>2, <1>3, <1>4, <1>5

(***************************************************************************)
(* The steps of writing                                                    *)
(***************************************************************************)

(* A create or update goes on to write its model or its data.              *)
LEMMA GotoWriteIInv ==
  ASSUME NEW t \in Threads, IInv, NEW kind \in {"model", "data"}, GotoWrite(t, kind),
         pc[t] # "idle", request[t].op \in {"create", "update"}, faults' = faults,
         files' \in [Files -> FileStates]
  PROVE  IInv'
<1> USE DEF IInv
<1>1. /\ request[t] \in Requests /\ request[t].version \in Versions
      /\ request[t].content \in Contents
      /\ Calls(request[t].op, "write")
  BY RequestFields DEF ControlOK, Calls, AllOps
<1>2. /\ FileOf(t, kind, request[t].version) \in Files
      /\ request[t].content \in ByteStates \ {Absent}
  BY <1>1, FileOfIsFile, FileConstantsAssumption DEF ByteStates
<1>3. ControlOK'
  BY <1>1, GotoControl DEF GotoWrite, Labels, StorageCalls
<1>4. DataOK'
  BY <1>2 DEF GotoWrite, DataOK
<1>5. Knows(t)'
  BY <1>2 DEF GotoWrite, Goto, Knows, ControlOK, DataOK
<1>6. \A u \in Threads \ {t} :
        latest'[u] = latest[u] /\ target'[u] = target[u] /\ bytes'[u] = bytes[u]
  BY DEF GotoWrite, DataOK
<1> QED
  BY <1>3, <1>4, <1>5, <1>6, MovesAlone, OthersKnow DEF GotoWrite

LEMMA FilledIsTyped ==
  ASSUME NEW t \in Threads, IInv, pc[t] \in {"write", "fill", "unlink"}
  PROVE  Filled(t) \in [Files -> FileStates]
  BY DEF Filled, IInv, KnowledgeOK, Knows, DataOK, FileStates

LEMMA WritingIInv ==
  ASSUME NEW t \in Threads, IInv,
         \/ CheckName(t) \/ ReadBeforeUpdate(t) \/ WriteConflict(t) \/ NewFile(t)
         \/ FillModel(t) \/ FillData(t) \/ EraseModel(t)
  PROVE  IInv'
<1> USE DEF IInv
<1>1. ASSUME files' \in [Files -> FileStates], UNCHANGED <<faults, locals>>, pc[t] # "idle",
             NEW outcome \in Outcomes, Answer(t, outcome)
      PROVE  IInv'
  BY <1>1, AnswerControl, NeedsNothing DEF DataOK, locals
<1>2. CASE CheckName(t)
  <2>1. /\ request[t].op = "create" /\ pc[t] # "idle"
        /\ files' = files /\ faults' = faults /\ files \in [Files -> FileStates]
    BY <1>2 DEF CheckName, ControlOK, Calls, DataOK
  <2>2. (Answer(t, "conflict") /\ UNCHANGED locals) \/ GotoWrite(t, "model")
    BY <1>2 DEF CheckName
  <2> QED
    BY <1>1, <2>1, <2>2, GotoWriteIInv DEF Outcomes
<1>3. CASE ReadBeforeUpdate(t)
  BY <1>3, GotoWriteIInv DEF ReadBeforeUpdate, DataOK
<1>4. CASE WriteConflict(t)
  BY <1>1, <1>4 DEF WriteConflict, Outcomes, DataOK
<1>5. CASE NewFile(t)
  <2>1. /\ pc[t] = "write" /\ Goto(t, "fill") /\ UNCHANGED <<faults, locals>>
        /\ files' = IF storage = "local" THEN [files EXCEPT ![target[t]] = t] ELSE files
    BY <1>5 DEF NewFile
  <2>2. Calls(request[t].op, "fill") /\ Knows(t)
    BY <2>1 DEF ControlOK, Calls, KnowledgeOK
  <2>3. ControlOK'
    BY <2>1, <2>2, GotoControl DEF Labels, StorageCalls
  <2>4. DataOK'
    BY <2>1 DEF DataOK, FileStates, locals
  <2>5. Knows(t)'
    BY <2>1, <2>2 DEF Knows, Goto, ControlOK, locals
  <2> QED
    BY <2>1, <2>3, <2>4, <2>5, MovesAlone, OthersKnow DEF locals
<1>6. CASE FillModel(t)
  <2>1. request[t].op \in {"create", "update"} /\ pc[t] = "fill"
    BY <1>6 DEF FillModel, ControlOK, Calls
  <2>2. files' \in [Files -> FileStates]
    BY <1>6, <2>1, FilledIsTyped DEF FillModel
  <2> QED
    BY <1>6, <2>1, <2>2, GotoWriteIInv DEF FillModel
<1>7. CASE FillData(t)
  <2>1. files' \in [Files -> FileStates]
    BY <1>7, FilledIsTyped DEF FillData
  <2> QED
    BY <1>1, <1>7, <2>1 DEF FillData, Outcomes
<1>8. CASE EraseModel(t)
  <2>1. files' \in [Files -> FileStates]
    BY <1>8 DEF EraseModel, DataOK, FileStates, ByteStates
  <2> QED
    BY <1>1, <1>8, <2>1 DEF EraseModel, Outcomes
<1> QED
  BY <1>2, <1>3, <1>4, <1>5, <1>6, <1>7, <1>8

(***************************************************************************)
(* The steps of deleting                                                   *)
(***************************************************************************)

(* A thread goes on to a call that needs no version and no file.           *)
LEMMA GoesOnIInv ==
  ASSUME NEW t \in Threads, IInv,
         NEW label \in {"list", "save", "rollback", "listData", "deleteData"},
         Goto(t, label), pc[t] # "idle", Calls(request[t].op, label),
         UNCHANGED <<latest, target, bytes>>, DataOK'
  PROVE  IInv'
<1>1. ControlOK'
  BY GotoControl DEF IInv, Labels, StorageCalls
<1>2. KnowledgeOK'
  BY NeedsNothing DEF Labels, StorageCalls
<1> QED
  BY <1>1, <1>2 DEF IInv

(* A thread goes on with a file to write or unlink, and its bytes.         *)
LEMMA TakesFileIInv ==
  ASSUME NEW t \in Threads, IInv, NEW label \in {"write", "unlink"}, Goto(t, label),
         pc[t] # "idle", Calls(request[t].op, label),
         NEW f \in Files, NEW b \in ByteStates \ {Absent},
         target' = [target EXCEPT ![t] = f], bytes' = [bytes EXCEPT ![t] = b],
         UNCHANGED <<files, faults, latest, listed, erased>>
  PROVE  IInv'
<1> USE DEF IInv
<1>1. ControlOK'
  BY GotoControl DEF Labels, StorageCalls
<1>2. DataOK'
  BY DEF DataOK
<1>3. Knows(t)'
  BY DEF Knows, Goto, ControlOK, DataOK
<1>4. \A u \in Threads \ {t} : target'[u] = target[u] /\ bytes'[u] = bytes[u]
  BY DEF DataOK
<1> QED
  BY <1>1, <1>2, <1>3, <1>4, MovesAlone, OthersKnow

LEMMA DeletingIInv ==
  ASSUME NEW t \in Threads, IInv,
         \/ ListModels(t) \/ Save(t) \/ SaveMissing(t) \/ Unlink(t) \/ ListData(t)
         \/ Rollback(t) \/ Restore(t) \/ RolledBack(t) \/ DeleteModel(t) \/ DeleteData(t)
  PROVE  IInv'
<1> USE DEF IInv
<1>1. ASSUME DataOK', UNCHANGED <<latest, target, bytes>>, pc[t] # "idle",
             NEW outcome \in Outcomes, Answer(t, outcome)
      PROVE  IInv'
  BY <1>1, AnswerControl, NeedsNothing
<1>2. CASE ListModels(t)
  <2>1. /\ pc[t] = "listModels" /\ UNCHANGED <<latest, target, bytes>>
        /\ Answer(t, "absent") \/ Goto(t, "list")
    BY <1>2 DEF ListModels
  <2>2. DataOK'
    BY <1>2, ListedAreFiles DEF ListModels, DataOK
  <2>3. Calls(request[t].op, "list")
    BY <2>1 DEF ControlOK, Calls
  <2> QED
    BY <1>1, <2>1, <2>2, <2>3, GoesOnIInv DEF Outcomes
<1>3. CASE Save(t)
  <2>1. PICK f \in listed[t] :
          /\ files[f] # Absent
          /\ target' = [target EXCEPT ![t] = f]
          /\ bytes' = [bytes EXCEPT ![t] = BytesOf(f)]
    BY <1>3 DEF Save
  <2>2. f \in Files
    BY <2>1 DEF DataOK
  <2>3. BytesOf(f) \in ByteStates \ {Absent}
    BY <2>1, <2>2, BytesOfFile
  <2>4. Calls(request[t].op, "unlink")
    BY <1>3 DEF Save, ControlOK, Calls
  <2>5. /\ Goto(t, "unlink") /\ pc[t] # "idle"
        /\ UNCHANGED <<files, faults, latest, listed, erased>>
    BY <1>3 DEF Save
  <2> QED
    BY <2>1, <2>2, <2>3, <2>4, <2>5, TakesFileIInv
<1>4. CASE SaveMissing(t)
  <2>1. Calls(request[t].op, "rollback")
    BY <1>4 DEF SaveMissing, ControlOK, Calls
  <2> QED
    BY <1>4, <2>1, GoesOnIInv DEF SaveMissing, DataOK, locals
<1>5. CASE Unlink(t)
  <2>1. /\ pc[t] = "unlink" /\ UNCHANGED <<faults, latest, target, bytes>>
        /\ Goto(t, "save") \/ Goto(t, "listData") \/ Answer(t, "ok")
    BY <1>5 DEF Unlink
  <2>2. target[t] \in Files /\ bytes[t] \in ByteStates \ {Absent}
    BY <2>1 DEF KnowledgeOK, Knows
  <2>3. /\ files' \in [Files -> FileStates]
        /\ erased' \in [Threads -> SUBSET (Files \X (ByteStates \ {Absent}))]
        /\ listed' \in [Threads -> SUBSET Files]
    BY <1>5, <2>2 DEF Unlink, DataOK, FileStates, ByteStates
  <2>4. DataOK'
    BY <2>1, <2>3 DEF DataOK
  <2>5. Calls(request[t].op, "save") /\ Calls(request[t].op, "listData")
    BY <2>1 DEF ControlOK, Calls
  <2> QED
    BY <1>1, <2>1, <2>4, <2>5, GoesOnIInv DEF Outcomes
<1>6. CASE ListData(t)
  <2>1. /\ pc[t] = "listData" /\ UNCHANGED <<latest, target, bytes>>
        /\ Goto(t, "rollback") \/ Goto(t, "save")
    BY <1>6 DEF ListData
  <2>2. DataOK'
    BY <1>6, ListedAreFiles DEF ListData, DataOK
  <2>3. Calls(request[t].op, "rollback") /\ Calls(request[t].op, "save")
    BY <2>1 DEF ControlOK, Calls
  <2> QED
    BY <2>1, <2>2, <2>3, GoesOnIInv
<1>7. CASE Rollback(t)
  <2>1. PICK saved \in erased[t] :
          /\ target' = [target EXCEPT ![t] = saved[1]]
          /\ bytes' = [bytes EXCEPT ![t] = saved[2]]
    BY <1>7 DEF Rollback
  <2>2. saved[1] \in Files /\ saved[2] \in ByteStates \ {Absent}
    BY <2>1 DEF DataOK
  <2>3. Calls(request[t].op, "write")
    BY <1>7 DEF Rollback, ControlOK, Calls
  <2>4. /\ Goto(t, "write") /\ pc[t] # "idle"
        /\ UNCHANGED <<files, faults, latest, listed, erased>>
    BY <1>7 DEF Rollback
  <2> QED
    BY <2>1, <2>2, <2>3, <2>4, TakesFileIInv
<1>8. CASE Restore(t)
  <2>1. Calls(request[t].op, "rollback")
    BY <1>8 DEF Restore, ControlOK, Calls
  <2>2. files' \in [Files -> FileStates]
    BY <1>8, FilledIsTyped DEF Restore
  <2>3. DataOK'
    BY <1>8, <2>2 DEF Restore, DataOK
  <2> QED
    BY <1>8, <2>1, <2>3, GoesOnIInv DEF Restore
<1>9. CASE RolledBack(t)
  BY <1>1, <1>9 DEF RolledBack, Outcomes, DataOK, locals
<1>10. CASE DeleteModel(t)
  <2>1. /\ pc[t] = "deleteModel" /\ UNCHANGED <<faults, locals>>
        /\ Answer(t, "error") \/ Goto(t, "deleteData")
    BY <1>10 DEF DeleteModel
  <2>2. DataOK'
    BY <1>10 DEF DeleteModel, DataOK, locals, FileStates, ByteStates
  <2>3. Calls(request[t].op, "deleteData")
    BY <2>1 DEF ControlOK, Calls
  <2> QED
    BY <1>1, <2>1, <2>2, <2>3, GoesOnIInv DEF Outcomes, locals
<1>11. CASE DeleteData(t)
  <2>1. DataOK'
    BY <1>11 DEF DeleteData, DataOK, locals, FileStates, ByteStates
  <2> QED
    BY <1>1, <1>11, <2>1 DEF DeleteData, Outcomes, locals
<1> QED
  BY <1>2, <1>3, <1>4, <1>5, <1>6, <1>7, <1>8, <1>9, <1>10, <1>11

(***************************************************************************)
(* Faults, and the ends of a call                                          *)
(***************************************************************************)

LEMMA FaultIInv ==
  ASSUME NEW t \in Threads, IInv, IOFailure(t) \/ LostAnswer(t)
  PROVE  IInv'
<1>1. /\ faults < MaxFaults /\ faults' = faults + 1 /\ Catch(t) /\ UNCHANGED locals
      /\ pc[t] \in StorageCalls
  BY DEF IOFailure, LostAnswer, StorageCalls
<1>2. files' \in [Files -> FileStates]
  <2>1. CASE IOFailure(t)
    BY <2>1 DEF IOFailure, IInv, DataOK
  <2>2. CASE pc[t] = "fill" /\ files' = Filled(t)
    BY <2>2, FilledIsTyped
  <2>3. CASE \E f : files' = [files EXCEPT ![f] = Absent]
    BY <2>3 DEF IInv, DataOK, FileStates, ByteStates
  <2> QED
    BY <2>1, <2>2, <2>3 DEF LostAnswer
<1>3. faults' \in 0 .. MaxFaults
  BY <1>1, FileConstantsAssumption DEF IInv, DataOK
<1>4. DataOK'
  BY <1>1, <1>2, <1>3 DEF IInv, DataOK, locals
<1>5. /\ ControlOK'
      /\ Goto(t, "rollback") \/ Goto(t, "eraseModel") \/ (\E out : Answer(t, out))
  BY <1>1, CatchControl DEF IInv
<1>6. KnowledgeOK'
  BY <1>1, <1>5, NeedsNothing DEF Labels, StorageCalls, locals
<1> QED
  BY <1>4, <1>5, <1>6 DEF IInv

LEMMA InvokeIInv ==
  ASSUME NEW t \in Threads, NEW r \in Requests, IInv, Invoke(t, r)
  PROVE  IInv'
<1>1. r.op \in AllOps /\ (r.op \in {"readVersion", "deleteVersion"} => r.version \in Versions)
  BY RequestFields
<1>2. /\ FirstCall(r.op) \in {"exists", "list", "listModels", "readModel"}
      /\ FirstCall(r.op) = "exists" => r.op = "create"
      /\ FirstCall(r.op) = "list" => r.op \in {"update", "read", "versions"}
      /\ FirstCall(r.op) = "listModels" => r.op = "delete"
      /\ FirstCall(r.op) = "readModel" => r.op \in {"readVersion", "deleteVersion"}
  BY <1>1 DEF FirstCall, AllOps
<1>3. Calls(r.op, FirstCall(r.op)) /\ FirstCall(r.op) \in Labels
  BY <1>1, <1>2 DEF Calls, Labels, StorageCalls
<1>4. ControlOK'
  BY <1>3 DEF Invoke, IInv, ControlOK
<1>5. DataOK'
  BY DEF Invoke, IInv, DataOK, locals
<1>6. \A u \in Threads \ {t} : pc'[u] = pc[u] /\ request'[u] = request[u]
  BY DEF Invoke, IInv, ControlOK
<1>7. /\ pc'[t] = FirstCall(r.op) /\ request'[t] = r
      /\ UNCHANGED <<latest, target, bytes>>
  BY DEF Invoke, IInv, ControlOK, locals
<1>8. Knows(t)'
  BY <1>1, <1>2, <1>7 DEF Knows, VersionRead
<1>9. \A u \in Threads \ {t} : Knows(u)'
  BY <1>6, <1>7 DEF IInv, KnowledgeOK, Knows, VersionRead
<1> QED
  BY <1>4, <1>5, <1>8, <1>9 DEF IInv, KnowledgeOK

LEMMA ReturnIInv ==
  ASSUME NEW t \in Threads, IInv, Return(t)
  PROVE  IInv'
<1>1. ControlOK'
  BY DEF Return, IInv, ControlOK, Labels, Outcomes
<1>2. DataOK'
  BY FileConstantsAssumption DEF Return, IInv, DataOK, ByteStates
<1>3. KnowledgeOK'
  BY DEF Return, IInv, ControlOK, DataOK, KnowledgeOK, Knows, VersionRead
<1> QED
  BY <1>1, <1>2, <1>3 DEF IInv

LEMMA InitIInv == Init => IInv
  BY FileConstantsAssumption
  DEF Init, IInv, ControlOK, DataOK, KnowledgeOK, Knows, Labels, Outcomes, FileStates,
      ByteStates

LEMMA RestartIInv == IInv /\ Restart => IInv'
  BY FileConstantsAssumption
  DEF Restart, IInv, ControlOK, DataOK, KnowledgeOK, Knows, Labels, Outcomes, ByteStates

LEMMA NextIInv == IInv /\ [Next]_vars => IInv'
<1> SUFFICES ASSUME IInv, [Next]_vars PROVE IInv'
  OBVIOUS
<1>1. ASSUME NEW t \in Threads, Step(t) PROVE IInv'
  BY <1>1, ReadingIInv, WritingIInv, DeletingIInv, FaultIInv DEF Step
<1>2. CASE UNCHANGED vars
  BY <1>2
  DEF vars, locals, IInv, ControlOK, DataOK, KnowledgeOK, Knows, VersionRead
<1> QED
  BY <1>1, <1>2, InvokeIInv, ReturnIInv, RestartIInv DEF Next

LEMMA SpecIInv == Spec => []IInv
  BY InitIInv, NextIInv, PTL DEF Spec

(* The repository of file versions is type correct: what a rollback has to *)
(* restore are files and bytes that were there, and no thread writes or    *)
(* unlinks without knowing which file (FileVersionFlatFileRepository).     *)
THEOREM FileVersionTypeCorrect == Spec => []TypeOK
  BY SpecIInv, IInvTypes, PTL

(***************************************************************************)
(* On the local storage, what is visible is a store of immutable pairs     *)
(***************************************************************************)

(* A step changes one file, either one that was not complete or to one     *)
(* that is not: the version it belongs to is published, retracted, or      *)
(* stays as it was.                                                        *)
LEMMA OneFileChange ==
  ASSUME DataOK, NEW f \in Files, NEW x, files' = [files EXCEPT ![f] = x],
         files[f] \notin Contents \/ x \notin Contents
  PROVE  [Store!Next]_Visible
<1> DEFINE a == <<f[2], f[3]>>
<1>1. a \in Artifacts
  BY DEF Files, Artifacts
<1>2. \A b \in Artifacts : b # a => Visible'[b] = Visible[b]
  <2> SUFFICES ASSUME NEW b \in Artifacts, b # a PROVE Visible'[b] = Visible[b]
    OBVIOUS
  <2>1. \A kind \in {"model", "data"} :
          <<kind, b[1], b[2]>> \in Files /\ <<kind, b[1], b[2]>> # f
    BY DEF Files, Artifacts
  <2>2. \A kind \in {"model", "data"} :
          files'[<<kind, b[1], b[2]>>] = files[<<kind, b[1], b[2]>>]
    BY <2>1 DEF DataOK
  <2> QED
    BY <2>2 DEF Visible
<1>3. Visible[a] = Absent \/ Visible'[a] = Absent
  <2>1. f = <<f[1], a[1], a[2]>> /\ f[1] \in {"model", "data"}
    BY DEF Files
  <2>2. files'[f] = x
    BY DEF DataOK
  <2> QED
    BY <1>1, <2>1, <2>2 DEF Visible
<1>4. \A g : Visible'[a] = g => Visible' = [Visible EXCEPT ![a] = g]
  BY <1>1, <1>2 DEF Visible
<1>5. CASE Visible'[a] = Visible[a]
  BY <1>1, <1>4, <1>5 DEF Visible
<1>6. CASE Visible'[a] = Absent /\ Visible[a] # Absent
  BY <1>1, <1>4, <1>6 DEF Store!Next, Store!Retract
<1>7. CASE Visible[a] = Absent /\ Visible'[a] # Absent
  <2>1. Visible'[a] \in Contents \X Contents
    BY <1>1, <1>7 DEF Visible
  <2> QED
    BY <1>1, <1>4, <1>7, <2>1 DEF Store!Next, Store!Publish
<1> QED
  BY <1>3, <1>5, <1>6, <1>7

LEMMA RemovalIsRetraction ==
  ASSUME DataOK, NEW f, files' = [files EXCEPT ![f] = Absent]
  PROVE  [Store!Next]_Visible
<1>1. CASE f \in Files
  BY <1>1, OneFileChange, FileConstantsAssumption
<1>2. CASE f \notin Files
  BY <1>2 DEF DataOK, Visible
<1> QED
  BY <1>1, <1>2

(* On the local storage a thread fills no file but the one it created.     *)
LEMMA LocalFillIsPublication ==
  ASSUME IInv, storage = "local", NEW t \in Threads, pc[t] = "fill", files' = Filled(t)
  PROVE  [Store!Next]_Visible
<1>1. target[t] \in Files
  BY DEF IInv, KnowledgeOK, Knows
<1>2. CASE files[target[t]] = t
  <2>1. files' = [files EXCEPT ![target[t]] = bytes[t]]
    BY <1>1, <1>2 DEF Filled, IInv, DataOK
  <2>2. files[target[t]] \notin Contents
    BY <1>2, FileConstantsAssumption
  <2> QED
    BY <1>1, <2>1, <2>2, OneFileChange DEF IInv
<1>3. CASE files[target[t]] # t
  <2>1. files' = files
    BY <1>1, <1>3 DEF Filled, IInv, DataOK
  <2> QED
    BY <2>1 DEF Visible
<1> QED
  BY <1>2, <1>3

LEMMA NextIsImmutable ==
  ASSUME IInv, [Next]_vars, storage = "local"
  PROVE  [Store!Next]_Visible
<1>1. CASE UNCHANGED files
  BY <1>1 DEF Visible
<1>2. ASSUME NEW t \in Threads, Step(t) PROVE [Store!Next]_Visible
  <2>1. CASE NewFile(t)
    <3>1. /\ target[t] \in Files /\ files[target[t]] = Absent
          /\ files' = [files EXCEPT ![target[t]] = t]
      BY <2>1 DEF NewFile, IInv, KnowledgeOK, Knows
    <3> QED
      BY <3>1, OneFileChange, FileConstantsAssumption DEF IInv
  <2>2. CASE FillModel(t) \/ FillData(t) \/ Restore(t)
    BY <2>2, LocalFillIsPublication DEF FillModel, FillData, Restore
  <2>3. CASE EraseModel(t) \/ Unlink(t) \/ DeleteModel(t) \/ DeleteData(t)
    BY <2>3, RemovalIsRetraction DEF EraseModel, Unlink, DeleteModel, DeleteData, IInv
  <2>4. ~ LostAnswer(t)
    BY DEF LostAnswer
  <2> QED
    BY <1>1, <1>2, <2>1, <2>2, <2>3, <2>4
    DEF Step, NothingListed, ListVersions, PickLatest, ReadModel, ReadData, DataMissing,
        CheckName, ReadBeforeUpdate, GotoWrite, WriteConflict, ListModels, Save,
        SaveMissing, ListData, Rollback, RolledBack, IOFailure
<1> QED
  BY <1>1, <1>2 DEF Next, vars, Invoke, Return, Restart

(* On the local storage a file version appears with its model and its data *)
(* together, and neither changes while both are there, however uploads,    *)
(* deletes and rollbacks interleave, with failures and restarts at any     *)
(* point (FileVersionFlatFileRepository over LocalFileStorageService).     *)
THEOREM LocalVersionsAreImmutable == Spec => VersionsAreImmutable
<1>1. IInv /\ [Next]_vars => [storage = "local" => Store!Next]_Visible
  BY NextIsImmutable
<1> QED
  BY <1>1, SpecIInv, PTL DEF Spec, VersionsAreImmutable

(***************************************************************************)
(* The calls that run alone                                                *)
(***************************************************************************)

(* A call that runs alone is the only one, and one that begins has met no  *)
(* failure.                                                                *)
AloneOK(t) ==
  /\ failures[t] \in Nat
  /\ pc[t] = "idle" => alone[t] /\ failures[t] = 0
  /\ pc[t] # "idle" /\ alone[t] => \A u \in Threads \ {t} : pc[u] = "idle"

(* A thread's storage call moves its own thread and stays in its call.     *)
LEMMA StepMoves ==
  ASSUME IInv, NEW t \in Threads, Step(t)
  PROVE  /\ request' = request /\ storage' = storage
         /\ pc[t] # "idle" /\ pc'[t] # "idle"
         /\ \A u \in Threads \ {t} :
              /\ pc'[u] = pc[u] /\ reply'[u] = reply[u]
              /\ target'[u] = target[u] /\ bytes'[u] = bytes[u]
<1>1. /\ pc[t] # "idle"
      /\ (\E label : label # "idle" /\ Goto(t, label)) \/ (\E out : Answer(t, out))
  BY DEF Step, NothingListed, ListVersions, PickLatest, ReadModel, ReadData, DataMissing,
         CheckName, ReadBeforeUpdate, GotoWrite, WriteConflict, NewFile, FillModel,
         FillData, EraseModel, ListModels, Save, SaveMissing, Unlink, ListData, Rollback,
         Restore, RolledBack, DeleteModel, DeleteData, IOFailure, LostAnswer, Catch,
         StorageCalls, AfterData
<1>2. /\ target' = target \/ \E x : target' = [target EXCEPT ![t] = x]
      /\ bytes' = bytes \/ \E x : bytes' = [bytes EXCEPT ![t] = x]
  BY DEF Step, NothingListed, ListVersions, PickLatest, ReadModel, ReadData, DataMissing,
         CheckName, ReadBeforeUpdate, GotoWrite, WriteConflict, NewFile, FillModel,
         FillData, EraseModel, ListModels, Save, SaveMissing, Unlink, ListData, Rollback,
         Restore, RolledBack, DeleteModel, DeleteData, IOFailure, LostAnswer, locals
<1> QED
  BY <1>1, <1>2 DEF Goto, Answer, IInv, ControlOK, DataOK

(* A thread that is idle begins nothing but a call.                        *)
LEMMA CallBegins ==
  ASSUME IInv, NEW t \in Threads, HNext, pc[t] = "idle", pc'[t] # "idle"
  PROVE  \E r \in Requests : Invoke(t, r)
<1>1. \A u \in Threads : ~ Step(u)
  BY StepMoves
<1>2. \A u \in Threads : ~ Return(u)
  BY DEF Return, IInv, ControlOK
<1>3. ~ Restart
  BY DEF Restart
<1>4. \A u \in Threads, r \in Requests : Invoke(u, r) => u = t
  BY DEF Invoke, IInv, ControlOK
<1> QED
  BY <1>1, <1>2, <1>3, <1>4 DEF HNext, Next

(* Only its own storage calls take a call that runs alone further.         *)
LEMMA OwnStep ==
  ASSUME IInv, NEW t \in Threads, AloneOK(t), HNext,
         pc[t] # "idle", pc'[t] # "idle", alone'[t]
  PROVE  /\ Step(t) /\ alone[t]
         /\ before'[t] = before[t] /\ failures'[t] = failures[t] + faults' - faults
<1>1. /\ alone[t] /\ \A u \in Threads \ {t} : pc[u] = "idle" /\ pc'[u] = "idle"
      /\ before'[t] = before[t] /\ failures'[t] = failures[t] + faults' - faults
  BY DEF HNext, Record, Running, Alone, AloneOK
<1>2. ASSUME NEW u \in Threads, Step(u) PROVE Step(t)
  BY <1>1, <1>2, StepMoves
<1>3. \A u \in Threads, r \in Requests : ~ Invoke(u, r)
  <2>1. ASSUME NEW u \in Threads, NEW r \in Requests, Invoke(u, r) PROVE u # t /\ pc'[u] # "idle"
    <3>1. r.op \in AllOps
      BY RequestFields
    <3>2. pc[u] = "idle" /\ pc'[u] = FirstCall(r.op)
      BY <2>1 DEF Invoke, IInv, ControlOK
    <3> QED
      BY <3>1, <3>2 DEF FirstCall, AllOps
  <2> QED
    BY <1>1, <2>1
<1>4. \A u \in Threads : ~ Return(u)
  BY <1>1 DEF Return, IInv, ControlOK
<1>5. ~ Restart
  BY DEF Restart
<1> QED
  BY <1>1, <1>2, <1>3, <1>4, <1>5 DEF HNext, Next

LEMMA FaultsCount ==
  ASSUME IInv, HNext
  PROVE  faults \in Nat /\ faults' \in Nat /\ faults' - faults \in Nat
<1>1. faults' = faults \/ faults' = faults + 1
  BY DEF HNext, Next, Step, Invoke, Return, Restart, NothingListed, ListVersions, PickLatest,
         ReadModel, ReadData, DataMissing, CheckName, ReadBeforeUpdate, WriteConflict,
         NewFile, FillModel, FillData, EraseModel, ListModels, Save, SaveMissing, Unlink,
         ListData, Rollback, Restore, RolledBack, DeleteModel, DeleteData, IOFailure,
         LostAnswer
<1>2. faults \in Nat
  BY FileConstantsAssumption DEF IInv, DataOK
<1> QED
  BY <1>1, <1>2

LEMMA AloneStep ==
  ASSUME IInv, NEW t \in Threads, AloneOK(t), HNext
  PROVE  AloneOK(t)'
<1>1. failures'[t] = IF Alone(t) THEN failures[t] + (faults' - faults) ELSE 0
  BY FaultsCount DEF HNext, Record, AloneOK
<1>2. failures'[t] \in Nat
  BY <1>1, FaultsCount DEF AloneOK
<1>3. /\ alone'[t] <=> (Running(t) => Alone(t))
      /\ pc'[t] = "idle" => failures'[t] = 0
  BY <1>1 DEF HNext, Record, Alone, Running
<1> QED
  BY <1>2, <1>3 DEF AloneOK, Alone, Running

(***************************************************************************)
(* Where no file is written over, the repository implements the store      *)
(***************************************************************************)

(* The local storage creates a file in one step.  S3 looks for the object  *)
(* and then puts it, so that there it takes one request at a time.         *)
NoRace == Storages \subseteq {"local"} \/ \A t, u \in Threads : t = u

(* An object that is about to be put is not there.                         *)
PutOK ==
  storage = "s3" => \A t \in Threads : pc[t] = "fill" => files[target[t]] = Absent

LEMMA PutStep ==
  ASSUME NoRace, IInv, PutOK, [Next]_vars
  PROVE  PutOK'
<1>1. storage' = storage /\ storage \in Storages
  BY StepMoves DEF Next, Invoke, Return, Restart, vars, IInv, ControlOK
<1>2. CASE \A t, u \in Threads : t = u
  <2> SUFFICES ASSUME storage = "s3", NEW t \in Threads, pc'[t] = "fill"
               PROVE  files'[target'[t]] = Absent
    BY <1>1 DEF PutOK
  <2>1. ASSUME NEW u \in Threads, Step(u) PROVE NewFile(t)
    <3>1. Step(t) /\ pc \in [Threads -> Labels]
      BY <1>2, <2>1 DEF IInv, ControlOK
    <3>2. ~ ReadData(t)
      BY <3>1 DEF ReadData, AfterData, Goto, Answer
    <3>3. ~ (IOFailure(t) \/ LostAnswer(t))
      BY <3>1 DEF IOFailure, LostAnswer, Catch, Goto, Answer
    <3> QED
      BY <3>1, <3>2, <3>3
      DEF Step, NothingListed, ListVersions, PickLatest, ReadModel, DataMissing, CheckName,
          ReadBeforeUpdate, GotoWrite, WriteConflict, FillModel, FillData, EraseModel,
          ListModels, Save, SaveMissing, Unlink, ListData, Rollback, Restore, RolledBack,
          DeleteModel, DeleteData, Goto, Answer
  <2>2. CASE NewFile(t)
    BY <2>2 DEF NewFile, locals
  <2>3. ASSUME NEW u \in Threads, NEW r \in Requests, Invoke(u, r) PROVE FALSE
    <3>1. FirstCall(r.op) # "fill"
      BY RequestFields DEF FirstCall, AllOps
    <3> QED
      BY <1>2, <2>3, <3>1 DEF Invoke, IInv, ControlOK
  <2>4. ASSUME NEW u \in Threads, Return(u) PROVE FALSE
    BY <1>2, <2>4 DEF Return, IInv, ControlOK
  <2>5. ~ Restart
    BY DEF Restart
  <2>6. CASE UNCHANGED vars
    BY <2>6 DEF vars, locals, PutOK
  <2> QED
    BY <2>1, <2>2, <2>3, <2>4, <2>5, <2>6 DEF Next
<1> QED
  BY <1>1, <1>2 DEF NoRace, PutOK

LEMMA FillIsPublication ==
  ASSUME IInv, PutOK, NEW t \in Threads, pc[t] = "fill", files' = Filled(t)
  PROVE  [Store!Next]_Visible
<1>1. CASE storage = "local"
  BY <1>1, LocalFillIsPublication
<1>2. CASE storage = "s3"
  <2>1. target[t] \in Files /\ files[target[t]] = Absent
    BY <1>2 DEF IInv, KnowledgeOK, Knows, PutOK
  <2>2. files' = [files EXCEPT ![target[t]] = bytes[t]]
    BY <1>2 DEF Filled
  <2> QED
    BY <2>1, <2>2, OneFileChange, FileConstantsAssumption DEF IInv
<1> QED
  BY <1>1, <1>2, FileConstantsAssumption DEF IInv, ControlOK

LEMMA NextImplementsStore ==
  ASSUME IInv, PutOK, [Next]_vars
  PROVE  [Store!Next]_Visible
<1>1. CASE storage = "local"
  BY <1>1, NextIsImmutable
<1>2. CASE storage # "local"
  <2>1. CASE UNCHANGED files
    BY <2>1 DEF Visible
  <2>2. ASSUME NEW t \in Threads, Step(t) PROVE [Store!Next]_Visible
    <3>1. CASE FillModel(t) \/ FillData(t) \/ Restore(t)
      BY <3>1, FillIsPublication DEF FillModel, FillData, Restore
    <3>2. CASE EraseModel(t) \/ Unlink(t) \/ DeleteModel(t) \/ DeleteData(t)
      BY <3>2, RemovalIsRetraction DEF EraseModel, Unlink, DeleteModel, DeleteData, IInv
    <3>3. CASE LostAnswer(t)
      BY <3>3, FillIsPublication, RemovalIsRetraction DEF LostAnswer, IInv
    <3> QED
      BY <1>2, <2>1, <2>2, <3>1, <3>2, <3>3
      DEF Step, NothingListed, ListVersions, PickLatest, ReadModel, ReadData, DataMissing,
          CheckName, ReadBeforeUpdate, GotoWrite, WriteConflict, NewFile, ListModels, Save,
          SaveMissing, ListData, Rollback, RolledBack, IOFailure
  <2> QED
    BY <2>1, <2>2 DEF Next, vars, Invoke, Return, Restart
<1> QED
  BY <1>1, <1>2

(* The repository of file versions implements VersionedStore, with a model *)
(* and its data for the content: on the local storage whatever interleaves *)
(* and fails, on S3 as long as requests do not overlap, lost answers and   *)
(* rollbacks included (FileVersionFlatFileRepository over                  *)
(* LocalFileStorageService and over S3FileStorageService).                 *)
THEOREM FileVersionsImplementStore ==
  ASSUME NoRace
  PROVE  Spec => Store!Spec
<1>1. Init => Store!Init /\ PutOK
  BY FileConstantsAssumption DEF Init, Store!Init, Visible, Artifacts, Files, PutOK
<1>2. IInv /\ PutOK /\ [Next]_vars => PutOK' /\ [Store!Next]_Visible
  BY PutStep, NextImplementsStore
<1> QED
  BY <1>1, <1>2, SpecIInv, PTL DEF Spec, Store!Spec

(***************************************************************************)
(* An acknowledged upload: on the local storage every one, on S3 one that  *)
(* ran alone                                                               *)
(***************************************************************************)

InUpload(t) == pc[t] # "idle" /\ request[t].op \in {"create", "update"}

PairFile(t, kind) == FileOf(t, kind, request[t].version)

Stored(t, kind) ==
  \/ files[PairFile(t, kind)] = request[t].content
  \/ PairFile(t, kind) \in removed[t]

(* An upload fills the file it has created, first the model and then the   *)
(* data, with what the caller sent.                                        *)
UploadOK(t) ==
  InUpload(t) /\ (storage = "local" \/ alone[t]) =>
    /\ pc[t] \in {"write", "fill"} =>
         /\ target[t] \in {PairFile(t, "model"), PairFile(t, "data")}
         /\ bytes[t] = request[t].content
         /\ target[t][1] = "data" => Stored(t, "model")
    /\ pc[t] = "fill" /\ storage = "local" =>
         files[target[t]] = t \/ target[t] \in removed[t]
    /\ pc[t] = "done" /\ reply[t] = "ok" => Stored(t, "model") /\ Stored(t, "data")

HInv ==
  /\ IInv
  /\ \A t \in Threads : AloneOK(t) /\ removed[t] \subseteq Files /\ UploadOK(t)

(* A step leaves a file alone, removes it, creates it where there is none, *)
(* or fills it: on the local storage one that its thread has created.      *)
LEMMA FileChange ==
  ASSUME IInv, NEW t \in Threads, Step(t), NEW f \in Files
  PROVE  \/ files'[f] = files[f]
         \/ files'[f] = Absent
         \/ files[f] = Absent
         \/ files[f] = t
         \/ storage = "s3" /\ pc[t] = "fill" /\ f = target[t]
<1>1. CASE NewFile(t)
  BY <1>1 DEF NewFile, IInv, DataOK
<1>2. CASE FillModel(t) \/ FillData(t) \/ Restore(t)
  BY <1>2 DEF FillModel, FillData, Restore, Filled, IInv, DataOK
<1>3. CASE EraseModel(t) \/ Unlink(t) \/ DeleteModel(t) \/ DeleteData(t)
  BY <1>3 DEF EraseModel, Unlink, DeleteModel, DeleteData, IInv, DataOK
<1>4. CASE UNCHANGED files
  BY <1>4
<1>5. CASE LostAnswer(t)
  <2>1. CASE pc[t] = "fill" /\ files' = Filled(t)
    BY <1>5, <2>1 DEF LostAnswer, Filled, IInv, DataOK
  <2>2. CASE \E g : files' = [files EXCEPT ![g] = Absent]
    BY <2>2 DEF IInv, DataOK
  <2> QED
    BY <1>5, <2>1, <2>2 DEF LostAnswer
<1> QED
  BY <1>1, <1>2, <1>3, <1>4, <1>5
  DEF Step, NothingListed, ListVersions, PickLatest, ReadModel, ReadData, DataMissing,
      CheckName, ReadBeforeUpdate, GotoWrite, WriteConflict, ListModels, Save,
      SaveMissing, ListData, Rollback, RolledBack, IOFailure

LEMMA RemovedInUpload ==
  ASSUME NEW t \in Threads, Record, InUpload(t)'
  PROVE  removed'[t] = removed[t] \cup (Present \ Present')
  BY DEF Record, Writing, Running, InUpload

LEMMA RemovedAreFiles ==
  ASSUME NEW t \in Threads, Record, removed[t] \subseteq Files
  PROVE  removed'[t] \subseteq Files
  BY DEF Record, Present

(* What has been stored stays stored, until it is removed.                 *)
LEMMA StoredStays ==
  ASSUME IInv, NEW t \in Threads, InUpload(t), InUpload(t)', Record,
         request'[t] = request[t],
         NEW kind \in {"model", "data"}, Stored(t, kind),
         \A f \in Files :
           \/ files'[f] = files[f]
           \/ files'[f] = Absent
           \/ files[f] = Absent
           \/ files[f] \in Threads
           \/ f # PairFile(t, kind)
  PROVE  Stored(t, kind)'
<1>1. request[t] \in Requests
  BY DEF InUpload, IInv, ControlOK
<1>2. PairFile(t, kind) \in Files /\ request[t].content \in Contents
  BY <1>1, RequestFields, FileOfIsFile DEF InUpload, PairFile
<1>3. removed'[t] = removed[t] \cup (Present \ Present') /\ PairFile(t, kind)' = PairFile(t, kind)
  BY RemovedInUpload DEF PairFile, FileOf
<1>4. files[PairFile(t, kind)] = request[t].content =>
        \/ files'[PairFile(t, kind)] = request[t].content
        \/ PairFile(t, kind) \in Present \ Present'
  BY <1>2, FileConstantsAssumption DEF Present
<1> QED
  BY <1>3, <1>4 DEF Stored

(* On the local storage another thread's step changes nothing that an      *)
(* upload relies on.                                                       *)
LEMMA StillUploading ==
  ASSUME IInv, NEW t \in Threads, UploadOK(t), Record,
         storage = "local", storage' = storage,
         pc'[t] = pc[t], request'[t] = request[t], reply'[t] = reply[t],
         target'[t] = target[t], bytes'[t] = bytes[t],
         \A f \in Files :
           \/ files'[f] = files[f]
           \/ files'[f] = Absent
           \/ files[f] = Absent
           \/ files[f] \in Threads \ {t}
  PROVE  UploadOK(t)'
<1> SUFFICES ASSUME InUpload(t)' PROVE UploadOK(t)'
  BY DEF UploadOK
<1>1. InUpload(t)
  BY DEF InUpload
<1>2. \A kind \in {"model", "data"} :
        /\ Stored(t, kind) => Stored(t, kind)'
        /\ PairFile(t, kind)' = PairFile(t, kind)
  BY <1>1, StoredStays DEF PairFile, FileOf
<1>3. ASSUME pc[t] = "fill"
      PROVE  files'[target[t]] = t \/ target[t] \in removed'[t]
  <2>1. target[t] \in Files
    BY <1>3 DEF IInv, KnowledgeOK, Knows
  <2>2. removed'[t] = removed[t] \cup (Present \ Present')
    BY RemovedInUpload
  <2>3. files[target[t]] = t => \/ files'[target[t]] = t
                               \/ target[t] \in Present \ Present'
    BY <2>1, FileConstantsAssumption DEF Present
  <2> QED
    BY <1>1, <1>3, <2>2, <2>3 DEF UploadOK
<1> QED
  BY <1>1, <1>2, <1>3 DEF UploadOK

LEMMA StepUploads ==
  ASSUME HInv, NEW t \in Threads, Step(t), HNext
  PROVE  UploadOK(t)'
<1> USE DEF HInv
<1>0. Record
  BY DEF HNext
<1>1. /\ request' = request /\ storage' = storage
      /\ pc[t] # "idle" /\ pc'[t] # "idle"
      /\ request[t] \in Requests
      /\ Calls(request[t].op, pc[t])
      /\ pc \in [Threads -> Labels] /\ reply \in [Threads -> Outcomes]
      /\ storage \in {"local", "s3"}
  BY StepMoves, FileConstantsAssumption DEF IInv, ControlOK
<1> SUFFICES ASSUME request[t].op \in {"create", "update"}, storage = "local" \/ alone'[t]
             PROVE  UploadOK(t)'
  BY <1>1 DEF UploadOK, InUpload
<1>2. /\ InUpload(t) /\ InUpload(t)' /\ (storage = "local" \/ alone[t])
      /\ removed'[t] = removed[t] \cup (Present \ Present')
      /\ PairFile(t, "model")' = PairFile(t, "model")
      /\ PairFile(t, "data")' = PairFile(t, "data")
  BY <1>0, <1>1, RemovedInUpload, OwnStep DEF InUpload, PairFile, FileOf
<1>3. /\ PairFile(t, "model") \in Files /\ PairFile(t, "model")[1] = "model"
      /\ PairFile(t, "data") \in Files /\ PairFile(t, "data")[1] = "data"
  BY <1>1, RequestFields, FileOfIsFile DEF PairFile, FileOf
<1>4. ASSUME NEW kind \in {"model", "data"}, Stored(t, kind),
             storage = "local" \/ pc[t] # "fill" \/ target[t] # PairFile(t, kind)
      PROVE  Stored(t, kind)'
  <2>1. storage # "s3" \/ pc[t] # "fill" \/ target[t] # PairFile(t, kind)
    BY <1>4
  <2> QED
    BY <1>1, <1>2, <1>4, <2>1, FileChange, StoredStays DEF HNext
<1>5. CASE pc'[t] \notin {"write", "fill", "done"} \/ (pc'[t] = "done" /\ reply'[t] # "ok")
  BY <1>5 DEF UploadOK
<1>6. CASE CheckName(t) \/ ReadBeforeUpdate(t)
  <2>1. CASE GotoWrite(t, "model")
    <3>1. /\ pc'[t] = "write" /\ target'[t] = PairFile(t, "model")
          /\ bytes'[t] = request[t].content
      BY <1>1, <2>1 DEF GotoWrite, Goto, PairFile, IInv, DataOK
    <3> QED
      BY <1>1, <1>2, <1>3, <3>1 DEF UploadOK
  <2>2. CASE Answer(t, "conflict")
    BY <1>1, <1>5, <2>2 DEF Answer
  <2> QED
    BY <1>6, <2>1, <2>2 DEF CheckName, ReadBeforeUpdate
<1>7. CASE NewFile(t)
  <2>1. /\ pc[t] = "write" /\ pc'[t] = "fill"
        /\ target' = target /\ bytes' = bytes
        /\ target[t] \in {PairFile(t, "model"), PairFile(t, "data")}
        /\ bytes[t] = request[t].content
        /\ target[t][1] = "data" => Stored(t, "model")
    BY <1>1, <1>2, <1>7 DEF NewFile, Goto, locals, UploadOK
  <2>2. storage = "local" => files'[target[t]] = t
    BY <1>3, <1>7, <2>1 DEF NewFile, IInv, DataOK
  <2> QED
    BY <1>1, <1>2, <1>4, <2>1, <2>2 DEF UploadOK
<1>8. ASSUME pc[t] = "fill", files' = Filled(t), NEW kind \in {"model", "data"},
             target[t][1] = kind
      PROVE  Stored(t, kind)'
  <2>1. /\ target[t] = PairFile(t, kind) /\ bytes[t] = request[t].content
        /\ storage = "s3" \/ files[target[t]] = t \/ target[t] \in removed[t]
    BY <1>1, <1>2, <1>3, <1>8 DEF UploadOK
  <2>2. storage = "s3" \/ files[target[t]] = t => files'[target[t]] = request[t].content
    BY <1>3, <1>8, <2>1 DEF Filled, IInv, DataOK
  <2> QED
    BY <1>1, <1>2, <2>1, <2>2 DEF Stored
<1>9. CASE FillModel(t)
  <2>1. Stored(t, "model")'
    BY <1>8, <1>9 DEF FillModel
  <2>2. /\ pc'[t] = "write" /\ target'[t] = PairFile(t, "data")
        /\ bytes'[t] = request[t].content
    BY <1>1, <1>9 DEF FillModel, GotoWrite, Goto, PairFile, IInv, DataOK
  <2> QED
    BY <1>1, <1>2, <2>1, <2>2 DEF UploadOK
<1>10. CASE FillData(t)
  <2>1. Stored(t, "data")'
    BY <1>8, <1>10 DEF FillData
  <2>2. Stored(t, "model")'
    BY <1>2, <1>3, <1>4, <1>10 DEF FillData, UploadOK
  <2>3. pc'[t] = "done"
    BY <1>1, <1>10 DEF FillData, Answer
  <2> QED
    BY <2>1, <2>2, <2>3 DEF UploadOK
<1>11. CASE \/ NothingListed(t) \/ DataMissing(t) \/ WriteConflict(t) \/ EraseModel(t)
            \/ ReadModel(t)
  <2>1. Goto(t, "readData") \/ \E out \in Outcomes \ {"ok"} : Answer(t, out)
    BY <1>11
    DEF NothingListed, DataMissing, WriteConflict, EraseModel, ReadModel, Outcomes
  <2> QED
    BY <1>1, <1>5, <2>1 DEF Goto, Answer
<1>12. CASE PickLatest(t)
  BY <1>1, <1>5, <1>12 DEF PickLatest, Goto
<1>13. CASE IOFailure(t)
  <2>1. \/ Goto(t, "rollback") \/ Goto(t, "eraseModel")
        \/ Answer(t, "conflict") \/ Answer(t, "error")
    BY <1>13 DEF IOFailure, Catch
  <2> QED
    BY <1>1, <1>5, <2>1 DEF Goto, Answer
<1>14. CASE LostAnswer(t)
  <2>1. \/ Goto(t, "rollback") \/ Goto(t, "eraseModel")
        \/ Answer(t, "conflict") \/ Answer(t, "error")
    BY <1>14 DEF LostAnswer, Catch
  <2> QED
    BY <1>1, <1>5, <2>1 DEF Goto, Answer
<1>15. ~ (ListVersions(t) \/ ReadData(t))
  <2>1. ~ ListVersions(t)
    BY DEF ListVersions
  <2>2. ~ ReadData(t)
    BY <1>1 DEF ReadData, Calls
  <2> QED
    BY <2>1, <2>2
<1>16. ~ (\/ ListModels(t) \/ Save(t) \/ SaveMissing(t) \/ Unlink(t) \/ ListData(t)
         \/ Rollback(t) \/ Restore(t) \/ RolledBack(t) \/ DeleteModel(t) \/ DeleteData(t))
  BY <1>1
  DEF Calls, ListModels, Save, SaveMissing, Unlink, ListData, Rollback, Restore,
      RolledBack, DeleteModel, DeleteData
<1> QED
  BY <1>6, <1>7, <1>9, <1>10, <1>11, <1>12, <1>13, <1>14, <1>15, <1>16 DEF Step

LEMMA HInvStep == HInv /\ [HNext]_<<vars, history>> => HInv'
<1> SUFFICES ASSUME HInv, [HNext]_<<vars, history>> PROVE HInv'
  OBVIOUS
<1> USE DEF HInv
<1>1. IInv'
  BY NextIInv DEF HNext
<1>2. CASE UNCHANGED <<vars, history>>
  BY <1>1, <1>2
  DEF vars, locals, history, UploadOK, InUpload, Stored, PairFile, FileOf, AloneOK
<1>3. ASSUME HNext PROVE HInv'
  <2> USE <1>3 DEF HNext
  <2>1. storage' = storage
    BY StepMoves DEF Next, Invoke, Return, Restart
  <2>2. ASSUME NEW u \in Threads, NEW r \in Requests, Invoke(u, r) PROVE UploadOK(u)'
    <3>1. FirstCall(r.op) \notin {"write", "fill", "done"}
      BY RequestFields DEF FirstCall, AllOps
    <3> QED
      BY <2>2, <3>1 DEF Invoke, UploadOK, InUpload, IInv, ControlOK
  <2>3. ASSUME NEW u \in Threads, storage = "local" PROVE UploadOK(u)'
    <3>1. ASSUME NEW t \in Threads, Step(t) PROVE UploadOK(u)'
      <4>1. CASE u = t
        BY <3>1, <4>1, StepUploads
      <4>2. CASE u # t
        <5>1. \A f \in Files : \/ files'[f] = files[f]
                               \/ files'[f] = Absent
                               \/ files[f] = Absent
                               \/ files[f] \in Threads \ {u}
          BY <2>3, <3>1, <4>2, FileChange
        <5> QED
          BY <2>1, <2>3, <3>1, <4>2, <5>1, StepMoves, StillUploading
      <4> QED
        BY <4>1, <4>2
    <3>2. ASSUME NEW t \in Threads, NEW r \in Requests, Invoke(t, r) PROVE UploadOK(u)'
      <4>1. CASE u # t
        BY <2>1, <2>3, <3>2, <4>1, StillUploading DEF Invoke, locals, IInv, ControlOK
      <4> QED
        BY <2>2, <3>2, <4>1
    <3>3. ASSUME NEW t \in Threads, Return(t) PROVE UploadOK(u)'
      <4>1. CASE u = t
        BY <3>3, <4>1 DEF Return, UploadOK, InUpload, IInv, ControlOK
      <4>2. CASE u # t
        BY <2>1, <2>3, <3>3, <4>2, StillUploading DEF Return, IInv, ControlOK, DataOK
      <4> QED
        BY <4>1, <4>2
    <3>4. CASE Restart
      BY <3>4 DEF Restart, UploadOK, InUpload
    <3> QED
      BY <3>1, <3>2, <3>3, <3>4 DEF Next
  <2>4. ASSUME NEW u \in Threads, storage # "local" PROVE UploadOK(u)'
    <3>1. CASE pc'[u] = "idle" \/ ~alone'[u]
      BY <2>1, <2>4, <3>1 DEF UploadOK, InUpload
    <3>2. CASE pc'[u] # "idle" /\ pc[u] = "idle"
      BY <2>2, <3>2, CallBegins
    <3>3. CASE pc'[u] # "idle" /\ pc[u] # "idle" /\ alone'[u]
      BY <3>3, OwnStep, StepUploads
    <3> QED
      BY <3>1, <3>2, <3>3
  <2>5. \A u \in Threads : AloneOK(u)' /\ removed'[u] \subseteq Files
    BY AloneStep, RemovedAreFiles
  <2> QED
    BY <1>1, <2>3, <2>4, <2>5
<1> QED
  BY <1>2, <1>3

(* An acknowledged create or update has stored both the model and the data *)
(* that the caller sent, except what was deleted during the call: on the   *)
(* local storage however uploads, deletes, rollbacks and failures          *)
(* interleave, on S3 when the call ran alone                               *)
(* (FileVersionFlatFileRepository.create and update).                      *)
THEOREM AckedPairsAreStored == HSpec => []AckedPairIsStored
<1>1. HInit => HInv
  BY InitIInv DEF HInit, Init, HInv, AloneOK, UploadOK, InUpload
<1>2. HInv => AckedPairIsStored
  <2> SUFFICES ASSUME HInv, NEW t \in Threads, Ended(t, {"create", "update"}, {"ok"}),
                      storage = "local" \/ alone[t],
                      NEW kind \in {"model", "data"}
               PROVE  Stored(t, kind)
    BY DEF AckedPairIsStored, Stored, PairFile
  <2> QED
    BY DEF HInv, UploadOK, InUpload, Ended
<1> QED
  BY <1>1, <1>2, HInvStep, PTL DEF HSpec

(***************************************************************************)
(* A delete of a name that runs alone, on the local storage                *)
(***************************************************************************)

InDelete(t) ==
  /\ storage = "local" /\ alone[t] /\ failures[t] <= 1
  /\ pc[t] # "idle" /\ request[t].op = "delete"

(* The files of t's name that a listing finds.                             *)
OfName(t, kind) == ListedFor(kind, request[t].name)

HasListed(t, kind) == listed[t] = OfName(t, kind) /\ listed[t] # {}

(* With the bytes that t has kept, every file can be made what it was when *)
(* the call began, and none of those files is there.                       *)
Undoable(t) ==
  /\ \A f \in Files :
       BytesOf(f) = before[t][f] \/ <<f, before[t][f]>> \in erased[t]
  /\ \A saved \in erased[t] :
       /\ saved[2] = before[t][saved[1]]
       /\ files[saved[1]] = Absent \/ (pc[t] = "fill" /\ saved[1] = target[t])

(* Nothing fails, and the models go before the data.                       *)
ErasesOK(t) ==
  /\ pc[t] \in {"listModels", "list", "readModel", "readData", "readAgain"} =>
       erased[t] = {} /\ failures[t] = 0
  /\ pc[t] \in {"list", "readModel", "readData", "readAgain"} => HasListed(t, "model")
  /\ pc[t] = "readAgain" => OfName(t, "data") # {}
  /\ pc[t] \in {"save", "unlink"} =>
       /\ failures[t] = 0
       /\ \/ HasListed(t, "model") /\ OfName(t, "data") # {}
          \/ HasListed(t, "data") /\ OfName(t, "model") = {}
  /\ pc[t] = "unlink" => target[t] \in listed[t] /\ bytes[t] = BytesOf(target[t])
  /\ pc[t] = "listData" =>
       failures[t] = 0 /\ OfName(t, "model") = {} /\ OfName(t, "data") # {}

(* The failure that a rollback undoes is the only one.                     *)
RestoresOK(t) ==
  /\ pc[t] \in {"rollback", "write", "fill"} => failures[t] = 1
  /\ pc[t] \in {"write", "fill"} => <<target[t], bytes[t]>> \in erased[t]
  /\ pc[t] = "fill" => files[target[t]] = t
  /\ pc[t] = "done" =>
       IF reply[t] = "ok" THEN OfName(t, "model") = {} /\ OfName(t, "data") = {}
                          ELSE erased[t] = {}

DeleteOK(t) == InDelete(t) => Undoable(t) /\ ErasesOK(t) /\ RestoresOK(t)

(* What is kept is kept for one call, and what is remembered is all files. *)
Remembers(t) ==
  /\ pc[t] = "idle" => erased[t] = {}
  /\ before[t] = [f \in Files |-> before[t][f]]

DeleteInv ==
  /\ IInv
  /\ \A t \in Threads : AloneOK(t) /\ Remembers(t) /\ DeleteOK(t)

LEMMA RemembersStep ==
  ASSUME IInv, NEW t \in Threads, Remembers(t), HNext
  PROVE  Remembers(t)'
<1>0. before'[t] = [f \in Files |-> before'[t][f]]
  BY DEF HNext, Record, Remembers, AllAbsent, Bytes
<1> SUFFICES ASSUME pc'[t] = "idle" PROVE erased'[t] = {}
  BY <1>0 DEF Remembers
<1>1. ASSUME NEW u \in Threads, Step(u) PROVE erased'[t] = {}
  <2>1. pc[t] = "idle" /\ u # t
    BY <1>1, StepMoves
  <2>2. erased' = erased \/ \E x : erased' = [erased EXCEPT ![u] = x]
    BY <1>1
    DEF Step, NothingListed, ListVersions, PickLatest, ReadModel, ReadData, DataMissing,
        CheckName, ReadBeforeUpdate, GotoWrite, WriteConflict, NewFile, FillModel,
        FillData, EraseModel, ListModels, Save, SaveMissing, Unlink, ListData, Rollback,
        Restore, RolledBack, DeleteModel, DeleteData, IOFailure, LostAnswer, locals
  <2> QED
    BY <2>1, <2>2 DEF IInv, DataOK, Remembers
<1>2. ASSUME NEW u \in Threads, NEW r \in Requests, Invoke(u, r) PROVE erased'[t] = {}
  <2>1. FirstCall(r.op) # "idle"
    BY RequestFields DEF FirstCall, AllOps
  <2> QED
    BY <1>2, <2>1 DEF Invoke, locals, IInv, ControlOK, Remembers
<1>3. ASSUME NEW u \in Threads, Return(u) PROVE erased'[t] = {}
  BY <1>3 DEF Return, IInv, ControlOK, DataOK, Remembers
<1>4. CASE Restart
  BY <1>4 DEF Restart
<1> QED
  BY <1>1, <1>2, <1>3, <1>4 DEF HNext, Next

(***************************************************************************)
(* The invariant is kept by the call itself, whose steps are the only ones *)
(***************************************************************************)

LEMMA DeleteBegins ==
  ASSUME DeleteInv, NEW t \in Threads, NEW r \in Requests, Invoke(t, r), HNext, InDelete(t)'
  PROVE  DeleteOK(t)'
<1>1. /\ pc[t] = "idle" /\ pc'[t] = FirstCall(r.op) /\ request'[t] = r
      /\ files' = files /\ faults' = faults /\ erased' = erased /\ erased[t] = {}
  BY DEF Invoke, locals, DeleteInv, Remembers, IInv, ControlOK
<1>2. r.op = "delete" /\ pc'[t] = "listModels"
  BY <1>1 DEF InDelete, FirstCall
<1>3. /\ alone[t] /\ Alone(t) /\ failures[t] = 0
      /\ before'[t] = Bytes /\ failures'[t] = failures[t] + faults' - faults
  BY <1>1, <1>2 DEF HNext, Record, InDelete, Running, DeleteInv, AloneOK
<1>4. failures'[t] = 0
  BY <1>1, <1>3, FileConstantsAssumption DEF DeleteInv, IInv, DataOK
<1>5. Undoable(t)'
  BY <1>1, <1>3 DEF Undoable, Bytes, BytesOf
<1> QED
  BY <1>1, <1>2, <1>4, <1>5 DEF DeleteOK, ErasesOK, RestoresOK

LEMMA DeleteGoesOn ==
  ASSUME DeleteInv, NEW t \in Threads, Step(t), HNext, InDelete(t)'
  PROVE  /\ Undoable(t) /\ ErasesOK(t) /\ RestoresOK(t)
         /\ storage = "local" /\ request' = request
         /\ request[t] \in Requests /\ request[t].name \in Names
         /\ request[t].op = "delete" /\ Calls("delete", pc[t])
         /\ before'[t] = before[t] /\ failures'[t] = failures[t] + (faults' - faults)
         /\ failures[t] \in Nat /\ failures'[t] <= 1
<1>1. /\ request' = request /\ storage' = storage /\ pc[t] # "idle" /\ pc'[t] # "idle"
      /\ alone[t] /\ before'[t] = before[t]
      /\ failures'[t] = failures[t] + faults' - faults
  BY StepMoves, OwnStep DEF DeleteInv, InDelete
<1>2. failures[t] \in Nat /\ failures'[t] = failures[t] + (faults' - faults)
  BY <1>1, FaultsCount DEF DeleteInv, AloneOK
<1>3. failures'[t] <= 1 /\ failures[t] <= 1
  BY <1>2, FaultsCount DEF InDelete, DeleteInv
<1>4. InDelete(t)
  BY <1>1, <1>3 DEF InDelete
<1> QED
  BY <1>1, <1>2, <1>3, <1>4, RequestFields
  DEF DeleteInv, DeleteOK, InDelete, IInv, ControlOK

(* What can be undone can be undone as long as neither the files nor what  *)
(* has been kept change.                                                   *)
LEMMA UndoableStays ==
  ASSUME NEW t \in Threads, Undoable(t), pc[t] # "fill",
         files' = files, erased'[t] = erased[t], before'[t] = before[t]
  PROVE  Undoable(t)'
  BY DEF Undoable, BytesOf

(* A step that only reads the storage.                                     *)
LEMMA DeleteReads ==
  ASSUME DeleteInv, NEW t \in Threads, Step(t), HNext, InDelete(t)',
         \/ ListModels(t) \/ NothingListed(t) \/ PickLatest(t) \/ ReadModel(t)
         \/ ReadData(t) \/ DataMissing(t)
  PROVE  DeleteOK(t)'
<1>1. /\ Undoable(t) /\ ErasesOK(t) /\ request' = request
      /\ request[t] \in Requests /\ request[t].op = "delete"
      /\ before'[t] = before[t] /\ failures'[t] = failures[t] + (faults' - faults)
      /\ failures[t] \in Nat /\ pc \in [Threads -> Labels] /\ reply \in [Threads -> Outcomes]
      /\ listed \in [Threads -> SUBSET Files]
  BY DeleteGoesOn DEF DeleteInv, IInv, ControlOK, DataOK
<1>2. /\ pc[t] \in {"listModels", "list", "readModel", "readData", "readAgain"}
      /\ UNCHANGED <<files, faults, erased>>
      /\ erased[t] = {} /\ failures[t] = 0
  BY <1>1 DEF ListModels, NothingListed, PickLatest, ReadModel, ReadData, DataMissing,
              locals, ErasesOK
<1>3. failures'[t] = 0
  BY <1>1, <1>2, FileConstantsAssumption DEF DeleteInv, IInv, DataOK
<1>4. Undoable(t)' /\ erased'[t] = {}
  BY <1>1, <1>2, UndoableStays
<1>5. \A kind : OfName(t, kind)' = OfName(t, kind)
  BY <1>1, <1>2 DEF OfName, ListedFor
<1>6. ASSUME NEW out \in Outcomes \ {"ok"}, Answer(t, out) PROVE DeleteOK(t)'
  BY <1>1, <1>4, <1>6 DEF Answer, DeleteOK, ErasesOK, RestoresOK
<1>7. ASSUME NEW label \in {"list", "readModel", "readData"}, Goto(t, label),
             HasListed(t, "model")'
      PROVE  DeleteOK(t)'
  BY <1>1, <1>3, <1>4, <1>7 DEF Goto, DeleteOK, ErasesOK, RestoresOK
<1>8. CASE ListModels(t)
  <2>1. CASE OfName(t, "model") = {}
    BY <1>6, <1>8, <2>1 DEF ListModels, OfName, Outcomes
  <2>2. CASE OfName(t, "model") # {}
    <3>1. HasListed(t, "model")'
      BY <1>1, <1>5, <1>8, <2>2 DEF ListModels, OfName, HasListed
    <3> QED
      BY <1>7, <1>8, <2>2, <3>1 DEF ListModels, OfName
  <2> QED
    BY <2>1, <2>2
<1>9. CASE listed' = listed
  <2>1. pc[t] # "listModels" => HasListed(t, "model")'
    BY <1>1, <1>2, <1>5, <1>9 DEF ErasesOK, HasListed
  <2>2. CASE NothingListed(t) \/ DataMissing(t)
    BY <1>1, <1>6, <2>2 DEF NothingListed, DataMissing, Outcomes
  <2>3. CASE PickLatest(t)
    BY <1>7, <2>1, <2>3 DEF PickLatest
  <2>4. CASE ReadModel(t)
    <3>1. /\ pc[t] = "readModel"
          /\ Goto(t, "readData") \/ Answer(t, "error") \/ Answer(t, "absent")
      BY <2>4 DEF ReadModel
    <3> QED
      BY <1>6, <1>7, <2>1, <3>1 DEF Outcomes
  <2>5. CASE ReadData(t)
    <3> DEFINE data == FileOf(t, "data", VersionRead(t))
    <3>1. data \in OfName(t, "data")
      <4>1. VersionRead(t) \in Versions
        BY <2>5 DEF ReadData, DeleteInv, IInv, KnowledgeOK, Knows
      <4>2. data \in Files /\ request[t].name \in Names
        BY <1>1, <4>1, FileOfIsFile, RequestFields
      <4>3. data[1] = "data" /\ data[2] = request[t].name /\ files[data] # Absent
        BY <2>5 DEF ReadData, FileOf
      <4> QED
        BY <4>2, <4>3, FileConstantsAssumption DEF OfName, ListedFor
    <3>2. AfterData(pc[t], request[t].op) \in {"readAgain", "save"}
      BY <1>1, <2>5 DEF ReadData, AfterData
    <3>3. pc'[t] \in {"readAgain", "save"}
      BY <1>1, <2>5, <3>2 DEF ReadData, Goto
    <3>4. OfName(t, "data")' # {} /\ HasListed(t, "model")'
      BY <1>5, <2>1, <2>5, <3>1 DEF ReadData
    <3> QED
      BY <1>3, <1>4, <3>3, <3>4 DEF DeleteOK, ErasesOK, RestoresOK
  <2>6. CASE ListModels(t)
    BY <1>8, <2>6
  <2> QED
    BY <2>2, <2>3, <2>4, <2>5, <2>6
<1> QED
  BY <1>8, <1>9
  DEF NothingListed, PickLatest, ReadModel, ReadData, DataMissing, locals

(* A step that erases: a file is kept before it is unlinked, and none that *)
(* is listed can be gone.                                                  *)
LEMMA DeleteErases ==
  ASSUME DeleteInv, NEW t \in Threads, Step(t), HNext, InDelete(t)',
         Save(t) \/ SaveMissing(t) \/ Unlink(t) \/ ListData(t)
  PROVE  DeleteOK(t)'
<1>1. /\ Undoable(t) /\ ErasesOK(t) /\ request' = request
      /\ before'[t] = before[t] /\ failures'[t] = failures[t] + (faults' - faults)
      /\ failures[t] \in Nat /\ pc \in [Threads -> Labels] /\ reply \in [Threads -> Outcomes]
      /\ listed \in [Threads -> SUBSET Files] /\ DataOK
  BY DeleteGoesOn DEF DeleteInv, IInv, ControlOK, DataOK
<1>2. pc[t] \in {"save", "unlink", "listData"} /\ failures[t] = 0 /\ faults' = faults
  BY <1>1 DEF Save, SaveMissing, Unlink, ListData, locals, ErasesOK
<1>3. failures'[t] = 0
  BY <1>1, <1>2, FileConstantsAssumption DEF DataOK
<1>4. CASE Save(t)
  <2>1. PICK f \in listed[t] :
          /\ target' = [target EXCEPT ![t] = f]
          /\ bytes' = [bytes EXCEPT ![t] = BytesOf(f)]
    BY <1>4 DEF Save
  <2>2. /\ pc[t] = "save" /\ pc'[t] = "unlink"
        /\ UNCHANGED <<files, listed, erased>>
        /\ target'[t] = f /\ bytes'[t] = BytesOf(f)'
    BY <1>1, <1>4, <2>1 DEF Save, Goto, DataOK, BytesOf
  <2>3. Undoable(t)'
    BY <1>1, <2>2, UndoableStays
  <2>4. \A kind : /\ OfName(t, kind)' = OfName(t, kind)
                  /\ HasListed(t, kind) => HasListed(t, kind)'
    BY <1>1, <2>2 DEF OfName, ListedFor, HasListed
  <2> QED
    BY <1>1, <1>3, <2>1, <2>2, <2>3, <2>4 DEF DeleteOK, ErasesOK, RestoresOK
<1>5. ~ SaveMissing(t)
  BY <1>1 DEF SaveMissing, ErasesOK, HasListed, OfName, ListedFor
<1>6. CASE Unlink(t)
  <2> DEFINE f == target[t]
  <2>1. /\ f \in listed[t] /\ f \in Files
        /\ bytes[t] = BytesOf(f) /\ bytes[t] \in ByteStates \ {Absent}
        /\ pc[t] = "unlink" /\ target' = target /\ bytes' = bytes
        /\ \/ HasListed(t, "model") /\ OfName(t, "data") # {}
           \/ HasListed(t, "data") /\ OfName(t, "model") = {}
    BY <1>1, <1>6 DEF Unlink, ErasesOK, DeleteInv, IInv, KnowledgeOK, Knows
  <2>2. /\ files' = [files EXCEPT ![f] = Absent]
        /\ erased'[t] = erased[t] \cup {<<f, bytes[t]>>}
        /\ listed'[t] = listed[t] \ {f}
    BY <1>1, <1>6 DEF Unlink, DataOK
  <2>3. files[f] # Absent
    BY <2>1 DEF HasListed, OfName, ListedFor
  <2>4. before[t][f] = bytes[t]
    BY <1>1, <2>1, <2>3 DEF Undoable
  <2>5. Undoable(t)'
    <3>1. \A g \in Files :
            BytesOf(g)' = before'[t][g] \/ <<g, before'[t][g]>> \in erased'[t]
      BY <1>1, <2>1, <2>2, <2>4 DEF Undoable, BytesOf, DataOK
    <3>2. \A saved \in erased'[t] :
            saved[2] = before'[t][saved[1]] /\ files'[saved[1]] = Absent
      BY <1>1, <2>1, <2>2, <2>4 DEF Undoable, DataOK
    <3> QED
      BY <3>1, <3>2 DEF Undoable
  <2>6. \A kind : OfName(t, kind)' = OfName(t, kind) \ {f}
    BY <1>1, <2>1, <2>2 DEF OfName, ListedFor, DataOK
  <2>7. f[1] \in {"model", "data"} /\ \A kind : f \in OfName(t, kind) => f[1] = kind
    BY <2>1 DEF OfName, ListedFor, Files
  <2>8. CASE listed[t] # {f}
    <3>1. pc'[t] = "save"
      BY <1>1, <1>6, <2>8 DEF Unlink, Goto
    <3>2. \/ HasListed(t, "model")' /\ OfName(t, "data")' # {}
          \/ HasListed(t, "data")' /\ OfName(t, "model")' = {}
      BY <2>1, <2>2, <2>6, <2>7, <2>8 DEF HasListed
    <3> QED
      BY <1>3, <2>5, <3>1, <3>2 DEF DeleteOK, ErasesOK, RestoresOK
  <2>9. CASE listed[t] = {f} /\ f[1] = "model"
    <3>1. pc'[t] = "listData"
      BY <1>1, <1>6, <2>9 DEF Unlink, Goto
    <3>2. HasListed(t, "model") /\ OfName(t, "data") # {}
      BY <2>1, <2>7, <2>9 DEF HasListed
    <3>3. OfName(t, "model")' = {} /\ OfName(t, "data")' # {}
      BY <2>6, <2>7, <2>9, <3>2 DEF HasListed
    <3> QED
      BY <1>3, <2>5, <3>1, <3>3 DEF DeleteOK, ErasesOK, RestoresOK
  <2>10. CASE listed[t] = {f} /\ f[1] # "model"
    <3>1. pc'[t] = "done" /\ reply'[t] = "ok"
      BY <1>1, <1>6, <2>10 DEF Unlink, Answer
    <3>2. HasListed(t, "data") /\ OfName(t, "model") = {}
      BY <2>1, <2>7, <2>10 DEF HasListed
    <3>3. OfName(t, "model")' = {} /\ OfName(t, "data")' = {}
      BY <2>6, <2>10, <3>2 DEF HasListed
    <3> QED
      BY <2>5, <3>1, <3>3 DEF DeleteOK, ErasesOK, RestoresOK
  <2> QED
    BY <2>8, <2>9, <2>10
<1>7. CASE ListData(t)
  <2>1. /\ pc[t] = "listData" /\ OfName(t, "model") = {} /\ OfName(t, "data") # {}
        /\ UNCHANGED <<files, erased>>
    BY <1>1, <1>7 DEF ListData, ErasesOK
  <2>2. pc'[t] = "save" /\ listed'[t] = OfName(t, "data")
    BY <1>1, <1>7, <2>1 DEF ListData, Goto, OfName
  <2>3. \A kind : OfName(t, kind)' = OfName(t, kind)
    BY <1>1, <2>1 DEF OfName, ListedFor
  <2>4. HasListed(t, "data")' /\ OfName(t, "model")' = {}
    BY <2>1, <2>2, <2>3 DEF HasListed
  <2>5. Undoable(t)'
    BY <1>1, <2>1, UndoableStays
  <2> QED
    BY <1>3, <2>2, <2>4, <2>5 DEF DeleteOK, ErasesOK, RestoresOK
<1> QED
  BY <1>4, <1>5, <1>6, <1>7

(* A step that restores: with no second failure every file kept is written *)
(* again, to a name that nothing has taken.                                *)
LEMMA DeleteRestores ==
  ASSUME DeleteInv, NEW t \in Threads, Step(t), HNext, InDelete(t)',
         \/ Rollback(t) \/ WriteConflict(t) \/ NewFile(t) \/ Restore(t) \/ RolledBack(t)
  PROVE  DeleteOK(t)'
<1>1. /\ Undoable(t) /\ RestoresOK(t) /\ request' = request /\ storage = "local"
      /\ before'[t] = before[t] /\ failures'[t] = failures[t] + (faults' - faults)
      /\ failures[t] \in Nat /\ pc \in [Threads -> Labels] /\ reply \in [Threads -> Outcomes]
      /\ DataOK
  BY DeleteGoesOn DEF DeleteInv, IInv, ControlOK
<1>2. pc[t] \in {"rollback", "write", "fill"} /\ failures[t] = 1 /\ faults' = faults
  BY <1>1 DEF Rollback, WriteConflict, NewFile, Restore, RolledBack, RestoresOK
<1>3. failures'[t] = 1
  BY <1>1, <1>2, FileConstantsAssumption DEF DataOK
<1>4. CASE Rollback(t)
  <2>1. PICK saved \in erased[t] :
          /\ target' = [target EXCEPT ![t] = saved[1]]
          /\ bytes' = [bytes EXCEPT ![t] = saved[2]]
    BY <1>4 DEF Rollback
  <2>2. /\ pc[t] = "rollback" /\ pc'[t] = "write" /\ UNCHANGED <<files, erased>>
        /\ target'[t] = saved[1] /\ bytes'[t] = saved[2]
        /\ saved = <<saved[1], saved[2]>>
    BY <1>1, <1>4, <2>1 DEF Rollback, Goto, DataOK
  <2>3. Undoable(t)'
    BY <1>1, <2>2, UndoableStays
  <2> QED
    BY <1>3, <2>1, <2>2, <2>3 DEF DeleteOK, ErasesOK, RestoresOK
<1>5. ASSUME pc[t] \in {"write", "fill"}
      PROVE  /\ <<target[t], bytes[t]>> \in erased[t]
             /\ target[t] \in Files /\ bytes[t] = before[t][target[t]]
             /\ bytes[t] \in ByteStates \ {Absent}
             /\ pc[t] = "write" => files[target[t]] = Absent
  BY <1>1, <1>5 DEF RestoresOK, Undoable, DeleteInv, IInv, KnowledgeOK, Knows
<1>6. ~ WriteConflict(t)
  BY <1>5 DEF WriteConflict
<1>7. CASE NewFile(t)
  <2>1. /\ pc[t] = "write" /\ pc'[t] = "fill" /\ UNCHANGED <<target, bytes, erased>>
        /\ files' = [files EXCEPT ![target[t]] = t]
    BY <1>1, <1>7 DEF NewFile, Goto, locals
  <2>2. Undoable(t)'
    BY <1>1, <1>5, <2>1 DEF Undoable, BytesOf, DataOK
  <2>3. files'[target'[t]] = t
    BY <1>1, <1>5, <2>1 DEF DataOK
  <2> QED
    BY <1>3, <1>5, <2>1, <2>2, <2>3 DEF DeleteOK, ErasesOK, RestoresOK
<1>8. CASE Restore(t)
  <2>0. PICK f \in Files : f = target[t]
    BY <1>5, <1>8 DEF Restore
  <2>1. /\ pc[t] = "fill" /\ pc'[t] = "rollback" /\ files[f] = t
        /\ erased'[t] = erased[t] \ {<<f, bytes[t]>>}
        /\ <<f, bytes[t]>> \in erased[t] /\ bytes[t] = before[t][f]
    BY <1>1, <1>5, <1>8, <2>0 DEF Restore, Goto, DataOK, RestoresOK
  <2>2. files' = [files EXCEPT ![f] = bytes[t]]
    BY <1>1, <1>5, <1>8, <2>0, <2>1 DEF Restore, Filled, DataOK
  <2>3. BytesOf(f)' = before[t][f]
    <3>1. files'[f] = bytes[t]
      BY <1>1, <2>2 DEF DataOK
    <3>2. bytes[t] \notin Threads
      BY <1>5, <2>1, FileConstantsAssumption DEF ByteStates
    <3> QED
      BY <2>1, <3>1, <3>2 DEF BytesOf
  <2>4. \A g \in Files :
          BytesOf(g)' = before'[t][g] \/ <<g, before'[t][g]>> \in erased'[t]
    <3>1. ASSUME NEW g \in Files, g # f
          PROVE  BytesOf(g)' = before'[t][g] \/ <<g, before'[t][g]>> \in erased'[t]
      <4>1. BytesOf(g)' = BytesOf(g)
        BY <1>1, <2>2, <3>1 DEF BytesOf, DataOK
      <4>2. BytesOf(g) = before[t][g] \/ <<g, before[t][g]>> \in erased[t]
        BY <1>1 DEF Undoable
      <4> QED
        BY <1>1, <2>1, <3>1, <4>1, <4>2
    <3> QED
      BY <1>1, <2>3, <3>1
  <2>5. ASSUME NEW saved \in erased'[t]
        PROVE  saved[2] = before'[t][saved[1]] /\ files'[saved[1]] = Absent
    <3>1. saved \in erased[t] /\ saved # <<f, bytes[t]>> /\ saved = <<saved[1], saved[2]>>
      BY <1>1, <2>1 DEF DataOK
    <3>2. saved[2] = before[t][saved[1]] /\ saved[1] # f
      BY <1>1, <2>1, <3>1 DEF Undoable
    <3> QED
      BY <1>1, <2>0, <2>2, <3>1, <3>2 DEF Undoable, DataOK
  <2> QED
    BY <1>3, <2>1, <2>4, <2>5 DEF DeleteOK, Undoable, ErasesOK, RestoresOK
<1>9. CASE RolledBack(t)
  <2>1. /\ pc[t] = "rollback" /\ pc'[t] = "done" /\ reply'[t] = "error"
        /\ UNCHANGED <<files, erased>> /\ erased[t] = {}
    BY <1>1, <1>9 DEF RolledBack, Answer, locals
  <2> QED
    BY <1>1, <2>1, UndoableStays DEF DeleteOK, ErasesOK, RestoresOK
<1> QED
  BY <1>4, <1>6, <1>7, <1>8, <1>9

(* The one failure sends an erasing delete to its rollback, and one that   *)
(* has erased nothing to its end.                                          *)
LEMMA DeleteFails ==
  ASSUME DeleteInv, NEW t \in Threads, Step(t), HNext, InDelete(t)', IOFailure(t)
  PROVE  DeleteOK(t)'
<1>1. /\ Undoable(t) /\ ErasesOK(t) /\ RestoresOK(t) /\ request' = request
      /\ request[t].op = "delete" /\ Calls("delete", pc[t])
      /\ before'[t] = before[t] /\ failures'[t] = failures[t] + (faults' - faults)
      /\ failures[t] \in Nat /\ failures'[t] <= 1
      /\ pc \in [Threads -> Labels] /\ reply \in [Threads -> Outcomes]
      /\ storage = "local"
  BY DeleteGoesOn DEF DeleteInv, IInv, ControlOK
<1>2. /\ faults' = faults + 1 /\ faults \in Nat /\ UNCHANGED <<files, erased>>
      /\ Catch(t) /\ pc[t] \in StorageCalls
  BY FaultsCount DEF IOFailure, DeleteInv, locals
<1>3. failures[t] = 0 /\ failures'[t] = 1
  BY <1>1, <1>2
<1>4. pc[t] \notin {"rollback", "write", "fill"}
  BY <1>1, <1>3 DEF RestoresOK
<1>5. Undoable(t)'
  BY <1>1, <1>2, <1>4, UndoableStays
<1>6. CASE pc[t] \in {"save", "unlink", "listData"}
  <2>1. pc'[t] = "rollback"
    BY <1>1, <1>2, <1>6 DEF Catch, Goto
  <2> QED
    BY <1>3, <1>5, <2>1 DEF DeleteOK, ErasesOK, RestoresOK
<1>7. CASE pc[t] \notin {"save", "unlink", "listData"}
  <2>1. pc'[t] = "done" /\ reply'[t] = "error"
    BY <1>1, <1>2, <1>4, <1>7 DEF Catch, Answer
  <2>2. erased[t] = {}
    BY <1>1, <1>2, <1>4, <1>7 DEF StorageCalls, Calls, ErasesOK
  <2> QED
    BY <1>2, <1>5, <2>1, <2>2 DEF DeleteOK, ErasesOK, RestoresOK
<1> QED
  BY <1>6, <1>7

LEMMA DeleteSteps ==
  ASSUME DeleteInv, NEW t \in Threads, Step(t), HNext, InDelete(t)'
  PROVE  DeleteOK(t)'
<1>1. request[t].op = "delete" /\ Calls("delete", pc[t]) /\ storage = "local"
  BY DeleteGoesOn
<1>2. ~ (\/ ListVersions(t) \/ CheckName(t) \/ ReadBeforeUpdate(t) \/ FillModel(t)
        \/ FillData(t) \/ EraseModel(t) \/ DeleteModel(t) \/ DeleteData(t)
        \/ LostAnswer(t))
  BY <1>1
  DEF Calls, ListVersions, CheckName, ReadBeforeUpdate, FillModel, FillData, EraseModel,
      DeleteModel, DeleteData, LostAnswer
<1> QED
  BY <1>2, DeleteReads, DeleteErases, DeleteRestores, DeleteFails DEF Step

LEMMA DeleteInvStep == DeleteInv /\ [HNext]_<<vars, history>> => DeleteInv'
<1> SUFFICES ASSUME DeleteInv, [HNext]_<<vars, history>> PROVE DeleteInv'
  OBVIOUS
<1>1. IInv'
  BY NextIInv DEF HNext, DeleteInv
<1>2. CASE UNCHANGED <<vars, history>>
  <2> USE <1>2 DEF vars, locals, history
  <2>1. ASSUME NEW t \in Threads, NEW kind
        PROVE  OfName(t, kind)' = OfName(t, kind) /\ HasListed(t, kind)' = HasListed(t, kind)
    BY DEF HasListed, OfName, ListedFor
  <2>2. ASSUME NEW t \in Threads, Undoable(t) PROVE Undoable(t)'
    BY <2>2 DEF Undoable, BytesOf
  <2>3. ASSUME NEW t \in Threads, ErasesOK(t), RestoresOK(t)
        PROVE  ErasesOK(t)' /\ RestoresOK(t)'
    BY <2>1, <2>3 DEF ErasesOK, RestoresOK, BytesOf
  <2>4. \A t \in Threads : DeleteOK(t) => DeleteOK(t)'
    BY <2>2, <2>3 DEF DeleteOK, InDelete
  <2> QED
    BY <1>1, <2>4 DEF DeleteInv, AloneOK, Remembers
<1>3. ASSUME HNext, NEW t \in Threads PROVE DeleteOK(t)'
  <2> SUFFICES ASSUME InDelete(t)' PROVE DeleteOK(t)'
    BY DEF DeleteOK
  <2>1. pc'[t] # "idle" /\ alone'[t]
    BY DEF InDelete
  <2>2. CASE pc[t] = "idle"
    BY <1>3, <2>1, <2>2, CallBegins, DeleteBegins DEF DeleteInv
  <2>3. CASE pc[t] # "idle"
    BY <1>3, <2>1, <2>3, OwnStep, DeleteSteps DEF DeleteInv
  <2> QED
    BY <2>2, <2>3
<1>4. ASSUME HNext, NEW t \in Threads
      PROVE  AloneOK(t)' /\ Remembers(t)'
  BY <1>4, AloneStep, RemembersStep DEF DeleteInv
<1> QED
  BY <1>1, <1>2, <1>3, <1>4 DEF DeleteInv

(* On the local storage a delete of a name that ran alone and met at most  *)
(* one failure has removed every model and data file of the name, or left  *)
(* every file as it found it (FileVersionFlatFileRepository.delete and     *)
(* rollbackDeletions).                                                     *)
THEOREM DeletesAreAllOrNothing == HSpec => []DeleteIsAllOrNothing
<1>1. HInit => DeleteInv
  BY InitIInv
  DEF HInit, Init, AllAbsent, DeleteInv, AloneOK, Remembers, DeleteOK, InDelete
<1>2. DeleteInv => DeleteIsAllOrNothing
  <2> SUFFICES ASSUME DeleteInv, NEW t \in Threads,
                      storage = "local", alone[t], failures[t] <= 1,
                      pc[t] = "done", request[t].op = "delete"
               PROVE  /\ reply[t] = "ok" =>
                           \A f \in Files : f[2] = request[t].name => files[f] = Absent
                      /\ reply[t] \in {"absent", "conflict", "error"} => Bytes = before[t]
    BY DEF DeleteIsAllOrNothing, Ended
  <2>1. Undoable(t) /\ RestoresOK(t)
    BY DEF DeleteInv, DeleteOK, InDelete
  <2>2. ASSUME reply[t] = "ok", NEW f \in Files, f[2] = request[t].name
        PROVE  files[f] = Absent
    <3>1. OfName(t, "model") = {} /\ OfName(t, "data") = {}
      BY <2>1, <2>2 DEF RestoresOK
    <3>2. f[1] \in {"model", "data"} /\ <<f[2], request[t].name>> \in StartsWith
      BY <2>2, FileConstantsAssumption DEF Files
    <3> QED
      BY <2>2, <3>1, <3>2 DEF OfName, ListedFor
  <2>3. ASSUME reply[t] \in {"absent", "conflict", "error"} PROVE Bytes = before[t]
    <3>1. erased[t] = {} /\ before[t] = [f \in Files |-> before[t][f]]
      BY <2>1, <2>3 DEF RestoresOK, DeleteInv, Remembers
    <3>2. \A f \in Files : BytesOf(f) = before[t][f]
      BY <2>1, <3>1 DEF Undoable
    <3>3. [f \in Files |-> BytesOf(f)] = [f \in Files |-> before[t][f]]
      BY <3>2
    <3> QED
      BY <3>1, <3>3 DEF Bytes
  <2> QED
    BY <2>2, <2>3
<1> QED
  BY <1>1, <1>2, DeleteInvStep, PTL DEF HSpec
=============================================================================
