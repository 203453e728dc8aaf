----------------------- MODULE FileVersionRepository -----------------------
(***************************************************************************)
(* The flat-file repository of file versions                               *)
(* (FileVersionFlatFileRepository), which keeps two files for every        *)
(* version: the model, a JSON document, and the data, the bytes of the     *)
(* uploaded file.  It extends BaseFlatFileRepository, whose create and     *)
(* update write the model, and whose methods call the overriding read,     *)
(* which reads the model and then the data.                                *)
(*                                                                         *)
(* A step is one call to the storage; a write takes two, on the local      *)
(* storage to create the file and to fill it, on S3 to look for the object *)
(* and to put it.  The finer steps of reading and deleting one file, and   *)
(* the pages of an S3 listing, are those of FlatFileRepository.            *)
(***************************************************************************)
EXTENDS Naturals, FiniteSets

CONSTANTS
  Threads,     \* the threads that serve requests
  Names,       \* the names of file versions
  StartsWith,  \* the pairs <<m, n>> such that the name m starts with n
  MaxVersion,  \* versions are 1 .. MaxVersion, in semantic-version order
  Contents,    \* what can be uploaded
  Ops,         \* the methods that clients call
  Absent,      \* no file
  Partial,     \* part of a content, written as if it were whole
  Storages,    \* the storages to choose from: "local", "s3"
  Faults,      \* what can go wrong: a subset of {"io", "crash"}
  MaxFaults    \* bound: how many storage calls fail

Versions == 1 .. MaxVersion
Files    == {"model", "data"} \X Names \X Versions

ASSUME FileConstantsAssumption ==
  /\ MaxVersion \in Nat \ {0}
  /\ StartsWith \subseteq Names \X Names
  /\ \A n \in Names : <<n, n>> \in StartsWith
  /\ Ops \subseteq {"create", "update", "read", "readVersion", "versions",
                    "delete", "deleteVersion"}
  /\ {Absent, Partial} \cap (Contents \cup Threads) = {}
  /\ Absent # Partial
  /\ Contents \cap Threads = {}
  /\ Storages \subseteq {"local", "s3"}
  /\ Faults \subseteq {"io", "crash"}
  /\ MaxFaults \in Nat

(* A file that is being filled holds the thread that does, or did, so.     *)
ByteStates == Contents \cup {Absent, Partial}
FileStates == ByteStates \cup Threads

Requests ==
  [op : {"create", "update"}, name : Names, version : Versions, content : Contents]
    \cup [op : {"readVersion", "deleteVersion"}, name : Names, version : Versions,
          content : {Absent}]
    \cup [op : {"read", "versions", "delete"}, name : Names, version : {0},
          content : {Absent}]
NoRequest == [op |-> "none"]
NoTarget  == <<"none">>

VARIABLES
  storage,  \* the storage that the profile of the server chooses
  files,    \* the model and the data directory
  faults,   \* how many storage calls have failed
  pc,       \* pc[t]: the storage call thread t makes next
  request,  \* request[t]: the method t is in
  latest,   \* latest[t]: the version t has picked as the latest, or 0
  target,   \* target[t]: the file t writes or erases
  bytes,    \* bytes[t]: what t has read, or writes
  listed,   \* listed[t]: the files that a delete of a name has yet to erase
  erased,   \* erased[t]: those it has erased, with their bytes
  reply     \* reply[t]: how t's call ended

locals == <<latest, target, bytes, listed, erased>>
vars   == <<storage, files, faults, pc, request, locals, reply>>

Goto(t, label) ==
  /\ pc' = [pc EXCEPT ![t] = label]
  /\ UNCHANGED <<storage, request, reply>>

Answer(t, outcome) ==
  /\ pc' = [pc EXCEPT ![t] = "done"]
  /\ reply' = [reply EXCEPT ![t] = outcome]
  /\ UNCHANGED <<storage, request>>

ListedFor(kind, name) ==
  {f \in Files : f[1] = kind /\ <<f[2], name>> \in StartsWith /\ files[f] # Absent}

(* The bytes of a file, unfinished or not.                                 *)
BytesOf(f) == IF files[f] \in Threads THEN Partial ELSE files[f]

VersionRead(t) ==
  IF request[t].op \in {"readVersion", "deleteVersion"}
    THEN request[t].version ELSE latest[t]

FileOf(t, kind, version) == <<kind, request[t].name, version>>

(***************************************************************************)
(* A call begins and ends                                                  *)
(***************************************************************************)

FirstCall(op) ==
  CASE op = "create"                           -> "exists"
    [] op \in {"update", "read", "versions"}   -> "list"
    [] op = "delete"                           -> "listModels"
    [] op \in {"readVersion", "deleteVersion"} -> "readModel"

Invoke(t, r) ==
  /\ pc[t] = "idle"
  /\ r.op \in Ops
  /\ pc' = [pc EXCEPT ![t] = FirstCall(r.op)]
  /\ request' = [request EXCEPT ![t] = r]
  /\ UNCHANGED <<storage, files, faults, locals, reply>>

Return(t) ==
  /\ pc[t] = "done"
  /\ pc'      = [pc EXCEPT ![t] = "idle"]
  /\ request' = [request EXCEPT ![t] = NoRequest]
  /\ latest'  = [latest EXCEPT ![t] = 0]
  /\ target'  = [target EXCEPT ![t] = NoTarget]
  /\ bytes'   = [bytes EXCEPT ![t] = Absent]
  /\ listed'  = [listed EXCEPT ![t] = {}]
  /\ erased'  = [erased EXCEPT ![t] = {}]
  /\ reply'   = [reply EXCEPT ![t] = "none"]
  /\ UNCHANGED <<storage, files, faults>>

(***************************************************************************)
(* read: the latest version or a given one, its model and then its data.   *)
(* read(name) reads the data a second time.  delete(name) calls get() on   *)
(* what it read, and every read calls get() on the data.                   *)
(***************************************************************************)

NothingListed(t) ==
  /\ pc[t] = "list"
  /\ ListedFor("model", request[t].name) = {}
  /\ Answer(t, IF request[t].op = "delete" THEN "error" ELSE "absent")
  /\ UNCHANGED <<files, faults, locals>>

ListVersions(t) ==
  /\ pc[t] = "list"
  /\ request[t].op = "versions"
  /\ ListedFor("model", request[t].name) # {}
  /\ Answer(t, "ok")
  /\ UNCHANGED <<files, faults, locals>>

PickLatest(t) ==
  /\ pc[t] = "list"
  /\ request[t].op # "versions"
  /\ \E f \in ListedFor("model", request[t].name) :
       /\ \A g \in ListedFor("model", request[t].name) : g[3] <= f[3]
       /\ latest' = [latest EXCEPT ![t] = f[3]]
  /\ Goto(t, "readModel")
  /\ UNCHANGED <<files, faults, target, bytes, listed, erased>>

(* A model that is not yet complete is no JSON document.                   *)
ReadModel(t) ==
  LET model == files[FileOf(t, "model", VersionRead(t))]
  IN  /\ pc[t] = "readModel"
      /\ CASE model \in Contents -> Goto(t, "readData")
           [] model = Absent     ->
                Answer(t, IF request[t].op = "delete" THEN "error" ELSE "absent")
           [] OTHER              -> Answer(t, "error")
      /\ UNCHANGED <<files, faults, locals>>

AfterData(label, op) ==
  CASE op \in {"read", "delete"} /\ label = "readData" -> "readAgain"
    [] op = "delete"                                   -> "save"
    [] op = "deleteVersion"                            -> "deleteModel"
    [] OTHER                                           -> "done"

(* Data that is not yet complete is read as it is.                         *)
ReadData(t) ==
  LET data == FileOf(t, "data", VersionRead(t))
      next == AfterData(pc[t], request[t].op)
  IN  /\ pc[t] \in {"readData", "readAgain"}
      /\ files[data] # Absent
      /\ bytes' = [bytes EXCEPT ![t] = BytesOf(data)]
      /\ request[t].op # "update"
      /\ IF next = "done" THEN Answer(t, "ok") ELSE Goto(t, next)
      /\ UNCHANGED <<files, faults, latest, target, listed, erased>>

DataMissing(t) ==
  /\ pc[t] \in {"readData", "readAgain"}
  /\ files[FileOf(t, "data", VersionRead(t))] = Absent
  /\ Answer(t, "error")
  /\ UNCHANGED <<files, faults, locals>>

(***************************************************************************)
(* create and update: write the model, then the data, each as a new file.  *)
(***************************************************************************)

GotoWrite(t, kind) ==
  /\ target' = [target EXCEPT ![t] = FileOf(t, kind, request[t].version)]
  /\ bytes'  = [bytes EXCEPT ![t] = request[t].content]
  /\ Goto(t, "write")
  /\ UNCHANGED <<latest, listed, erased>>

CheckName(t) ==
  /\ pc[t] = "exists"
  /\ IF ListedFor("model", request[t].name) # {}
       THEN Answer(t, "conflict") /\ UNCHANGED locals
       ELSE GotoWrite(t, "model")
  /\ UNCHANGED <<files, faults>>

ReadBeforeUpdate(t) ==
  /\ pc[t] = "readData"
  /\ request[t].op = "update"
  /\ files[FileOf(t, "data", VersionRead(t))] # Absent
  /\ GotoWrite(t, "model")
  /\ UNCHANGED <<files, faults>>

(***************************************************************************)
(* Write bytes[t] to target[t], never over an existing file: the model or  *)
(* the data of a create or update, or a file that a rollback restores.     *)
(***************************************************************************)

(* Mutant: data that is already there is taken for the caller's.           *)
AcceptExisting(t) ==
  /\ pc[t] = "write"
  /\ files[target[t]] # Absent
  /\ Answer(t, IF target[t][1] = "data" THEN "ok" ELSE "conflict")
  /\ UNCHANGED <<files, faults, locals>>

WriteConflict(t) ==
  /\ pc[t] = "write"
  /\ files[target[t]] # Absent
  /\ Answer(t, "conflict")
  /\ UNCHANGED <<files, faults, locals>>

NewFile(t) ==
  /\ pc[t] = "write"
  /\ files[target[t]] = Absent
  /\ files' = IF storage = "local" THEN [files EXCEPT ![target[t]] = t] ELSE files
  /\ Goto(t, "fill")
  /\ UNCHANGED <<faults, locals>>

(* Mutant: the bytes go to whatever file now has the name.                 *)
FilledByName(t) == [files EXCEPT ![target[t]] = bytes[t]]

(* Bytes written to a local file that was unlinked in between are lost.    *)
Filled(t) ==
  [files EXCEPT ![target[t]] =
     IF storage = "s3" \/ @ = t THEN bytes[t] ELSE @]

FillModel(t) ==
  /\ pc[t] = "fill"
  /\ request[t].op # "delete"
  /\ target[t][1] = "model"
  /\ files' = Filled(t)
  /\ GotoWrite(t, "data")
  /\ UNCHANGED faults

FillData(t) ==
  /\ pc[t] = "fill"
  /\ request[t].op # "delete"
  /\ target[t][1] = "data"
  /\ files' = Filled(t)
  /\ Answer(t, "ok")
  /\ UNCHANGED <<faults, locals>>

(* What is left of create's and update's "erase model file that was        *)
(* created": it is only reached by an exception that the storage does not  *)
(* wrap, which S3 throws where it looks for the data object.               *)
EraseModel(t) ==
  /\ pc[t] = "eraseModel"
  /\ files' = [files EXCEPT ![FileOf(t, "model", request[t].version)] = Absent]
  /\ Answer(t, "error")
  /\ UNCHANGED <<faults, locals>>

(***************************************************************************)
(* delete(name): list the models, read the latest version as the value to  *)
(* return, then save and unlink every model listed, list the data, and     *)
(* save and unlink every data file.  After a failure in that loop, write   *)
(* what was erased again, the models first; a failure of the rollback is   *)
(* where it ends.                                                          *)
(***************************************************************************)

ListModels(t) ==
  /\ pc[t] = "listModels"
  /\ listed' = [listed EXCEPT ![t] = ListedFor("model", request[t].name)]
  /\ IF ListedFor("model", request[t].name) = {}
       THEN Answer(t, "absent")
       ELSE Goto(t, "list")
  /\ UNCHANGED <<files, faults, latest, target, bytes, erased>>

(* Mutant: that a listed file is gone is not noticed.                      *)
SaveUnchecked(t) ==
  /\ pc[t] = "save"
  /\ \E f \in listed[t] :
       /\ target' = [target EXCEPT ![t] = f]
       /\ bytes' = [bytes EXCEPT ![t] = BytesOf(f)]
  /\ Goto(t, "unlink")
  /\ UNCHANGED <<files, faults, latest, listed, erased>>

Save(t) ==
  /\ pc[t] = "save"
  /\ \E f \in listed[t] :
       /\ files[f] # Absent
       /\ target' = [target EXCEPT ![t] = f]
       /\ bytes' = [bytes EXCEPT ![t] = BytesOf(f)]
  /\ Goto(t, "unlink")
  /\ UNCHANGED <<files, faults, latest, listed, erased>>

(* A file that was listed and is gone is not passed over: get() fails.     *)
SaveMissing(t) ==
  /\ pc[t] = "save"
  /\ \E f \in listed[t] : files[f] = Absent
  /\ Goto(t, "rollback")
  /\ UNCHANGED <<files, faults, locals>>

(* Mutant: only the models are kept for a rollback.                        *)
UnlinkKeepingModels(t) ==
  /\ pc[t] = "unlink"
  /\ files'  = [files EXCEPT ![target[t]] = Absent]
  /\ erased' = [erased EXCEPT ![t] =
       @ \cup IF target[t][1] = "model" THEN {<<target[t], bytes[t]>>} ELSE {}]
  /\ listed' = [listed EXCEPT ![t] = @ \ {target[t]}]
  /\ IF listed[t] # {target[t]}     THEN Goto(t, "save")
     ELSE IF target[t][1] = "model" THEN Goto(t, "listData")
     ELSE Answer(t, "ok")
  /\ UNCHANGED <<faults, latest, target, bytes>>

Unlink(t) ==
  /\ pc[t] = "unlink"
  /\ files'  = [files EXCEPT ![target[t]] = Absent]
  /\ erased' = [erased EXCEPT ![t] = @ \cup {<<target[t], bytes[t]>>}]
  /\ listed' = [listed EXCEPT ![t] = @ \ {target[t]}]
  /\ IF listed[t] # {target[t]}     THEN Goto(t, "save")
     ELSE IF target[t][1] = "model" THEN Goto(t, "listData")
     ELSE Answer(t, "ok")
  /\ UNCHANGED <<faults, latest, target, bytes>>

ListData(t) ==
  /\ pc[t] = "listData"
  /\ listed' = [listed EXCEPT ![t] = ListedFor("data", request[t].name)]
  /\ Goto(t, IF ListedFor("data", request[t].name) = {} THEN "rollback" ELSE "save")
  /\ UNCHANGED <<files, faults, latest, target, bytes, erased>>

Rollback(t) ==
  /\ pc[t] = "rollback"
  /\ \E saved \in erased[t] :
       /\ \A other \in erased[t] : other[1][1] = "model" => saved[1][1] = "model"
       /\ target' = [target EXCEPT ![t] = saved[1]]
       /\ bytes'  = [bytes EXCEPT ![t] = saved[2]]
  /\ Goto(t, "write")
  /\ UNCHANGED <<files, faults, latest, listed, erased>>

Restore(t) ==
  /\ pc[t] = "fill"
  /\ request[t].op = "delete"
  /\ files' = Filled(t)
  /\ erased' = [erased EXCEPT ![t] = @ \ {<<target[t], bytes[t]>>}]
  /\ Goto(t, "rollback")
  /\ UNCHANGED <<faults, latest, target, bytes, listed>>

RolledBack(t) ==
  /\ pc[t] = "rollback"
  /\ erased[t] = {}
  /\ Answer(t, "error")
  /\ UNCHANGED <<files, faults, locals>>

(***************************************************************************)
(* delete(name, version): delete the model that was read, then the data.   *)
(***************************************************************************)

DeleteModel(t) ==
  LET model == FileOf(t, "model", request[t].version)
  IN  /\ pc[t] = "deleteModel"
      /\ files' = [files EXCEPT ![model] = Absent]
      /\ IF files[model] = Absent THEN Answer(t, "error") ELSE Goto(t, "deleteData")
      /\ UNCHANGED <<faults, locals>>

DeleteData(t) ==
  /\ pc[t] = "deleteData"
  /\ files' = [files EXCEPT ![FileOf(t, "data", request[t].version)] = Absent]
  /\ Answer(t, "ok")
  /\ UNCHANGED <<faults, locals>>

(***************************************************************************)
(* Faults                                                                  *)
(***************************************************************************)

StorageCalls ==
  {"exists", "list", "readModel", "readData", "readAgain", "write", "fill", "eraseModel",
   "listModels", "save", "unlink", "listData", "deleteModel", "deleteData"}

DataWrite(t) == request[t].op # "delete" /\ target[t][1] = "data"

(* Where an exception at t's storage call leads.  The local storage calls  *)
(* a failure to write a conflict if the file exists, its own unfinished    *)
(* one included.                                                           *)
Catch(t) ==
  IF pc[t] \in {"save", "unlink", "listData"}                 THEN Goto(t, "rollback")
  ELSE IF storage = "s3" /\ pc[t] = "write" /\ DataWrite(t)   THEN Goto(t, "eraseModel")
  ELSE IF /\ storage = "local"
          /\ pc[t] \in {"write", "fill"}
          /\ files[target[t]] # Absent                        THEN Answer(t, "conflict")
  ELSE Answer(t, "error")

(* The storage call of t fails and has no effect.                          *)
IOFailure(t) ==
  /\ "io" \in Faults
  /\ faults < MaxFaults
  /\ pc[t] \in StorageCalls
  /\ faults' = faults + 1
  /\ Catch(t)
  /\ UNCHANGED <<files, locals>>

(* A call that changes an S3 object takes effect and fails for the caller, *)
(* because its answer is lost.                                             *)
LostAnswer(t) ==
  /\ "io" \in Faults
  /\ faults < MaxFaults
  /\ storage = "s3"
  /\ \/ pc[t] = "fill"        /\ files' = Filled(t)
     \/ pc[t] = "unlink"      /\ files' = [files EXCEPT ![target[t]] = Absent]
     \/ /\ pc[t] \in {"eraseModel", "deleteModel"}
        /\ files' = [files EXCEPT ![FileOf(t, "model", request[t].version)] = Absent]
     \/ /\ pc[t] = "deleteData"
        /\ files' = [files EXCEPT ![FileOf(t, "data", request[t].version)] = Absent]
  /\ faults' = faults + 1
  /\ Catch(t)
  /\ UNCHANGED locals

(* The server process dies and starts again: its requests are lost, what   *)
(* the storage holds stays as it is.                                       *)
Restart ==
  /\ "crash" \in Faults
  /\ pc'      = [t \in Threads |-> "idle"]
  /\ request' = [t \in Threads |-> NoRequest]
  /\ latest'  = [t \in Threads |-> 0]
  /\ target'  = [t \in Threads |-> NoTarget]
  /\ bytes'   = [t \in Threads |-> Absent]
  /\ listed'  = [t \in Threads |-> {}]
  /\ erased'  = [t \in Threads |-> {}]
  /\ reply'   = [t \in Threads |-> "none"]
  /\ UNCHANGED <<storage, files, faults>>

(***************************************************************************)
(* The specification                                                       *)
(***************************************************************************)

Init ==
  /\ storage \in Storages
  /\ files  = [f \in Files |-> Absent]
  /\ faults = 0
  /\ pc      = [t \in Threads |-> "idle"]
  /\ request = [t \in Threads |-> NoRequest]
  /\ latest  = [t \in Threads |-> 0]
  /\ target  = [t \in Threads |-> NoTarget]
  /\ bytes   = [t \in Threads |-> Absent]
  /\ listed  = [t \in Threads |-> {}]
  /\ erased  = [t \in Threads |-> {}]
  /\ reply   = [t \in Threads |-> "none"]

Step(t) ==
  \/ NothingListed(t)
  \/ ListVersions(t)
  \/ PickLatest(t)
  \/ ReadModel(t)
  \/ ReadData(t)
  \/ DataMissing(t)
  \/ CheckName(t)
  \/ ReadBeforeUpdate(t)
  \/ WriteConflict(t)
  \/ NewFile(t)
  \/ FillModel(t)
  \/ FillData(t)
  \/ EraseModel(t)
  \/ ListModels(t)
  \/ Save(t)
  \/ SaveMissing(t)
  \/ Unlink(t)
  \/ ListData(t)
  \/ Rollback(t)
  \/ Restore(t)
  \/ RolledBack(t)
  \/ DeleteModel(t)
  \/ DeleteData(t)
  \/ IOFailure(t)
  \/ LostAnswer(t)

Next ==
  \/ \E t \in Threads, r \in Requests : Invoke(t, r)
  \/ \E t \in Threads : Step(t)
  \/ \E t \in Threads : Return(t)
  \/ Restart

Spec == Init /\ [][Next]_vars

(***************************************************************************)
(* Type correctness: the values of the variables, and that a delete knows  *)
(* which files it still has to restore.                                    *)
(***************************************************************************)

Outcomes == {"none", "ok", "absent", "conflict", "error"}

TypeOK ==
  /\ storage \in Storages
  /\ files   \in [Files -> FileStates]
  /\ faults  \in 0 .. MaxFaults
  /\ pc      \in [Threads -> StorageCalls \cup {"idle", "rollback", "done"}]
  /\ request \in [Threads -> Requests \cup {NoRequest}]
  /\ latest  \in [Threads -> 0 .. MaxVersion]
  /\ target  \in [Threads -> Files \cup {NoTarget}]
  /\ bytes   \in [Threads -> ByteStates]
  /\ listed  \in [Threads -> SUBSET Files]
  /\ erased  \in [Threads -> SUBSET (Files \X (ByteStates \ {Absent}))]
  /\ reply   \in [Threads -> Outcomes]

(***************************************************************************)
(* Refinement: a file version is visible when its model and its data are   *)
(* complete.                                                               *)
(***************************************************************************)

Artifacts == Names \X Versions

Visible ==
  [a \in Artifacts |->
     LET model == files[<<"model", a[1], a[2]>>]
         data  == files[<<"data", a[1], a[2]>>]
     IN  IF {model, data} \subseteq Contents THEN <<model, data>> ELSE Absent]

Store == INSTANCE VersionedStore
           WITH Contents <- Contents \X Contents, store <- Visible

(* On the local storage the repository implements the store of immutable   *)
(* versions: model and data appear together and never change while they    *)
(* exist, rollbacks included (FileVersionFlatFileRepository).              *)
VersionsAreImmutable == [][storage = "local" => Store!Next]_Visible
=============================================================================
