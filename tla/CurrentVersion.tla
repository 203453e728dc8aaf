--------------------------- MODULE CurrentVersion ---------------------------
(***************************************************************************)
(* Which version of a file is the current one: FileBDImpl's                *)
(* setCurrentVersion and getCurrentVersion over the two repositories that  *)
(* remember it.                                                            *)
(*                                                                         *)
(* CurrentFileVersionFlatFileRepository keeps one JSON map for all files.  *)
(* A set reads it, changes it and writes it back, without a lock.  On the  *)
(* local storage the write goes over the bytes that are there, which       *)
(* others may be reading or writing and a crash may leave half done; over  *)
(* S3 it is one put.  The Cassandra repository keeps a row for every file, *)
(* and a set is a select, an update if there is a row, and an insert.      *)
(***************************************************************************)
EXTENDS Naturals, FiniteSets

CONSTANTS
  Threads,
  Names,
  Versions,
  Storages,   \* those the server may be configured for
  Ops,
  Faults,     \* "io", "lost": the answer of a put is lost; "crash"
  NoFile,     \* there is no map yet
  Torn,       \* bytes that do not start with a JSON map
  None        \* no version

ASSUME CurrentConstantsAssumption ==
  /\ Storages \subseteq {"local", "s3", "cassandra"}
  /\ Ops \subseteq {"set", "get"}
  /\ None \notin Versions

(* A map from names to versions; a name without a version is mapped to None *)
(* here.                                                                   *)
Maps == [Names -> Versions \cup {None}]

ASSUME NotMapsAssumption == NoFile \notin Maps /\ Torn \notin Maps /\ Torn # NoFile

EmptyMap == [n \in Names |-> None]

VARIABLES
  storage,  \* the profile the server runs with
  file,     \* what a read of the map may find now: several contents while it
            \* is written, or after a write that failed or met another
  stored,   \* the versions of files that are stored
  pc,       \* the next step of a thread
  req,      \* its request
  data,     \* the map it has read, or will write
  answer,   \* the version it found
  outcome,  \* how its request ended
  alone,    \* history: no set that could interfere ran while this one did
  ever,     \* history: versions that were stored at some time
  kept,     \* history: versions that were set alone, until the next set or
            \* until a splice may have got into the map
  intact    \* history: no splice can have got into the map

vars == <<storage, file, stored, pc, req, data, answer, outcome, alone, ever, kept,
          intact>>

NoRequest == [op |-> "none", name |-> None, version |-> None]

Requests ==
  {r \in [op : {"set"}, name : Names, version : Versions]
      \cup [op : {"get"}, name : Names, version : {None}] : r.op \in Ops}

FlatFile == storage \in {"local", "s3"}

Writers == {t \in Threads : pc[t] \in {"write", "mixed"}}

Goto(t, label) == pc' = [pc EXCEPT ![t] = label]

Finish(t, how) ==
  /\ Goto(t, "done")
  /\ outcome' = [outcome EXCEPT ![t] = how]

(* Whether some bytes of the local map are written, and others are not.    *)
BeingWritten == Writers # {}

(* History: from now on the map may be a splice of two maps for good.      *)
Spoil == kept' = EmptyMap /\ intact' = FALSE

SpoilIf(condition) == IF condition THEN Spoil ELSE UNCHANGED <<kept, intact>>

(***************************************************************************)
(* Requests                                                                *)
(***************************************************************************)

Setting(t) == req[t].op = "set" /\ pc[t] \notin {"idle", "done"}

(* Two sets interfere through the one map, or through the one row.         *)
Interferes(r, q) ==
  r.op = "set" /\ q.op = "set" /\ (storage = "cassandra" => r.name = q.name)

Invoke(t, r) ==
  /\ pc[t] = "idle"
  /\ Goto(t, IF r.op = "set" THEN "readVersion" ELSE "readMap")
  /\ req' = [req EXCEPT ![t] = r]
  /\ LET met == {u \in Threads : Setting(u) /\ Interferes(r, req[u])}
     IN  alone' = [u \in Threads |-> IF u = t THEN met = {} ELSE alone[u] /\ u \notin met]
  /\ kept' = IF r.op = "set" THEN [kept EXCEPT ![r.name] = None] ELSE kept
  /\ UNCHANGED <<storage, file, stored, data, answer, outcome, ever, intact>>

Respond(t) ==
  /\ pc[t] = "done"
  /\ Goto(t, "idle")
  /\ req' = [req EXCEPT ![t] = NoRequest]
  /\ data' = [data EXCEPT ![t] = EmptyMap]
  /\ answer' = [answer EXCEPT ![t] = None]
  /\ outcome' = [outcome EXCEPT ![t] = "none"]
  /\ UNCHANGED <<storage, file, stored, alone, ever, kept, intact>>

(* A set that is acknowledged while the version is the one requested, and  *)
(* no other set ran meanwhile, is to be kept.                              *)
Acknowledge(t) ==
  /\ Finish(t, "ok")
  /\ kept' = IF alone[t] THEN [kept EXCEPT ![req[t].name] = req[t].version] ELSE kept

(***************************************************************************)
(* Reading                                                                 *)
(***************************************************************************)

(* Mutant: any version of the file will do.                                *)
ReadAnyVersion(t) ==
  /\ pc[t] = "readVersion"
  /\ IF \E v \in Versions : <<req[t].name, v>> \in stored
       THEN Goto(t, "readMap") /\ UNCHANGED outcome
       ELSE Finish(t, "absent")
  /\ UNCHANGED <<storage, file, stored, req, data, answer, alone, ever, kept, intact>>

(* A set requires that the version is stored.                              *)
ReadVersion(t) ==
  /\ pc[t] = "readVersion"
  /\ IF <<req[t].name, req[t].version>> \in stored
       THEN Goto(t, "readMap") /\ UNCHANGED outcome
       ELSE Finish(t, "absent")
  /\ UNCHANGED <<storage, file, stored, req, data, answer, alone, ever, kept, intact>>

(* Mutant: a set writes a map with its own entry only.                     *)
UseNewMap(t, map) ==
  LET n == req[t].name
  IN  IF req[t].op = "set"
        THEN /\ data' = [data EXCEPT ![t] = [EmptyMap EXCEPT ![n] = req[t].version]]
             /\ Goto(t, IF FlatFile THEN "open" ELSE
                        IF map[n] = None THEN "insert" ELSE "update")
             /\ UNCHANGED <<answer, outcome>>
        ELSE /\ answer' = [answer EXCEPT ![t] = map[n]]
             /\ IF map[n] = None THEN Finish(t, "error")
                                 ELSE Goto(t, "readCurrent") /\ UNCHANGED outcome
             /\ UNCHANGED data

(* What thread t does with the map it found; in Cassandra it only has the  *)
(* row of its name, and need not put a version into a map.                 *)
Use(t, map) ==
  LET n == req[t].name
  IN  IF req[t].op = "set"
        THEN /\ data' = [data EXCEPT ![t] = [map EXCEPT ![n] = req[t].version]]
             /\ Goto(t, IF FlatFile THEN "open" ELSE
                        IF map[n] = None THEN "insert" ELSE "update")
             /\ UNCHANGED <<answer, outcome>>
        ELSE /\ answer' = [answer EXCEPT ![t] = map[n]]
             /\ IF map[n] = None THEN Finish(t, "error")
                                 ELSE Goto(t, "readCurrent") /\ UNCHANGED outcome
             /\ UNCHANGED data

(* When nobody writes, the file is what this read finds.  A set that reads *)
(* while another writes may take a splice for the map, and write it.       *)
ReadMap(t) ==
  /\ pc[t] = "readMap"
  /\ \E d \in file :
       /\ file' = IF BeingWritten THEN file ELSE {d}
       /\ IF d = Torn
            THEN Finish(t, "error") /\ UNCHANGED <<data, answer>>
            ELSE Use(t, IF d = NoFile THEN EmptyMap ELSE d)
  /\ SpoilIf(BeingWritten /\ req[t].op = "set")
  /\ UNCHANGED <<storage, stored, req, alone, ever>>

ReadCurrent(t) ==
  /\ pc[t] = "readCurrent"
  /\ Finish(t, IF <<req[t].name, answer[t]>> \in stored THEN "ok" ELSE "absent")
  /\ UNCHANGED <<storage, file, stored, req, data, answer, alone, ever, kept, intact>>

(***************************************************************************)
(* Writing                                                                 *)
(***************************************************************************)

(* The local file is opened, not truncated, and written from its start     *)
(* over the bytes that are there.  Until all is written, and for good if   *)
(* the write stops or meets another, it is a part of this map and a part   *)
(* of what was there; where one ends and the other goes on depends on the  *)
(* lengths of the names and versions, so the splice may be any map, with   *)
(* an entry lost or a version that no file has, or no JSON at all.  Over   *)
(* no file there is only the start of this map.  What a longer map leaves  *)
(* behind the whole of this one is not read by the JSON parser.            *)
StartWrite(t) ==
  /\ storage = "local"
  /\ pc[t] = "open"
  /\ file' = {data[t], Torn} \cup (IF file = {NoFile} THEN {} ELSE Maps)
  /\ pc' = IF BeingWritten
             THEN [u \in Threads |-> IF u \in Writers \cup {t} THEN "mixed" ELSE pc[u]]
             ELSE [pc EXCEPT ![t] = "write"]
  /\ SpoilIf(BeingWritten)
  /\ UNCHANGED <<storage, stored, req, data, answer, outcome, alone, ever>>

FinishWrite(t) ==
  /\ pc[t] \in {"write", "mixed"}
  /\ file' = IF pc[t] = "write" THEN {data[t]} ELSE file
  /\ Acknowledge(t)
  /\ UNCHANGED <<storage, stored, req, data, answer, alone, ever, intact>>

PutObject(t) ==
  /\ storage = "s3"
  /\ pc[t] = "open"
  /\ file' = {data[t]}
  /\ Acknowledge(t)
  /\ UNCHANGED <<storage, stored, req, data, answer, alone, ever, intact>>

(* Mutant: the row takes the place of the table.                           *)
ReplaceTable(t) == file' = {[n \in {req[t].name} |-> req[t].version]}

(* Both statements write the version into the row.                         *)
WriteRow(t) == file' = {[d EXCEPT ![req[t].name] = req[t].version] : d \in file}

UpdateRow(t) ==
  /\ pc[t] = "update"
  /\ WriteRow(t)
  /\ Goto(t, "insert")
  /\ UNCHANGED <<storage, stored, req, data, answer, outcome, alone, ever, kept, intact>>

InsertRow(t) ==
  /\ pc[t] = "insert"
  /\ WriteRow(t)
  /\ Acknowledge(t)
  /\ UNCHANGED <<storage, stored, req, data, answer, alone, ever, intact>>

(***************************************************************************)
(* Faults, and the versions of files that come and go                      *)
(***************************************************************************)

(* A call fails; a local file that is being written stays as it is.        *)
IOFailure(t) ==
  /\ "io" \in Faults
  /\ pc[t] \notin {"idle", "done"}
  /\ Finish(t, "error")
  /\ SpoilIf(t \in Writers)
  /\ UNCHANGED <<storage, file, stored, req, data, answer, alone, ever>>

(* A call takes effect, and its answer is lost.                            *)
LostAnswer(t) ==
  /\ "lost" \in Faults
  /\ \/ storage = "s3" /\ pc[t] = "open" /\ file' = {data[t]}
     \/ pc[t] \in {"update", "insert"} /\ WriteRow(t)
  /\ Finish(t, "error")
  /\ UNCHANGED <<storage, stored, req, data, answer, alone, ever, kept, intact>>

Restart ==
  /\ "crash" \in Faults
  /\ pc'      = [t \in Threads |-> "idle"]
  /\ req'     = [t \in Threads |-> NoRequest]
  /\ data'    = [t \in Threads |-> EmptyMap]
  /\ answer'  = [t \in Threads |-> None]
  /\ outcome' = [t \in Threads |-> "none"]
  /\ alone'   = [t \in Threads |-> FALSE]
  /\ SpoilIf(BeingWritten)
  /\ UNCHANGED <<storage, file, stored, ever>>

Upload(n, v) ==
  /\ stored' = stored \cup {<<n, v>>}
  /\ ever' = ever \cup {<<n, v>>}
  /\ UNCHANGED <<storage, file, pc, req, data, answer, outcome, alone, kept, intact>>

Erase(n, v) ==
  /\ stored' = stored \ {<<n, v>>}
  /\ UNCHANGED <<storage, file, pc, req, data, answer, outcome, alone, ever, kept, intact>>

(***************************************************************************)
(* The specification                                                       *)
(***************************************************************************)

Init ==
  /\ storage \in Storages
  /\ file    = {IF FlatFile THEN NoFile ELSE EmptyMap}
  /\ stored  = {}
  /\ pc      = [t \in Threads |-> "idle"]
  /\ req     = [t \in Threads |-> NoRequest]
  /\ data    = [t \in Threads |-> EmptyMap]
  /\ answer  = [t \in Threads |-> None]
  /\ outcome = [t \in Threads |-> "none"]
  /\ alone   = [t \in Threads |-> FALSE]
  /\ ever    = {}
  /\ kept    = EmptyMap
  /\ intact  = TRUE

Step(t) ==
  \/ ReadVersion(t)
  \/ ReadMap(t)
  \/ ReadCurrent(t)
  \/ StartWrite(t)
  \/ FinishWrite(t)
  \/ PutObject(t)
  \/ UpdateRow(t)
  \/ InsertRow(t)
  \/ IOFailure(t)
  \/ LostAnswer(t)
  \/ Respond(t)

Next ==
  \/ \E t \in Threads, r \in Requests : Invoke(t, r)
  \/ \E t \in Threads : Step(t)
  \/ \E n \in Names, v \in Versions : Upload(n, v) \/ Erase(n, v)
  \/ Restart

Spec == Init /\ [][Next]_vars

(***************************************************************************)
(* Correctness                                                             *)
(***************************************************************************)

Labels == {"idle", "readVersion", "readMap", "readCurrent", "open", "write",
           "mixed", "update", "insert", "done"}

CurrentTypeOK ==
  /\ storage \in Storages
  /\ file    \subseteq Maps \cup (IF FlatFile THEN {NoFile, Torn} ELSE {})
  /\ stored  \subseteq Names \X Versions
  /\ pc      \in [Threads -> Labels]
  /\ req     \in [Threads -> Requests \cup {NoRequest}]
  /\ data    \in [Threads -> Maps]
  /\ answer  \in [Threads -> Versions \cup {None}]
  /\ outcome \in [Threads -> {"none", "ok", "absent", "error"}]
  /\ alone   \in [Threads -> BOOLEAN]
  /\ ever    \subseteq Names \X Versions
  /\ kept    \in Maps
  /\ intact  \in BOOLEAN

(* A current version that was acknowledged, and with which no other set    *)
(* interfered, is what a read finds until the next set for that file: sets *)
(* for other files, that overlap and fail, lost answers and restarts keep  *)
(* it.  In the local file it is only found between writes, and only until  *)
(* a write stops half-way, or meets another write or the read of another   *)
(* set: then the map may be a splice                                       *)
(* (CurrentFileVersionFlatFileRepository.setCurrentVersion, and the same   *)
(* of Cassandra).                                                          *)
AckedSetIsKept ==
  ~BeingWritten =>
    \A n \in Names : kept[n] # None => \A d \in file : d \in Maps /\ d[n] = kept[n]

(* Unless a splice can have got into the map, the current version of a     *)
(* file leads to a version that was stored at some time: if it is not      *)
(* there, it was deleted, and the delete left the map alone                *)
(* (FileBDImpl.setCurrentVersion).                                         *)
CurrentWasStored ==
  ~BeingWritten /\ intact =>
    \A d \in file \cap Maps : \A n \in Names : d[n] # None => <<n, d[n]>> \in ever
=============================================================================
