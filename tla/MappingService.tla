--------------------------- MODULE MappingService ---------------------------
(***************************************************************************)
(* The mapping of scopes to version sets: VersionSetMappingBDImpl, the     *)
(* mapping it keeps in memory (VersionSetMapping), and the file, or the    *)
(* table, the whole mapping is saved in after every change                 *)
(* (VersionSetMappingFileRepository,                                       *)
(* VersionSetMappingCassandraRepositoryImpl).                              *)
(*                                                                         *)
(* All request threads work on one concurrent map.  A request changes it   *)
(* in one step, searches it entry by entry while others change it, and     *)
(* saves it in several steps: the map is serialized, and what was          *)
(* serialized is written, on the local storage under a file lock that is   *)
(* tried once and not waited for, on S3 and in Cassandra without any lock. *)
(* The mapping is loaded when the server starts.                           *)
(*                                                                         *)
(* In the file, a set of scopes is written and read back as it is.  The    *)
(* table's rows have other texts for their keys: an empty set is left out  *)
(* of the text ({}), which is read back as a key without a set (NullKey),  *)
(* and that is written as one whose set is null.                           *)
(*                                                                         *)
(* The local file is opened without truncating it.  What is left of a      *)
(* longer previous mapping does no harm, since the JSON parser reads no    *)
(* further than the end of the first document.                             *)
(***************************************************************************)
EXTENDS ScopeMatch

CONSTANTS
  Threads,      \* the threads that serve requests
  Ops,          \* the methods that clients call
  MappingKeys,  \* the sets of scopes that clients set and delete
  Queries,      \* the sets of scopes that clients look for
  References,   \* references to version sets
  NullKey,      \* the key that has no set of scopes
  NoReference,  \* no reference
  NoFile,       \* the mapping has never been saved; also, nothing to save
  Empty,        \* the file has been created and is empty
  NoThread,     \* nobody holds the file lock
  Storages,     \* those the server may be configured for
  Faults        \* what can go wrong: a subset of {"io", "crash"}

Mappings == UNION {[keys -> References] : keys \in SUBSET (MappingKeys \cup {NullKey})}

EmptyMapping == [key \in {} |-> NoReference]

ASSUME MappingConstantsAssumption ==
  /\ Ops \subseteq {"set", "delete", "find"}
  /\ NullKey \notin MappingKeys \cup Queries \cup {{}}
  /\ NoReference \notin References
  /\ NoFile \notin Mappings \cup Threads \cup {Empty}
  /\ Empty \notin Mappings \cup Threads
  /\ NoThread \notin Threads
  /\ Threads \cap Mappings = {}
  /\ Storages \subseteq {"local", "s3", "cassandra"}
  /\ Faults \subseteq {"io", "crash"}

Requests ==
  [op : {"set"}, key : MappingKeys, reference : References]
    \cup [op : {"delete"}, key : MappingKeys, reference : {NoReference}]
    \cup [op : {"find"}, key : Queries, reference : {NoReference}]
NoRequest == [op |-> "none"]

VARIABLES
  storage,   \* the profile the server runs with
  mapping,   \* the mapping in memory
  file,      \* the file: NoFile, Empty, a mapping, or, while it is partly
             \* written, the thread that is (or was) writing it; or the rows
             \* of the table, {} for the text without a set, NullKey for null
  lock,      \* the thread that holds the file lock, or NoThread
  up,        \* FALSE if the server could not load the mapping and did not start
  pc,        \* pc[t]: what thread t does next
  request,   \* request[t]: the call t is in
  index,     \* index[t]: the entry of the precedence configuration t looks at
  pending,   \* pending[t]: the sets of scopes it has yet to come to there
  matches,   \* matches[t]: the mapped sets of scopes t has matched
  found,     \* found[t]: the reference t has found, or NoReference
  snapshot,  \* snapshot[t]: the serialized mapping t saves, or NoFile
  reply      \* reply[t]: how t's call ended

local == <<index, pending, matches, found>>
vars  == <<storage, mapping, file, lock, up, pc, request, local, snapshot, reply>>

Goto(t, label) ==
  /\ pc' = [pc EXCEPT ![t] = label]
  /\ UNCHANGED <<storage, up, request, reply>>

Answer(t, outcome) ==
  /\ pc' = [pc EXCEPT ![t] = "done"]
  /\ reply' = [reply EXCEPT ![t] = outcome]
  /\ UNCHANGED <<storage, up, request>>

(***************************************************************************)
(* A call begins and ends                                                  *)
(***************************************************************************)

Invoke(t, r) ==
  /\ up
  /\ pc[t] = "idle"
  /\ r.op \in Ops
  /\ pc' = [pc EXCEPT ![t] = IF r.op = "set" THEN "put" ELSE "lookup"]
  /\ request' = [request EXCEPT ![t] = r]
  /\ UNCHANGED <<storage, mapping, file, lock, up, local, snapshot, reply>>

Return(t) ==
  /\ pc[t] = "done"
  /\ pc'       = [pc EXCEPT ![t] = "idle"]
  /\ request'  = [request EXCEPT ![t] = NoRequest]
  /\ index'    = [index EXCEPT ![t] = 1]
  /\ pending'  = [pending EXCEPT ![t] = {}]
  /\ matches'  = [matches EXCEPT ![t] = {}]
  /\ found'    = [found EXCEPT ![t] = NoReference]
  /\ snapshot' = [snapshot EXCEPT ![t] = NoFile]
  /\ reply'    = [reply EXCEPT ![t] = "none"]
  /\ UNCHANGED <<storage, mapping, file, lock, up>>

(***************************************************************************)
(* setMapping                                                              *)
(***************************************************************************)

PutEntry(t) ==
  /\ pc[t] = "put"
  /\ mapping' = [key \in DOMAIN mapping \cup {request[t].key} |->
                   IF key = request[t].key THEN request[t].reference
                                           ELSE mapping[key]]
  /\ Goto(t, "save")
  /\ UNCHANGED <<file, lock, local, snapshot>>

(***************************************************************************)
(* VersionSetMapping.get, called by findMatch with the application among   *)
(* the scopes, and by deleteMapping to find out whether the key is there.  *)
(***************************************************************************)

(* A delete that found nothing is answered with NOT_FOUND, or, if no       *)
(* application was given, fails when it builds that message.               *)
AfterSearch(t, reference) ==
  IF request[t].op = "find"
    THEN Answer(t, IF reference = NoReference THEN "absent" ELSE "ok")
    ELSE IF reference # NoReference
           THEN Goto(t, "remove")
           ELSE \E outcome \in {"absent", "error"} : Answer(t, outcome)

LookUp(t) ==
  /\ pc[t] = "lookup"
  /\ Goto(t, IF request[t].key \in DOMAIN mapping THEN "fetch" ELSE "scan")
  /\ UNCHANGED <<mapping, file, lock, local, snapshot>>

(* The entry may have been removed since it was seen.                      *)
FetchEntry(t) ==
  /\ pc[t] = "fetch"
  /\ LET reference == IF request[t].key \in DOMAIN mapping
                        THEN mapping[request[t].key] ELSE NoReference
     IN  /\ found' = [found EXCEPT ![t] = reference]
         /\ AfterSearch(t, reference)
  /\ UNCHANGED <<mapping, file, lock, index, pending, matches, snapshot>>

(* Begin with an entry of the precedence configuration: the loop over the  *)
(* map can find a new match in what is mapped to, when it comes to it, one *)
(* of the sets of scopes that match and have not matched before.           *)
Scan(t) ==
  /\ pc[t] = "scan"
  /\ index[t] <= Len(Precedence)
  /\ LET next == IF index[t] \in Reached(request[t].key)
                   THEN MatchesAt(MappingKeys, request[t].key, index[t]) \ matches[t]
                   ELSE {}
     IN  /\ pending' = [pending EXCEPT ![t] = next]
         /\ index' = IF next = {} THEN [index EXCEPT ![t] = @ + 1] ELSE index
         /\ Goto(t, IF next = {} THEN "scan" ELSE "visit")
  /\ UNCHANGED <<mapping, file, lock, matches, found, snapshot>>

(* Mutant: the loop over the map ends with the first set of scopes.        *)
StopAt(t, key) ==
  /\ pending' = [pending EXCEPT ![t] = {}]
  /\ index' = [index EXCEPT ![t] = @ + 1]
  /\ Goto(t, "scan")

(* With the last set of scopes the loop over the map is over.              *)
PassBy(t, key) ==
  /\ pending' = [pending EXCEPT ![t] = @ \ {key}]
  /\ IF pending[t] = {key}
       THEN index' = [index EXCEPT ![t] = @ + 1] /\ Goto(t, "scan")
       ELSE UNCHANGED index /\ Goto(t, "visit")

(* Mutant: the first match is kept.                                        *)
VisitKeepingFirst(t) ==
  /\ pc[t] = "visit"
  /\ \E key \in pending[t] :
       /\ PassBy(t, key)
       /\ IF key \in DOMAIN mapping
            THEN /\ matches' = [matches EXCEPT ![t] = @ \cup {key}]
                 /\ found' = IF found[t] = NoReference
                              THEN [found EXCEPT ![t] = mapping[key]] ELSE found
            ELSE UNCHANGED <<matches, found>>
  /\ UNCHANGED <<mapping, file, lock, snapshot>>

(* The loop over the map comes to the place of a set of scopes, which is   *)
(* mapped at that time or not.  The places are in the order of the hash    *)
(* map, which can be any.  A match replaces what was found before.         *)
Visit(t) ==
  /\ pc[t] = "visit"
  /\ \E key \in pending[t] :
       /\ PassBy(t, key)
       /\ IF key \in DOMAIN mapping
            THEN /\ matches' = [matches EXCEPT ![t] = @ \cup {key}]
                 /\ found' = [found EXCEPT ![t] = mapping[key]]
            ELSE UNCHANGED <<matches, found>>
  /\ UNCHANGED <<mapping, file, lock, snapshot>>

EndScan(t) ==
  /\ pc[t] = "scan"
  /\ index[t] > Len(Precedence)
  /\ AfterSearch(t, found[t])
  /\ UNCHANGED <<mapping, file, lock, local, snapshot>>

(***************************************************************************)
(* deleteMapping                                                           *)
(***************************************************************************)

(* Mutant: the key stays, mapped to nothing.                               *)
RemoveReference(t) ==
  /\ pc[t] = "remove"
  /\ mapping' = [mapping EXCEPT ![request[t].key] = NoReference]
  /\ Goto(t, "save")
  /\ UNCHANGED <<file, lock, local, snapshot>>

RemoveEntry(t) ==
  /\ pc[t] = "remove"
  /\ mapping' = [key \in DOMAIN mapping \ {request[t].key} |-> mapping[key]]
  /\ Goto(t, "save")
  /\ UNCHANGED <<file, lock, local, snapshot>>

(***************************************************************************)
(* load                                                                    *)
(***************************************************************************)

(* What the text of a row's key is read as.                                *)
ParsedKey(text) == IF text = {} THEN NullKey ELSE text

(* Of two rows whose keys are read as the same, the one that the table     *)
(* answers last counts.                                                    *)
Parsed(rows) ==
  {m \in [{ParsedKey(text) : text \in DOMAIN rows} -> References] :
     \A key \in DOMAIN m :
       \E text \in DOMAIN rows : ParsedKey(text) = key /\ rows[text] = m[key]}

(* The mappings that can be loaded from a file, or from the table.  A file *)
(* that was partly overwritten may or may not be a JSON document.          *)
Load(content) ==
  CASE content \in Mappings -> IF storage = "cassandra" THEN Parsed(content) ELSE {content}
    [] content = NoFile     -> {EmptyMapping}
    [] content = Empty      -> {}
    [] content \in Threads  -> Mappings

(***************************************************************************)
(* save                                                                    *)
(***************************************************************************)

(* Mutant: only the entry that was changed is saved.                       *)
SerializeEntry(t) ==
  /\ pc[t] = "save"
  /\ snapshot' = [snapshot EXCEPT ![t] =
                    [key \in DOMAIN mapping \cap {request[t].key} |-> mapping[key]]]
  /\ Goto(t, "write")
  /\ UNCHANGED <<mapping, file, lock, local>>

Serialize(t) ==
  /\ pc[t] = "save"
  /\ snapshot' = [snapshot EXCEPT ![t] = mapping]
  /\ Goto(t, "write")
  /\ UNCHANGED <<mapping, file, lock, local>>

Created == IF file = NoFile THEN Empty ELSE file

(* Mutant: the lock is not looked at.                                      *)
OpenWithoutLock(t) ==
  /\ storage = "local"
  /\ pc[t] = "write"
  /\ file' = Created
  /\ lock' = t
  /\ Goto(t, "locked")
  /\ UNCHANGED <<mapping, local, snapshot>>

(* The local file is opened, which creates it, and then locked.            *)
OpenAndLock(t) ==
  /\ storage = "local"
  /\ pc[t] = "write"
  /\ lock = NoThread
  /\ file' = Created
  /\ lock' = t
  /\ Goto(t, "locked")
  /\ UNCHANGED <<mapping, local, snapshot>>

(* If another thread of this server holds the lock, tryLock throws.        *)
LockIsHeld(t) ==
  /\ storage = "local"
  /\ pc[t] = "write"
  /\ lock # NoThread
  /\ file' = Created
  /\ Answer(t, "error")
  /\ UNCHANGED <<mapping, lock, local, snapshot>>

StartWriting(t) ==
  /\ pc[t] = "locked"
  /\ file' = t
  /\ Goto(t, "writing")
  /\ UNCHANGED <<mapping, lock, local, snapshot>>

FinishWriting(t) ==
  /\ pc[t] = "writing"
  /\ file' = snapshot[t]
  /\ lock' = NoThread
  /\ Answer(t, "ok")
  /\ UNCHANGED <<mapping, local, snapshot>>

(* S3 replaces the object; the answer to the put can be lost.              *)
PutMapping(t) ==
  /\ storage = "s3"
  /\ pc[t] = "write"
  /\ file' = snapshot[t]
  /\ \E outcome \in {"ok"} \cup IF "io" \in Faults THEN {"error"} ELSE {} :
       Answer(t, outcome)
  /\ UNCHANGED <<mapping, lock, local, snapshot>>

Saved == IF file = NoFile THEN EmptyMapping ELSE file

(* Cassandra has a row for each key.  A save inserts all that is mapped,   *)
(* and deletes nothing.                                                    *)
InsertRows(t) ==
  /\ storage = "cassandra"
  /\ pc[t] = "write"
  /\ file' = [text \in DOMAIN snapshot[t] \cup DOMAIN Saved |->
                IF text \in DOMAIN snapshot[t] THEN snapshot[t][text] ELSE Saved[text]]
  /\ \E outcome \in {"ok"} \cup IF "io" \in Faults THEN {"error"} ELSE {} :
       Answer(t, outcome)
  /\ UNCHANGED <<mapping, lock, local, snapshot>>

(***************************************************************************)
(* Faults                                                                  *)
(***************************************************************************)

(* Mutant: a failure to save is only logged.                               *)
SwallowFailure(t) ==
  /\ "io" \in Faults
  /\ pc[t] \in {"write", "locked", "writing"}
  /\ lock' = IF lock = t THEN NoThread ELSE lock
  /\ Answer(t, "ok")
  /\ UNCHANGED <<mapping, file, local, snapshot>>

(* Mutant: the lock is not released in a finally block.                    *)
FailHoldingLock(t) ==
  /\ "io" \in Faults
  /\ pc[t] \in {"write", "locked", "writing"}
  /\ Answer(t, IF pc[t] = "write" THEN "error" ELSE "conflict")
  /\ UNCHANGED <<mapping, file, lock, local, snapshot>>

(* The storage call fails.  The lock is released.  The local storage calls *)
(* it a conflict once the file exists, which is the case after opening it. *)
IOFailure(t) ==
  /\ "io" \in Faults
  /\ pc[t] \in {"write", "locked", "writing"}
  /\ lock' = IF lock = t THEN NoThread ELSE lock
  /\ Answer(t, IF pc[t] = "write" THEN "error" ELSE "conflict")
  /\ UNCHANGED <<mapping, file, local, snapshot>>

(* The local file was opened and cannot be locked.                         *)
LockingFails(t) ==
  /\ "io" \in Faults
  /\ storage = "local"
  /\ pc[t] = "write"
  /\ file' = Created
  /\ Answer(t, "conflict")
  /\ UNCHANGED <<mapping, lock, local, snapshot>>

(* The server process dies and starts again.  It does not start if the     *)
(* mapping cannot be loaded.                                               *)
Restart ==
  /\ "crash" \in Faults
  /\ \/ mapping' \in Load(file) /\ up' = TRUE
     \/ /\ file \in {Empty} \cup Threads
        /\ mapping' = EmptyMapping
        /\ up' = FALSE
  /\ lock'     = NoThread
  /\ pc'       = [t \in Threads |-> "idle"]
  /\ request'  = [t \in Threads |-> NoRequest]
  /\ index'    = [t \in Threads |-> 1]
  /\ pending'  = [t \in Threads |-> {}]
  /\ matches'  = [t \in Threads |-> {}]
  /\ found'    = [t \in Threads |-> NoReference]
  /\ snapshot' = [t \in Threads |-> NoFile]
  /\ reply'    = [t \in Threads |-> "none"]
  /\ UNCHANGED <<storage, file>>

(***************************************************************************)
(* The specification                                                       *)
(***************************************************************************)

Init ==
  /\ storage \in Storages
  /\ mapping  = EmptyMapping
  /\ file     = NoFile
  /\ lock     = NoThread
  /\ up       = TRUE
  /\ pc       = [t \in Threads |-> "idle"]
  /\ request  = [t \in Threads |-> NoRequest]
  /\ index    = [t \in Threads |-> 1]
  /\ pending  = [t \in Threads |-> {}]
  /\ matches  = [t \in Threads |-> {}]
  /\ found    = [t \in Threads |-> NoReference]
  /\ snapshot = [t \in Threads |-> NoFile]
  /\ reply    = [t \in Threads |-> "none"]

Step(t) ==
  \/ PutEntry(t)
  \/ LookUp(t)
  \/ FetchEntry(t)
  \/ Scan(t)
  \/ Visit(t)
  \/ EndScan(t)
  \/ RemoveEntry(t)
  \/ Serialize(t)
  \/ OpenAndLock(t)
  \/ LockIsHeld(t)
  \/ StartWriting(t)
  \/ FinishWriting(t)
  \/ PutMapping(t)
  \/ InsertRows(t)
  \/ IOFailure(t)
  \/ LockingFails(t)

Next ==
  \/ \E t \in Threads, r \in Requests : Invoke(t, r)
  \/ \E t \in Threads : Step(t)
  \/ \E t \in Threads : Return(t)
  \/ Restart

Spec == Init /\ [][Next]_vars

(***************************************************************************)
(* Type correctness                                                        *)
(***************************************************************************)

Labels == {"idle", "put", "lookup", "fetch", "scan", "visit", "remove", "save",
           "write", "locked", "writing", "done"}

MappingTypeOK ==
  /\ storage  \in Storages
  /\ mapping  \in Mappings
  /\ file     \in Mappings \cup Threads \cup {NoFile, Empty}
  /\ lock     \in Threads \cup {NoThread}
  /\ up       \in BOOLEAN
  /\ pc       \in [Threads -> Labels]
  /\ request  \in [Threads -> Requests \cup {NoRequest}]
  /\ index    \in [Threads -> 1 .. Len(Precedence) + 1]
  /\ pending  \in [Threads -> SUBSET MappingKeys]
  /\ matches  \in [Threads -> SUBSET MappingKeys]
  /\ found    \in [Threads -> References \cup {NoReference}]
  /\ snapshot \in [Threads -> Mappings \cup {NoFile}]
  /\ reply    \in [Threads -> {"none", "ok", "absent", "conflict", "error"}]

(***************************************************************************)
(* Safety                                                                  *)
(***************************************************************************)

Ended(t, op, outcome) ==
  pc[t] = "done" /\ request[t].op = op /\ reply[t] = outcome

(* The mapped sets of scopes: the search skips a key that has none.        *)
Mapped == DOMAIN mapping \ {NullKey}

(* With one request at a time and while only configured combinations of    *)
(* keys are mapped, a find is answered from the mapping of its very key or *)
(* from the most specific mapping that applies to it, and with absent only *)
(* if no mapping applies (VersionSetMapping.get).                          *)
FindIsBest ==
  KeysConfigured(Mapped) => \A t \in Threads :
    LET query == request[t].key
        best  == IF query \in Mapped THEN {query} ELSE MostSpecific(Mapped, query)
    IN  /\ Ended(t, "find", "ok") => \E key \in best : found[t] = mapping[key]
        /\ Ended(t, "find", "absent") => Applicable(Mapped, query) = {}

(* Whatever is mapped, the answer is one that the operator Candidates      *)
(* allows: the loop over the configuration and the map computes what       *)
(* MappingServiceProofs proves about (VersionSetMapping.get).              *)
FindIsCandidate ==
  \A t \in Threads :
    LET candidates == Candidates(Mapped, request[t].key)
    IN  /\ Ended(t, "find", "ok") =>
             \E key \in candidates : found[t] = mapping[key]
        /\ Ended(t, "find", "absent") => candidates = {}

(* A save that is over, failed or not, has given the file lock back, so    *)
(* that it does not keep the next one from saving                          *)
(* (LocalFileStorageService.write).                                        *)
LockIsReleased ==
  lock # NoThread => pc[lock] \in {"locked", "writing"}

(* What the file lock is for: while a thread writes the file, what is in  *)
(* the file is that thread's, and nobody else's, also when others fail or  *)
(* died while they wrote (LocalFileStorageService.write).                  *)
WriterIsAlone ==
  \A t \in Threads : pc[t] = "writing" => file = t
=============================================================================
