------------------------- MODULE FlatFileRepository -------------------------
(***************************************************************************)
(* The flat-file repository of versioned entities                          *)
(* (BaseFlatFileRepository) on top of its storage (LocalFileStorageService *)
(* or S3FileStorageService).                                               *)
(*                                                                         *)
(* Every version of an entity is one file, <name>_-_<version>, in the      *)
(* directory of its class.  The request threads of the server call the     *)
(* repository concurrently and nothing locks it, so a request is modelled  *)
(* as a sequence of steps, one for each call it makes to the storage, and  *)
(* the steps of different threads interleave.  Everything the Java code    *)
(* keeps in local variables between two storage calls is a per-thread      *)
(* variable here.                                                          *)
(*                                                                         *)
(* A file is listed by the prefix of its name, so that the files of one    *)
(* name are also listed for every name that is a prefix of it.  StartsWith *)
(* is that relation on names.                                              *)
(***************************************************************************)
EXTENDS Naturals, FiniteSets

CONSTANTS
  Threads,     \* the threads that serve requests
  Names,       \* the names of entities of one class
  StartsWith,  \* the pairs <<m, n>> such that the name m starts with n
  MaxVersion,  \* versions are 1 .. MaxVersion, in semantic-version order
  Contents,    \* what a version can contain
  Absent,      \* no file
  Storage,     \* "local" or "s3"
  PageSize,    \* how many keys one S3 listing returns
  KeyRank,     \* the place of each file in the text order of S3 keys
  Faults       \* what can go wrong: a subset of {"io", "crash"}

Versions == 1 .. MaxVersion
Files    == Names \X Versions

ASSUME ConstantsAssumption ==
  /\ Names # {}
  /\ MaxVersion \in Nat \ {0}
  /\ StartsWith \subseteq Names \X Names
  /\ \A n \in Names : <<n, n>> \in StartsWith
  /\ PageSize \in Nat \ {0}
  /\ KeyRank \in [Files -> Nat]
  /\ Absent \notin Contents
  /\ Absent \notin Threads
  /\ Threads \cap Contents = {}
  /\ Storage \in {"local", "s3"}
  /\ Faults \subseteq {"io", "crash"}

(* A file can be absent, complete, or created but not yet filled: then it  *)
(* holds the thread that is (or was) writing it.                           *)
FileStates == Contents \cup Threads \cup {Absent}

WriteRequests == [op : {"create", "update"}, name : Names,
                  version : Versions, content : Contents]
PointRequests == [op : {"readVersion", "deleteVersion"}, name : Names,
                  version : Versions, content : {Absent}]
NameRequests  == [op : {"read", "versions", "delete"}, name : Names,
                  version : {0}, content : {Absent}]
Requests      == WriteRequests \cup PointRequests \cup NameRequests
NoRequest     == [op |-> "none"]

VARIABLES
  files,   \* the directory: what each file holds
  pc,      \* pc[t]: the storage call thread t makes next
  request, \* request[t]: the repository method t is in, with its arguments
  listed,  \* listed[t]: file names t has listed (and not yet deleted)
  latest,  \* latest[t]: the version t has picked as the latest, or 0
  found,   \* found[t]: the content t has read, or Absent
  reply    \* reply[t]: how t's call ended

vars == <<files, pc, request, listed, latest, found, reply>>

(***************************************************************************)
(* What the storage answers                                                *)
(***************************************************************************)

(* listObjects answers with the first page of the keys, and the code does  *)
(* not ask for the next one.                                               *)
FirstPage(keys) ==
  {f \in keys :
     Cardinality({g \in keys : KeyRank[g] < KeyRank[f]}) < PageSize}

(* getFileNamesStartingWith(path, name): a complete file and one that is   *)
(* still being written are both listed.                                    *)
ListedFor(name) ==
  LET all == {f \in Files : <<f[1], name>> \in StartsWith /\ files[f] # Absent}
  IN  IF Storage = "s3" THEN FirstPage(all) ELSE all

(* The file a request reads: its own version, or the latest it picked.     *)
ReadTarget(t) ==
  <<request[t].name,
    IF request[t].version = 0 \/ request[t].op = "update"
      THEN latest[t] ELSE request[t].version>>

(* The file a create or an update writes.                                  *)
WriteTarget(t) == <<request[t].name, request[t].version>>

Goto(t, label) ==
  /\ pc' = [pc EXCEPT ![t] = label]
  /\ UNCHANGED <<request, reply>>

Answer(t, outcome) ==
  /\ pc' = [pc EXCEPT ![t] = "done"]
  /\ reply' = [reply EXCEPT ![t] = outcome]
  /\ UNCHANGED request

(* A call that changes an S3 object can take effect and still fail for the *)
(* caller, when the answer is lost: the outcomes of such a call.           *)
OutcomesOf(outcome) ==
  {outcome} \cup
    IF Storage = "s3" /\ "io" \in Faults THEN {"error"} ELSE {}

(***************************************************************************)
(* A thread enters and leaves a repository method                          *)
(***************************************************************************)

FirstCall(op) ==
  CASE op = "create"                          -> "exists"
    [] op \in {"update", "read", "versions"}  -> "list"
    [] op = "delete"                          -> "listAll"
    [] op \in {"readVersion", "deleteVersion"} -> "read"

Invoke(t, r) ==
  /\ pc[t] = "idle"
  /\ pc' = [pc EXCEPT ![t] = FirstCall(r.op)]
  /\ request' = [request EXCEPT ![t] = r]
  /\ UNCHANGED <<files, listed, latest, found, reply>>

Return(t) ==
  /\ pc[t] = "done"
  /\ pc'      = [pc EXCEPT ![t] = "idle"]
  /\ request' = [request EXCEPT ![t] = NoRequest]
  /\ listed'  = [listed EXCEPT ![t] = {}]
  /\ latest'  = [latest EXCEPT ![t] = 0]
  /\ found'   = [found EXCEPT ![t] = Absent]
  /\ reply'   = [reply EXCEPT ![t] = "none"]
  /\ UNCHANGED files

(***************************************************************************)
(* create: refuse a name that is already taken, then write a new file      *)
(***************************************************************************)

(* Mutant: the version is looked for instead of the name.                  *)
CheckVersion(t) ==
  /\ pc[t] = "exists"
  /\ IF files[WriteTarget(t)] # Absent
       THEN Answer(t, "conflict")
       ELSE Goto(t, "write")
  /\ UNCHANGED <<files, listed, latest, found>>

CheckName(t) ==
  /\ pc[t] = "exists"
  /\ IF ListedFor(request[t].name) # {}
       THEN Answer(t, "conflict")
       ELSE Goto(t, "write")
  /\ UNCHANGED <<files, listed, latest, found>>

(***************************************************************************)
(* versions, readLatestVersion: list the files, then pick the highest      *)
(* version among them.  Where delete(name) finds none left it calls get()  *)
(* on an absent Optional, which fails.                                     *)
(***************************************************************************)

NothingListed(t) ==
  /\ pc[t] = "list"
  /\ ListedFor(request[t].name) = {}
  /\ Answer(t, IF request[t].op = "delete" THEN "error" ELSE "absent")
  /\ UNCHANGED <<files, listed, latest, found>>

ListVersions(t) ==
  /\ pc[t] = "list"
  /\ request[t].op = "versions"
  /\ ListedFor(request[t].name) # {}
  /\ listed' = [listed EXCEPT ![t] = ListedFor(request[t].name)]
  /\ Answer(t, "ok")
  /\ UNCHANGED <<files, latest, found>>

(* Mutant: the version after the latest.                                   *)
PickNextVersion(t) ==
  /\ pc[t] = "list"
  /\ request[t].op # "versions"
  /\ \E f \in ListedFor(request[t].name) :
       /\ \A g \in ListedFor(request[t].name) : g[2] <= f[2]
       /\ latest' = [latest EXCEPT ![t] = f[2] + 1]
  /\ Goto(t, "read")
  /\ UNCHANGED <<files, listed, found>>

(* Mutant: versions compared as text.                                      *)
PickLastInTextOrder(t) ==
  /\ pc[t] = "list"
  /\ request[t].op # "versions"
  /\ \E f \in ListedFor(request[t].name) :
       /\ \A g \in ListedFor(request[t].name) : KeyRank[g] <= KeyRank[f]
       /\ latest' = [latest EXCEPT ![t] = f[2]]
  /\ Goto(t, "read")
  /\ UNCHANGED <<files, listed, found>>

PickLatest(t) ==
  /\ pc[t] = "list"
  /\ request[t].op # "versions"
  /\ \E f \in ListedFor(request[t].name) :
       /\ \A g \in ListedFor(request[t].name) : g[2] <= f[2]
       /\ latest' = [latest EXCEPT ![t] = f[2]]
  /\ Goto(t, "read")
  /\ UNCHANGED <<files, listed, found>>

(***************************************************************************)
(* Read one file: ask whether it exists, then open it.  Opening a file     *)
(* that was deleted in between is an error, and so is reading one that is  *)
(* not yet complete, which is no JSON document.                            *)
(***************************************************************************)

ReadMissing(t) ==
  /\ pc[t] = "read"
  /\ files[ReadTarget(t)] = Absent
  /\ Answer(t, IF request[t].op = "delete" THEN "error" ELSE "absent")
  /\ UNCHANGED <<files, listed, latest, found>>

SeeFile(t) ==
  /\ pc[t] = "read"
  /\ files[ReadTarget(t)] # Absent
  /\ Goto(t, "open")
  /\ UNCHANGED <<files, listed, latest, found>>

ReadUnreadable(t) ==
  /\ pc[t] = "open"
  /\ files[ReadTarget(t)] \notin Contents
  /\ Answer(t, "error")
  /\ UNCHANGED <<files, listed, latest, found>>

AfterRead(op) == IF op = "update" THEN "write" ELSE "remove"

ReadComplete(t) ==
  /\ pc[t] = "open"
  /\ files[ReadTarget(t)] \in Contents
  /\ found' = [found EXCEPT ![t] = files[ReadTarget(t)]]
  /\ IF request[t].op \in {"read", "readVersion"}
       THEN Answer(t, "ok")
       ELSE Goto(t, AfterRead(request[t].op))
  /\ UNCHANGED <<files, listed, latest>>

(***************************************************************************)
(* Write a new file, never over an existing one.                           *)
(* The local storage opens it with CREATE_NEW and then writes the bytes;   *)
(* bytes written to a file that was unlinked in between are lost.          *)
(* S3 asks whether the object exists and then puts it.                     *)
(***************************************************************************)

WriteConflict(t) ==
  /\ pc[t] = "write"
  /\ files[WriteTarget(t)] # Absent
  /\ Answer(t, "conflict")
  /\ UNCHANGED <<files, listed, latest, found>>

(* Mutant: opened with CREATE instead of CREATE_NEW.                       *)
OpenOrCreateFile(t) ==
  /\ Storage = "local"
  /\ pc[t] = "write"
  /\ files' = [files EXCEPT ![WriteTarget(t)] = t]
  /\ Goto(t, "fill")
  /\ UNCHANGED <<listed, latest, found>>

CreateNewFile(t) ==
  /\ Storage = "local"
  /\ pc[t] = "write"
  /\ files[WriteTarget(t)] = Absent
  /\ files' = [files EXCEPT ![WriteTarget(t)] = t]
  /\ Goto(t, "fill")
  /\ UNCHANGED <<listed, latest, found>>

(* Mutant: the bytes go to whatever file now has the name.                 *)
FillByName(t) ==
  /\ pc[t] = "fill"
  /\ files' = [files EXCEPT ![WriteTarget(t)] = request[t].content]
  /\ Answer(t, "ok")
  /\ UNCHANGED <<listed, latest, found>>

FillFile(t) ==
  /\ pc[t] = "fill"
  /\ files' = [files EXCEPT ![WriteTarget(t)] =
                 IF @ = t THEN request[t].content ELSE @]
  /\ Answer(t, "ok")
  /\ UNCHANGED <<listed, latest, found>>

SeeNoObject(t) ==
  /\ Storage = "s3"
  /\ pc[t] = "write"
  /\ files[WriteTarget(t)] = Absent
  /\ Goto(t, "put")
  /\ UNCHANGED <<files, listed, latest, found>>

PutObject(t) ==
  /\ pc[t] = "put"
  /\ files' = [files EXCEPT ![WriteTarget(t)] = request[t].content]
  /\ \E outcome \in OutcomesOf("ok") : Answer(t, outcome)
  /\ UNCHANGED <<listed, latest, found>>

(***************************************************************************)
(* delete(name): list the files, read the latest as the value to return,   *)
(* then delete the files listed, in any order; a file that is already gone *)
(* is passed over.                                                         *)
(***************************************************************************)

(* Mutant: the directory is listed without the name.                       *)
ListDirectory(t) ==
  /\ pc[t] = "listAll"
  /\ listed' = [listed EXCEPT ![t] = {f \in Files : files[f] # Absent}]
  /\ IF ListedFor(request[t].name) = {}
       THEN Answer(t, "absent")
       ELSE Goto(t, "list")
  /\ UNCHANGED <<files, latest, found>>

ListForDelete(t) ==
  /\ pc[t] = "listAll"
  /\ listed' = [listed EXCEPT ![t] = ListedFor(request[t].name)]
  /\ IF ListedFor(request[t].name) = {}
       THEN Answer(t, "absent")
       ELSE Goto(t, "list")
  /\ UNCHANGED <<files, latest, found>>

(* Mutant: only the latest version is deleted.                             *)
DeleteLatestOnly(t) ==
  /\ pc[t] = "remove"
  /\ request[t].op = "delete"
  /\ files' = [files EXCEPT ![ReadTarget(t)] = Absent]
  /\ Answer(t, "ok")
  /\ UNCHANGED <<listed, latest, found>>

DeleteListed(t) ==
  /\ pc[t] = "remove"
  /\ request[t].op = "delete"
  /\ \E f \in listed[t] :
       /\ files' = [files EXCEPT ![f] = Absent]
       /\ listed' = [listed EXCEPT ![t] = @ \ {f}]
       /\ \E outcome \in OutcomesOf("ok") :
            IF listed[t] # {f} /\ outcome = "ok"
              THEN Goto(t, "remove")
              ELSE Answer(t, outcome)
  /\ UNCHANGED <<latest, found>>

(***************************************************************************)
(* delete(name, version): delete the file that was read.  That it is gone  *)
(* is an error ("Inconsistent state").  S3 asks whether the object exists, *)
(* deletes it in any case, and reports what it saw.                        *)
(***************************************************************************)

DeleteVersion(t) ==
  /\ Storage = "local"
  /\ pc[t] = "remove"
  /\ request[t].op = "deleteVersion"
  /\ files' = [files EXCEPT ![ReadTarget(t)] = Absent]
  /\ Answer(t, IF files[ReadTarget(t)] = Absent THEN "error" ELSE "ok")
  /\ UNCHANGED <<listed, latest, found>>

(* Mutant: the object is looked for and never deleted.                     *)
ReportObject(t) ==
  /\ Storage = "s3"
  /\ pc[t] = "remove"
  /\ request[t].op = "deleteVersion"
  /\ Answer(t, IF files[ReadTarget(t)] = Absent THEN "error" ELSE "ok")
  /\ UNCHANGED <<files, listed, latest, found>>

LookForObject(t) ==
  /\ Storage = "s3"
  /\ pc[t] = "remove"
  /\ request[t].op = "deleteVersion"
  /\ Goto(t, IF files[ReadTarget(t)] = Absent THEN "unlinkGone" ELSE "unlink")
  /\ UNCHANGED <<files, listed, latest, found>>

DeleteObject(t) ==
  /\ pc[t] \in {"unlink", "unlinkGone"}
  /\ files' = [files EXCEPT ![ReadTarget(t)] = Absent]
  /\ \E outcome \in OutcomesOf(IF pc[t] = "unlink" THEN "ok" ELSE "error") :
       Answer(t, outcome)
  /\ UNCHANGED <<listed, latest, found>>

(***************************************************************************)
(* Faults                                                                  *)
(***************************************************************************)

StorageCalls == {"exists", "list", "listAll", "read", "open", "write", "fill", "put",
                 "remove", "unlink", "unlinkGone"}

(* The storage call of t fails with an IOException and has no effect.  The *)
(* local storage reports a conflict if the file it was writing exists,     *)
(* its own unfinished file included; every other failure is a 500.         *)
IOFailure(t) ==
  /\ "io" \in Faults
  /\ pc[t] \in StorageCalls
  /\ Answer(t, IF /\ Storage = "local"
                  /\ pc[t] \in {"write", "fill"}
                  /\ files[WriteTarget(t)] # Absent
                 THEN "conflict" ELSE "error")
  /\ UNCHANGED <<files, listed, latest, found>>

(* The server process dies and starts again: its requests are lost, what   *)
(* the storage holds stays as it is.                                       *)
Restart ==
  /\ "crash" \in Faults
  /\ pc'      = [t \in Threads |-> "idle"]
  /\ request' = [t \in Threads |-> NoRequest]
  /\ listed'  = [t \in Threads |-> {}]
  /\ latest'  = [t \in Threads |-> 0]
  /\ found'   = [t \in Threads |-> Absent]
  /\ reply'   = [t \in Threads |-> "none"]
  /\ UNCHANGED files

(***************************************************************************)
(* The specification                                                       *)
(***************************************************************************)

Init ==
  /\ files   = [f \in Files |-> Absent]
  /\ pc      = [t \in Threads |-> "idle"]
  /\ request = [t \in Threads |-> NoRequest]
  /\ listed  = [t \in Threads |-> {}]
  /\ latest  = [t \in Threads |-> 0]
  /\ found   = [t \in Threads |-> Absent]
  /\ reply   = [t \in Threads |-> "none"]

(* One call to the storage by the request thread t is in.                  *)
Step(t) ==
  \/ CheckName(t)
  \/ NothingListed(t)
  \/ ListVersions(t)
  \/ PickLatest(t)
  \/ ReadMissing(t)
  \/ SeeFile(t)
  \/ ReadUnreadable(t)
  \/ ReadComplete(t)
  \/ WriteConflict(t)
  \/ CreateNewFile(t)
  \/ FillFile(t)
  \/ SeeNoObject(t)
  \/ PutObject(t)
  \/ ListForDelete(t)
  \/ DeleteListed(t)
  \/ DeleteVersion(t)
  \/ LookForObject(t)
  \/ DeleteObject(t)
  \/ IOFailure(t)

Next ==
  \/ \E t \in Threads, r \in Requests : Invoke(t, r)
  \/ \E t \in Threads : Step(t)
  \/ \E t \in Threads : Return(t)
  \/ Restart

Spec == Init /\ [][Next]_vars

(***************************************************************************)
(* Type correctness: the values of the variables, the calls each storage   *)
(* is asked for, and what a thread knows at each of its steps.             *)
(***************************************************************************)

Labels ==
  {"idle", "exists", "list", "listAll", "read", "open", "write", "remove", "done"}
    \cup IF Storage = "local" THEN {"fill"} ELSE {"put", "unlink", "unlinkGone"}

Outcomes == {"none", "ok", "absent", "conflict", "error"}

TypeOK ==
  /\ files   \in [Files -> FileStates]
  /\ pc      \in [Threads -> Labels]
  /\ request \in [Threads -> Requests \cup {NoRequest}]
  /\ listed  \in [Threads -> SUBSET Files]
  /\ latest  \in [Threads -> 0 .. MaxVersion]
  /\ found   \in [Threads -> Contents \cup {Absent}]
  /\ reply   \in [Threads -> Outcomes]

(***************************************************************************)
(* Safety                                                                  *)
(***************************************************************************)

MovedBy(t) == <<pc[t], listed[t]>> # <<pc'[t], listed'[t]>>

(* A step that removes a file is a step of a delete of that very name      *)
(* (BaseFlatFileRepository.delete, whose listing goes by prefix).          *)
DeletesOwnFilesOnly ==
  [][\A f \in Files :
       files[f] # Absent /\ files'[f] = Absent =>
         \E t \in Threads :
           /\ MovedBy(t)
           /\ request[t].op \in {"delete", "deleteVersion"}
           /\ request[t].name = f[1]]_vars

(***************************************************************************)
(* Refinement: what is visible through read(name, version) is a store of   *)
(* immutable versions.                                                     *)
(***************************************************************************)

Visible == [f \in Files |-> IF files[f] \in Contents THEN files[f] ELSE Absent]

Store == INSTANCE VersionedStore WITH Artifacts <- Files, store <- Visible

(* The repository implements the store: versions appear whole, never       *)
(* change while they exist, and disappear by being deleted.                *)
ImplementsStore == Store!Spec
=============================================================================
