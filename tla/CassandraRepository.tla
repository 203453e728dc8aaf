------------------------ MODULE CassandraRepository -------------------------
(***************************************************************************)
(* The repository of versioned entities over Cassandra                     *)
(* (BaseCassandraRepository): a table whose partitions are the names and   *)
(* whose rows are the versions of a name, in the order of their text.      *)
(* Every statement that the repository executes is a step; nothing ties    *)
(* the statements of a method together, and an insert does not ask what    *)
(* it overwrites.  update is the delegate's, which compares versions       *)
(* before it calls the repository's (PropertyGroupBDImpl).                 *)
(*                                                                         *)
(* The table is external: one that answers each statement as of one        *)
(* moment, as a single node does.                                          *)
(***************************************************************************)
EXTENDS SemanticVersion, FiniteSets

CONSTANTS
  Threads,
  Names,
  Versions,
  Contents,
  Ops,      \* the methods that clients call
  Faults,   \* "io": a statement fails; "lost": it fails after it was executed;
            \* "crash": the server restarts
  Absent    \* no row; no version

ASSUME CassandraConstantsAssumption ==
  /\ Versions \subseteq AllVersions
  /\ Ops \subseteq {"create", "update", "read", "readVersion", "delete", "deleteVersion"}
  /\ Absent \notin Names \cup Versions \cup Contents

VARIABLES
  rows,     \* the table: the content of each name and version
  pc,       \* the next statement of a thread
  request,  \* the call it is in
  latest,   \* the version that it has selected as the latest
  outcome,  \* how its call ended
  kept,     \* history: versions of the name stored ever since the call began
  dropped   \* history: whether a version of the name was deleted since

vars == <<rows, pc, request, latest, outcome, kept, dropped>>

Keys == Names \X Versions

NoRequest == [op |-> "none", name |-> Absent, version |-> Absent, content |-> Absent]

Requests ==
  {r \in [op : {"create", "update"}, name : Names, version : Versions, content : Contents]
      \cup [op : {"readVersion", "deleteVersion"}, name : Names, version : Versions,
            content : {Absent}]
      \cup [op : {"read", "delete"}, name : Names, version : {Absent}, content : {Absent}] :
    r.op \in Ops}

Stored(n) == {v \in Versions : rows[<<n, v>>] # Absent}

Goto(t, label) ==
  /\ pc' = [pc EXCEPT ![t] = label]
  /\ UNCHANGED outcome

Finish(t, how) ==
  /\ pc' = [pc EXCEPT ![t] = "done"]
  /\ outcome' = [outcome EXCEPT ![t] = how]

(***************************************************************************)
(* A call begins and ends                                                  *)
(***************************************************************************)

FirstStatement(op) ==
  CASE op = "create"                          -> "insert"
    [] op \in {"update", "read"}              -> "selectLatest"
    [] op \in {"readVersion", "deleteVersion"} -> "selectRow"
    [] op = "delete"                          -> "selectFirst"

Invoke(t, r) ==
  /\ pc[t] = "idle"
  /\ Goto(t, FirstStatement(r.op))
  /\ request' = [request EXCEPT ![t] = r]
  /\ kept' = [kept EXCEPT ![t] = Stored(r.name)]
  /\ UNCHANGED <<rows, latest, dropped>>

Respond(t) ==
  /\ pc[t] = "done"
  /\ pc'      = [pc EXCEPT ![t] = "idle"]
  /\ request' = [request EXCEPT ![t] = NoRequest]
  /\ latest'  = [latest EXCEPT ![t] = Absent]
  /\ outcome' = [outcome EXCEPT ![t] = "none"]
  /\ kept'    = [kept EXCEPT ![t] = {}]
  /\ dropped' = [dropped EXCEPT ![t] = FALSE]
  /\ UNCHANGED rows

(***************************************************************************)
(* Selects                                                                 *)
(***************************************************************************)

(* read(name) opens the first version unchecked: there must be one.        *)
NothingStored(t) ==
  /\ pc[t] = "selectLatest"
  /\ Stored(request[t].name) = {}
  /\ Finish(t, "error")
  /\ UNCHANGED <<rows, request, latest, kept, dropped>>

(* Mutant: the versions are selected without an order.                     *)
SelectUnordered(t, v) ==
  /\ pc[t] = "selectLatest"
  /\ v \in Stored(request[t].name)
  /\ latest' = [latest EXCEPT ![t] = v]
  /\ Goto(t, "selectRow")
  /\ UNCHANGED <<rows, request, kept, dropped>>

(* Mutant: the whole key of the row is taken for its version.              *)
SelectLatestKey(t, v) ==
  /\ pc[t] = "selectLatest"
  /\ v \in Stored(request[t].name)
  /\ \A w \in Stored(request[t].name) : ~TextLower(v, w)
  /\ latest' = [latest EXCEPT ![t] = <<request[t].name, v>>]
  /\ Goto(t, "selectRow")
  /\ UNCHANGED <<rows, request, kept, dropped>>

(* The versions come in descending order of their text.                    *)
SelectLatest(t, v) ==
  /\ pc[t] = "selectLatest"
  /\ v \in Stored(request[t].name)
  /\ \A w \in Stored(request[t].name) : ~TextLower(v, w)
  /\ latest' = [latest EXCEPT ![t] = v]
  /\ Goto(t, "selectRow")
  /\ UNCHANGED <<rows, request, kept, dropped>>

(* Mutant: an update looks for the version it is about to write.           *)
SelectedByRequest(t) == IF request[t].op = "read" THEN latest[t] ELSE request[t].version

(* The version whose row a thread selects.                                 *)
Selected(t) == IF request[t].op \in {"read", "update"} THEN latest[t] ELSE request[t].version

RowMissing(t) ==
  /\ pc[t] = "selectRow"
  /\ rows[<<request[t].name, Selected(t)>>] = Absent
  /\ Finish(t, "absent")
  /\ UNCHANGED <<rows, request, latest, kept, dropped>>

ReadRow(t) ==
  /\ pc[t] = "selectRow"
  /\ request[t].op \in {"read", "readVersion"}
  /\ rows[<<request[t].name, Selected(t)>>] # Absent
  /\ Finish(t, "ok")
  /\ UNCHANGED <<rows, request, latest, kept, dropped>>

RowToDelete(t) ==
  /\ pc[t] = "selectRow"
  /\ request[t].op = "deleteVersion"
  /\ rows[<<request[t].name, Selected(t)>>] # Absent
  /\ Goto(t, "deleteRow")
  /\ UNCHANGED <<rows, request, latest, kept, dropped>>

(* Mutant: an update may repeat the latest version.                        *)
CompareLoosely(t) ==
  /\ pc[t] = "selectRow"
  /\ request[t].op = "update"
  /\ rows[<<request[t].name, latest[t]>>] # Absent
  /\ IF NotComparable(request[t].version, latest[t])   THEN Finish(t, "error")
     ELSE IF ~Lower(request[t].version, latest[t])     THEN Goto(t, "selectFirst")
     ELSE Finish(t, "conflict")
  /\ UNCHANGED <<rows, request, latest, kept, dropped>>

(* update of the delegate: the version must be higher than the latest.     *)
CompareVersions(t) ==
  /\ pc[t] = "selectRow"
  /\ request[t].op = "update"
  /\ rows[<<request[t].name, latest[t]>>] # Absent
  /\ IF NotComparable(request[t].version, latest[t])   THEN Finish(t, "error")
     ELSE IF Lower(latest[t], request[t].version)      THEN Goto(t, "selectFirst")
     ELSE Finish(t, "conflict")
  /\ UNCHANGED <<rows, request, latest, kept, dropped>>

(* Any row of the name will do for update and delete of the repository.    *)
SelectFirst(t) ==
  /\ pc[t] = "selectFirst"
  /\ CASE Stored(request[t].name) = {} -> Finish(t, "absent")
       [] Stored(request[t].name) # {} ->
            Goto(t, IF request[t].op = "update" THEN "insert" ELSE "deleteRows")
  /\ UNCHANGED <<rows, request, latest, kept, dropped>>

(***************************************************************************)
(* Inserts and deletes                                                     *)
(***************************************************************************)

Insert(t) ==
  /\ rows' = [rows EXCEPT ![<<request[t].name, request[t].version>>] = request[t].content]
  /\ UNCHANGED <<kept, dropped>>

Erase(n, versions) ==
  /\ rows' = [k \in Keys |-> IF k[1] = n /\ k[2] \in versions THEN Absent ELSE rows[k]]
  /\ kept' = [u \in Threads |-> IF request[u].name = n THEN kept[u] \ versions ELSE kept[u]]
  /\ dropped' = [u \in Threads |->
       dropped[u] \/ (request[u].name = n /\ versions \cap Stored(n) # {})]

(* Mutant: only the row that was selected first is deleted.                *)
EraseFirst(t) ==
  CASE pc[t] = "insert"     -> Insert(t)
    [] pc[t] = "deleteRow"  -> Erase(request[t].name, {request[t].version})
    [] pc[t] = "deleteRows" -> \E v \in Stored(request[t].name) : Erase(request[t].name, {v})

Apply(t) ==
  CASE pc[t] = "insert"     -> Insert(t)
    [] pc[t] = "deleteRow"  -> Erase(request[t].name, {request[t].version})
    [] pc[t] = "deleteRows" -> Erase(request[t].name, Versions)

Modify(t) ==
  /\ pc[t] \in {"insert", "deleteRow", "deleteRows"}
  /\ Apply(t)
  /\ Finish(t, "ok")
  /\ UNCHANGED <<request, latest>>

(***************************************************************************)
(* Faults                                                                  *)
(***************************************************************************)

StatementFails(t) ==
  /\ "io" \in Faults
  /\ pc[t] \notin {"idle", "done"}
  /\ Finish(t, "error")
  /\ UNCHANGED <<rows, request, latest, kept, dropped>>

(* The statement was executed, and its answer got lost.                    *)
AnswerLost(t) ==
  /\ "lost" \in Faults
  /\ pc[t] \in {"insert", "deleteRow", "deleteRows"}
  /\ Apply(t)
  /\ Finish(t, "error")
  /\ UNCHANGED <<request, latest>>

Restart ==
  /\ "crash" \in Faults
  /\ pc'      = [t \in Threads |-> "idle"]
  /\ request' = [t \in Threads |-> NoRequest]
  /\ latest'  = [t \in Threads |-> Absent]
  /\ outcome' = [t \in Threads |-> "none"]
  /\ kept'    = [t \in Threads |-> {}]
  /\ dropped' = [t \in Threads |-> FALSE]
  /\ UNCHANGED rows

(***************************************************************************)
(* The specification                                                       *)
(***************************************************************************)

Init ==
  /\ rows    = [k \in Keys |-> Absent]
  /\ pc      = [t \in Threads |-> "idle"]
  /\ request = [t \in Threads |-> NoRequest]
  /\ latest  = [t \in Threads |-> Absent]
  /\ outcome = [t \in Threads |-> "none"]
  /\ kept    = [t \in Threads |-> {}]
  /\ dropped = [t \in Threads |-> FALSE]

Select(t) ==
  \/ NothingStored(t)
  \/ \E v \in Versions : SelectLatest(t, v)
  \/ RowMissing(t)
  \/ ReadRow(t)
  \/ RowToDelete(t)
  \/ CompareVersions(t)
  \/ SelectFirst(t)

Step(t) ==
  \/ Select(t)
  \/ Modify(t)
  \/ StatementFails(t)
  \/ AnswerLost(t)
  \/ Respond(t)

Next ==
  \/ \E t \in Threads, r \in Requests : Invoke(t, r)
  \/ \E t \in Threads : Step(t)
  \/ Restart

Spec == Init /\ [][Next]_vars

(***************************************************************************)
(* Type correctness                                                        *)
(***************************************************************************)

Labels == {"idle", "selectLatest", "selectRow", "selectFirst", "insert", "deleteRow",
           "deleteRows", "done"}

Outcomes == {"none", "ok", "absent", "conflict", "error"}

CassandraTypeOK ==
  /\ rows    \in [Keys -> Contents \cup {Absent}]
  /\ pc      \in [Threads -> Labels]
  /\ request \in [Threads -> Requests \cup {NoRequest}]
  /\ latest  \in [Threads -> Versions \cup {Absent}]
  /\ outcome \in [Threads -> Outcomes]
  /\ kept    \in [Threads -> SUBSET Versions]
  /\ dropped \in [Threads -> BOOLEAN]

(***************************************************************************)
(* Safety                                                                  *)
(***************************************************************************)

(* The latest version that a read answers is as high as any that was       *)
(* stored all through the call, among those whose parts have as many       *)
(* digits: 9.0.0 is answered where 10.0.0 is stored                        *)
(* (BaseCassandraRepository.read and getVersions).                         *)
ReadIsLatest ==
  \A t \in Threads :
    request[t].op = "read" /\ outcome[t] = "ok" =>
      \A v \in kept[t] : SameWidths(v, latest[t]) => ~Lower(latest[t], v)

(* An update that succeeds has written a version higher than any that was  *)
(* stored all through the call and is written with as many digits as the   *)
(* latest: of those it overwrites none (PropertyGroupBDImpl.update over    *)
(* BaseCassandraRepository, whose inserts overwrite).                      *)
UpdateGoesUp ==
  \A t \in Threads :
    request[t].op = "update" /\ outcome[t] = "ok" =>
      \A v \in kept[t] : SameWidths(v, latest[t]) => Lower(v, request[t].version)

(* After a delete has succeeded, nothing that it was to delete has been    *)
(* there all the time (BaseCassandraRepository.delete, which looks at one  *)
(* row before it deletes).                                                 *)
DeletedRowsAreGone ==
  \A t \in Threads :
    outcome[t] = "ok" =>
      /\ request[t].op = "delete" => kept[t] = {}
      /\ request[t].op = "deleteVersion" => request[t].version \notin kept[t]

(* A read or an update of a name finds nothing only if a version of it was *)
(* deleted meanwhile; of a name that has none, it is an error instead      *)
(* (BaseCassandraRepository.read, which opens an empty Optional).          *)
AbsentWasDropped ==
  \A t \in Threads :
    request[t].op \in {"read", "update"} /\ outcome[t] = "absent" => dropped[t]
=============================================================================
