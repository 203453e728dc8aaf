------------------------- MODULE ReferenceIntegrity -------------------------
(***************************************************************************)
(* What refers to what, while clients create, delete, batch and search:    *)
(* version sets refer to property groups, the mapping to version sets.     *)
(*                                                                         *)
(* Nothing locks the two directories.  A reference is validated to exist   *)
(* (VersionSetValidator, CheckReferenceValidator, GroupValidator) before   *)
(* its owner is written, a property group is validated to be unreferenced  *)
(* (PropertyGroupFlatFileRepository.deleteValidation) before it is         *)
(* deleted, and each of these is a sequence of storage calls.  The storage *)
(* is the local one.  FlatFileRepository has the steps of a single         *)
(* repository in full; here a write is what it does to the files, and the  *)
(* checks that come before it may refuse it.                               *)
(***************************************************************************)
EXTENDS Naturals, FiniteSets

CONSTANTS
  Threads,
  Names,       \* names of property groups
  MaxVersion,
  Sets,        \* version sets, each a name and a version
  Contents,    \* contents of property groups
  References,  \* the sets of references that clients give a version set
  Batches,     \* the batches that clients send
  Ops,         \* the methods that clients call
  Faults,      \* "io": a storage call fails; "crash": the server restarts
  Absent       \* no file; not found

Groups == Names \X (1 .. MaxVersion)
Items  == Groups \cup Sets
Data   == Contents \cup SUBSET Groups

(* A batch as the server holds it: property groups with their contents,    *)
(* version sets with their references, and the version sets to be mapped.  *)
(* It is a set of version sets that are compared without their versions,   *)
(* so of those sent that differ in their version alone it has one.         *)
BatchType ==
  [groups : UNION {[D -> Contents] : D \in SUBSET Groups},
   sets   : UNION {[D -> SUBSET Groups] : D \in SUBSET Sets},
   maps   : SUBSET Sets]

ASSUME ReferenceConstantsAssumption ==
  /\ MaxVersion \in Nat
  /\ Groups \cap Sets = {}
  /\ References \subseteq SUBSET Groups
  /\ \A b \in Batches : b \in BatchType
  /\ Ops \subseteq {"createGroup", "createSet", "deleteVersion", "deleteName",
                    "deleteSet", "map", "batch", "find"}
  /\ Absent \notin Threads
  /\ \A d \in Data : d \notin Threads \cup {Absent}

VARIABLES
  files,    \* the two directories: a file holds its data, or its writer until it is filled
  mapped,   \* the version sets that a lookup in the mapping may answer
  late,     \* what tasks of failed batches may yet write
  pc,       \* the next step of a thread
  req,      \* its request
  todo,     \* what its loop has yet to visit
  current,  \* what it writes
  outcome,  \* how its request ended
  removed,  \* history: every file that was erased, with what it held
  since     \* history: version sets that were whole since the request began

vars == <<files, mapped, late, pc, req, todo, current, outcome, removed, since>>

Whole(i) == files[i] \notin Threads \cup {Absent}

WholeSets == {s \in Sets : Whole(s)}

Retracted == {x[1] : x \in removed}

(* What a read through a delegate can answer: what is stored, or was, since *)
(* its cache may be stale (EntityService); absent can be stale too.         *)
Answers(i) == {d \in Data : (Whole(i) /\ d = files[i]) \/ <<i, d>> \in removed}

NoRequest == [op |-> "none", item |-> Absent, data |-> Absent]

Request(op, item, data) == [op |-> op, item |-> item, data |-> data]

Requests ==
  {r \in {Request("createGroup", g, c) : g \in Groups, c \in Contents}
      \cup {Request("createSet", s, d) : s \in Sets, d \in References}
      \cup {Request("deleteVersion", g, Absent) : g \in Groups}
      \cup {Request("deleteName", n, Absent) : n \in Names}
      \cup {Request(op, s, Absent) : op \in {"deleteSet", "map"}, s \in Sets}
      \cup {Request("batch", Absent, b) : b \in Batches}
      \cup {Request("find", Absent, Absent)} : r.op \in Ops}

Batch(t) == req[t].data

BatchData(t, i) == IF i \in Groups THEN Batch(t).groups[i] ELSE Batch(t).sets[i]

(* What thread t writes into its current file.                             *)
Payload(t) == IF req[t].op = "batch" THEN BatchData(t, current[t]) ELSE req[t].data

Goto(t, label, items) ==
  /\ pc' = [pc EXCEPT ![t] = label]
  /\ todo' = [todo EXCEPT ![t] = items]

Finish(t, how) ==
  /\ pc' = [pc EXCEPT ![t] = "done"]
  /\ outcome' = [outcome EXCEPT ![t] = how]

(* The elements of a batch are parallel tasks: when that of i fails, the    *)
(* others may go on after the batch has answered.                          *)
LeftBehind(t, i) ==
  IF req[t].op # "batch" \/ pc[t] = "validate" THEN {}
  ELSE {<<x, IF pc[t] = "maps" THEN Absent ELSE BatchData(t, x)>> : x \in todo[t] \ {i}}

Fail(t, i, how) ==
  /\ Finish(t, how)
  /\ late' = late \cup LeftBehind(t, i)

(***************************************************************************)
(* A request begins and is answered                                        *)
(***************************************************************************)

(* Mutant: the references of the version sets in a batch are not validated. *)
ExternalMappingsOnly(b) == b.maps \ DOMAIN b.sets

(* References of a batch that the batch itself does not resolve.           *)
External(b) ==
  ((UNION {b.sets[s] : s \in DOMAIN b.sets}) \ DOMAIN b.groups)
    \cup (b.maps \ DOMAIN b.sets)

ToValidate(r) ==
  CASE r.op = "createSet" -> r.data
    [] r.op = "map"       -> {r.item}
    [] r.op = "batch"     -> External(r.data)

Begin(t, r) ==
  CASE r.op = "createGroup"                        -> Goto(t, "open", {r.item})
    [] r.op \in {"createSet", "map", "batch"}      -> Goto(t, "validate", ToValidate(r))
    [] r.op \in {"deleteVersion", "deleteName"}    -> Goto(t, "listSets", {})
    [] r.op = "deleteSet"                          -> Goto(t, "readOwn", {r.item})
    [] r.op = "find"                               -> Goto(t, "lookUp", {})

Invoke(t, r) ==
  /\ pc[t] = "idle"
  /\ Begin(t, r)
  /\ req' = [req EXCEPT ![t] = r]
  /\ current' = [current EXCEPT ![t] = IF r.op \in {"createGroup", "createSet"}
                                         THEN r.item ELSE Absent]
  /\ since' = [since EXCEPT ![t] = WholeSets]
  /\ UNCHANGED <<files, mapped, late, outcome, removed>>

Respond(t) ==
  /\ pc[t] = "done"
  /\ Goto(t, "idle", {})
  /\ req' = [req EXCEPT ![t] = NoRequest]
  /\ current' = [current EXCEPT ![t] = Absent]
  /\ outcome' = [outcome EXCEPT ![t] = "none"]
  /\ since' = [since EXCEPT ![t] = {}]
  /\ UNCHANGED <<files, mapped, late, removed>>

(***************************************************************************)
(* Validating references, and that a property group is unreferenced        *)
(***************************************************************************)

(* A file that exists will do, also one that is not filled yet.            *)
ReferenceExists(t, i) ==
  /\ pc[t] = "validate"
  /\ i \in todo[t]
  /\ files[i] # Absent
  /\ Goto(t, "validate", todo[t] \ {i})
  /\ UNCHANGED <<files, mapped, late, req, current, outcome, removed, since>>

(* Mutant: the last reference alone decides.                               *)
LastReferenceMissing(t, i) ==
  /\ pc[t] = "validate"
  /\ i \in todo[t]
  /\ files[i] = Absent
  /\ IF todo[t] = {i}
       THEN Finish(t, "invalid") /\ UNCHANGED todo
       ELSE Goto(t, "validate", todo[t] \ {i}) /\ UNCHANGED outcome
  /\ UNCHANGED <<files, mapped, late, req, current, removed, since>>

ReferenceMissing(t, i) ==
  /\ pc[t] = "validate"
  /\ i \in todo[t]
  /\ files[i] = Absent
  /\ Finish(t, "invalid")
  /\ UNCHANGED <<files, mapped, late, req, todo, current, removed, since>>

Validated(t) ==
  /\ pc[t] = "validate"
  /\ todo[t] = {}
  /\ CASE req[t].op = "createSet" -> Goto(t, "open", {req[t].item})
       [] req[t].op = "map"       -> Goto(t, "maps", {req[t].item})
       [] req[t].op = "batch"     -> Goto(t, "groups", DOMAIN Batch(t).groups)
  /\ UNCHANGED <<files, mapped, late, req, current, outcome, removed, since>>

(* Mutant: the listing asks for version sets with the name of the group.   *)
ListSetsByName(t) ==
  /\ pc[t] = "listSets"
  /\ Goto(t, "readSets", {})
  /\ UNCHANGED <<files, mapped, late, req, current, outcome, removed, since>>

(* deleteValidation lists the version sets and reads each.                 *)
ListSets(t) ==
  /\ pc[t] = "listSets"
  /\ Goto(t, "readSets", {s \in Sets : files[s] # Absent})
  /\ UNCHANGED <<files, mapped, late, req, current, outcome, removed, since>>

(* Only a delete of one version looks at what a version set refers to.     *)
Refers(t, s) == req[t].op = "deleteVersion" /\ req[t].item \in files[s]

ReadSet(t, s) ==
  /\ pc[t] = "readSets"
  /\ s \in todo[t]
  /\ Whole(s)
  /\ ~Refers(t, s)
  /\ Goto(t, "readSets", todo[t] \ {s})
  /\ UNCHANGED <<files, mapped, late, req, current, outcome, removed, since>>

(* One that refers to the property group, is gone or is unfinished ends it. *)
RefuseDelete(t, s) ==
  /\ pc[t] = "readSets"
  /\ s \in todo[t]
  /\ IF Whole(s) THEN Refers(t, s) /\ Finish(t, "conflict") ELSE Finish(t, "error")
  /\ UNCHANGED <<files, mapped, late, req, todo, current, removed, since>>

Unreferenced(t) ==
  /\ pc[t] = "readSets"
  /\ todo[t] = {}
  /\ IF req[t].op = "deleteVersion" THEN Goto(t, "readOwn", {req[t].item})
                                    ELSE Goto(t, "listGroups", {})
  /\ UNCHANGED <<files, mapped, late, req, current, outcome, removed, since>>

(***************************************************************************)
(* Deleting                                                                *)
(***************************************************************************)

ReadOwn(t, i) ==
  /\ pc[t] = "readOwn"
  /\ i \in todo[t]
  /\ CASE Whole(i)           -> Goto(t, "unlink", {i}) /\ UNCHANGED outcome
       [] files[i] = Absent  -> Finish(t, "absent") /\ UNCHANGED todo
       [] files[i] \in Threads -> Finish(t, "error") /\ UNCHANGED todo
  /\ UNCHANGED <<files, mapped, late, req, current, removed, since>>

VersionsOf(n) == {g \in Groups : g[1] = n /\ files[g] # Absent}

ListGroups(t) ==
  /\ pc[t] = "listGroups"
  /\ IF VersionsOf(req[t].item) = {}
       THEN Finish(t, "absent") /\ UNCHANGED todo
       ELSE Goto(t, "readLatest", VersionsOf(req[t].item)) /\ UNCHANGED outcome
  /\ UNCHANGED <<files, mapped, late, req, current, removed, since>>

(* delete(name) reads the latest version before it deletes all; if that is *)
(* not there or not filled, it fails.                                      *)
ReadLatest(t) ==
  /\ pc[t] = "readLatest"
  /\ LET versions == VersionsOf(req[t].item)
     IN  IF \E g \in versions : Whole(g) /\ \A h \in versions : h[2] <= g[2]
           THEN Goto(t, "unlink", todo[t]) /\ UNCHANGED outcome
           ELSE Finish(t, "error") /\ UNCHANGED todo
  /\ UNCHANGED <<files, mapped, late, req, current, removed, since>>

Unlink(t, i) ==
  /\ pc[t] = "unlink"
  /\ i \in todo[t]
  /\ IF files[i] = Absent
       THEN UNCHANGED <<files, removed, since>>
       ELSE /\ files' = [files EXCEPT ![i] = Absent]
            /\ removed' = removed \cup {<<i, IF Whole(i) THEN files[i] ELSE Absent>>}
            /\ since' = [u \in Threads |-> since[u] \ {i}]
  /\ IF files[i] = Absent /\ req[t].op # "deleteName"
       THEN Finish(t, "error") /\ UNCHANGED todo
       ELSE Goto(t, "unlink", todo[t] \ {i}) /\ UNCHANGED outcome
  /\ UNCHANGED <<mapped, late, req, current>>

Unlinked(t) ==
  /\ pc[t] = "unlink"
  /\ todo[t] = {}
  /\ Finish(t, "ok")
  /\ UNCHANGED <<files, mapped, late, req, todo, current, removed, since>>

(***************************************************************************)
(* Writing                                                                 *)
(***************************************************************************)

(* Before it writes, create refuses a name that exists, and update a name  *)
(* that does not or a version that is not higher than the latest.          *)
Refuse(t) ==
  /\ pc[t] = "open"
  /\ Fail(t, current[t], "conflict")
  /\ UNCHANGED <<files, mapped, req, todo, current, removed, since>>

CreateNewFile(t) ==
  /\ pc[t] = "open"
  /\ files[current[t]] = Absent
  /\ files' = [files EXCEPT ![current[t]] = t]
  /\ Goto(t, "fill", todo[t])
  /\ UNCHANGED <<mapped, late, req, current, outcome, removed, since>>

(* The bytes of a file that was erased meanwhile go nowhere.               *)
FillFile(t) ==
  /\ pc[t] = "fill"
  /\ files' = [files EXCEPT ![current[t]] = IF @ = t THEN Payload(t) ELSE @]
  /\ IF req[t].op = "batch"
       THEN /\ Goto(t, IF current[t] \in Groups THEN "groups" ELSE "sets",
                    todo[t] \ {current[t]})
            /\ current' = [current EXCEPT ![t] = Absent]
            /\ UNCHANGED outcome
       ELSE Finish(t, "ok") /\ UNCHANGED <<todo, current>>
  /\ UNCHANGED <<mapped, late, req, removed, since>>

(***************************************************************************)
(* Batches                                                                 *)
(***************************************************************************)

(* Mutant: an element that is stored is skipped whatever it holds.         *)
SkipStored(t, i) ==
  /\ pc[t] \in {"groups", "sets"}
  /\ i \in todo[t]
  /\ Answers(i) # {}
  /\ Goto(t, pc[t], todo[t] \ {i})
  /\ UNCHANGED <<files, mapped, late, req, current, outcome, removed, since>>

(* An element that is stored as it is in the batch is skipped, one that is *)
(* not found is created, and one that differs or cannot be read ends it.   *)
SkipElement(t, i) ==
  /\ pc[t] \in {"groups", "sets"}
  /\ i \in todo[t]
  /\ BatchData(t, i) \in Answers(i)
  /\ Goto(t, pc[t], todo[t] \ {i})
  /\ UNCHANGED <<files, mapped, late, req, current, outcome, removed, since>>

CreateElement(t, i) ==
  /\ pc[t] \in {"groups", "sets"}
  /\ i \in todo[t]
  /\ Goto(t, "open", todo[t])
  /\ current' = [current EXCEPT ![t] = i]
  /\ UNCHANGED <<files, mapped, late, req, outcome, removed, since>>

RefuseElement(t, i) ==
  /\ pc[t] \in {"groups", "sets"}
  /\ i \in todo[t]
  /\ \/ Answers(i) \ {BatchData(t, i)} # {}
     \/ files[i] \in Threads
  /\ Fail(t, i, "error")
  /\ UNCHANGED <<files, mapped, req, todo, current, removed, since>>

(* First all property groups, then all version sets, then the mappings.    *)
NextPhase(t) ==
  /\ pc[t] \in {"groups", "sets"}
  /\ todo[t] = {}
  /\ IF pc[t] = "groups" THEN Goto(t, "sets", DOMAIN Batch(t).sets)
                         ELSE Goto(t, "maps", Batch(t).maps)
  /\ UNCHANGED <<files, mapped, late, req, current, outcome, removed, since>>

(* Mutant: what is mapped is the item of the request.                      *)
PutRequested(t, s) ==
  /\ pc[t] = "maps"
  /\ s \in todo[t]
  /\ mapped' = mapped \cup {req[t].item}
  /\ Goto(t, "maps", todo[t] \ {s})
  /\ UNCHANGED <<files, late, req, current, outcome, removed, since>>

PutMapping(t, s) ==
  /\ pc[t] = "maps"
  /\ s \in todo[t]
  /\ mapped' = mapped \cup {s}
  /\ Goto(t, "maps", todo[t] \ {s})
  /\ UNCHANGED <<files, late, req, current, outcome, removed, since>>

AllMapped(t) ==
  /\ pc[t] = "maps"
  /\ todo[t] = {}
  /\ Finish(t, "ok")
  /\ UNCHANGED <<files, mapped, late, req, todo, current, removed, since>>

(* A task that a failed batch left behind, or the end of it.               *)
LateTask(x) ==
  /\ x \in late
  /\ late' = late \ {x}
  /\ IF x[2] = Absent
       THEN mapped' = mapped \cup {x[1]} /\ UNCHANGED files
       ELSE /\ files' = [files EXCEPT ![x[1]] = IF @ = Absent THEN x[2] ELSE @]
            /\ UNCHANGED mapped
  /\ UNCHANGED <<pc, req, todo, current, outcome, removed, since>>

(***************************************************************************)
(* Searching                                                               *)
(***************************************************************************)

LookUp(t) ==
  /\ pc[t] = "lookUp"
  /\ \/ Finish(t, "absent") /\ UNCHANGED todo
     \/ /\ \E s \in mapped : \E d \in Answers(s) : Goto(t, "find", d)
        /\ UNCHANGED outcome
  /\ UNCHANGED <<files, mapped, late, req, current, removed, since>>

(* Each property group is read twice, for applications and for libraries;  *)
(* a reference is visited when it is found for the second time.            *)
FindGroup(t, g) ==
  /\ pc[t] = "find"
  /\ g \in todo[t]
  /\ Whole(g)
  /\ Goto(t, "find", todo[t] \ {g})
  /\ UNCHANGED <<files, mapped, late, req, current, outcome, removed, since>>

(* The Optional of a reference that leads nowhere is opened unchecked.     *)
GroupMissing(t, g) ==
  /\ pc[t] = "find"
  /\ g \in todo[t]
  /\ files[g] = Absent
  /\ Finish(t, "missing")
  /\ todo' = [todo EXCEPT ![t] = {g}]
  /\ UNCHANGED <<files, mapped, late, req, current, removed, since>>

GroupUnfinished(t, g) ==
  /\ pc[t] = "find"
  /\ g \in todo[t]
  /\ files[g] \in Threads
  /\ Finish(t, "error")
  /\ UNCHANGED <<files, mapped, late, req, todo, current, removed, since>>

Found(t) ==
  /\ pc[t] = "find"
  /\ todo[t] = {}
  /\ Finish(t, "ok")
  /\ UNCHANGED <<files, mapped, late, req, todo, current, removed, since>>

(***************************************************************************)
(* Faults                                                                  *)
(***************************************************************************)

(* A storage call fails; a file that was created stays as it is.           *)
IOFailure(t) ==
  /\ "io" \in Faults
  /\ pc[t] \notin {"idle", "done"}
  /\ Fail(t, current[t], "error")
  /\ UNCHANGED <<files, mapped, req, todo, current, removed, since>>

Restart ==
  /\ "crash" \in Faults
  /\ late'    = {}
  /\ pc'      = [t \in Threads |-> "idle"]
  /\ req'     = [t \in Threads |-> NoRequest]
  /\ todo'    = [t \in Threads |-> {}]
  /\ current' = [t \in Threads |-> Absent]
  /\ outcome' = [t \in Threads |-> "none"]
  /\ since'   = [t \in Threads |-> {}]
  /\ UNCHANGED <<files, mapped, removed>>

(***************************************************************************)
(* The specification                                                       *)
(***************************************************************************)

Init ==
  /\ files   = [i \in Items |-> Absent]
  /\ mapped  = {}
  /\ late    = {}
  /\ pc      = [t \in Threads |-> "idle"]
  /\ req     = [t \in Threads |-> NoRequest]
  /\ todo    = [t \in Threads |-> {}]
  /\ current = [t \in Threads |-> Absent]
  /\ outcome = [t \in Threads |-> "none"]
  /\ removed = {}
  /\ since   = [t \in Threads |-> {}]

Visit(t, i) ==
  \/ ReferenceExists(t, i)
  \/ ReferenceMissing(t, i)
  \/ ReadSet(t, i)
  \/ RefuseDelete(t, i)
  \/ ReadOwn(t, i)
  \/ Unlink(t, i)
  \/ SkipElement(t, i)
  \/ CreateElement(t, i)
  \/ RefuseElement(t, i)
  \/ PutMapping(t, i)
  \/ FindGroup(t, i)
  \/ GroupMissing(t, i)
  \/ GroupUnfinished(t, i)

Step(t) ==
  \/ Validated(t)
  \/ ListSets(t)
  \/ Unreferenced(t)
  \/ ListGroups(t)
  \/ ReadLatest(t)
  \/ Unlinked(t)
  \/ Refuse(t)
  \/ CreateNewFile(t)
  \/ FillFile(t)
  \/ NextPhase(t)
  \/ AllMapped(t)
  \/ LookUp(t)
  \/ Found(t)
  \/ IOFailure(t)
  \/ Respond(t)
  \/ \E i \in Items : Visit(t, i)

Next ==
  \/ \E t \in Threads, r \in Requests : Invoke(t, r)
  \/ \E t \in Threads : Step(t)
  \/ \E x \in late : LateTask(x)
  \/ Restart

Spec == Init /\ [][Next]_vars

(***************************************************************************)
(* Type correctness                                                        *)
(***************************************************************************)

Labels == {"idle", "validate", "listSets", "readSets", "readOwn", "listGroups",
           "readLatest", "unlink", "open", "fill", "groups", "sets", "maps",
           "lookUp", "find", "done"}

Outcomes == {"none", "ok", "absent", "invalid", "conflict", "missing", "error"}

ReferencesTypeOK ==
  /\ files   \in [Items -> Threads \cup {Absent} \cup Data]
  /\ mapped  \subseteq Sets
  /\ late    \subseteq Items \X ({Absent} \cup Data)
  /\ pc      \in [Threads -> Labels]
  /\ req     \in [Threads -> Requests \cup {NoRequest}]
  /\ todo    \in [Threads -> SUBSET Items]
  /\ current \in [Threads -> Items \cup {Absent}]
  /\ outcome \in [Threads -> Outcomes]
  /\ removed \subseteq Items \X ({Absent} \cup Data)
  /\ since   \in [Threads -> SUBSET Sets]

(***************************************************************************)
(* Safety                                                                  *)
(***************************************************************************)

(* A reference never leads to something that was not there yet: what a     *)
(* version set or the mapping refers to has a file, or was deleted.  So it *)
(* is in the middle of a batch, after one that failed, and for the tasks   *)
(* it left behind (VersionSetValidator, GroupValidator, and the order in   *)
(* which ConvenienceRS.batchInsert writes).                                *)
ReferencesResolve ==
  /\ \A s \in WholeSets : \A g \in files[s] : files[g] # Absent \/ g \in Retracted
  /\ \A s \in mapped : files[s] # Absent \/ s \in Retracted

(* A version of a property group is deleted only if no version set refers  *)
(* to it that was stored all through the request: what the validation      *)
(* misses is what was written while it ran                                 *)
(* (PropertyGroupFlatFileRepository.deleteValidation).                     *)
DeleteRespectsReferences ==
  \A t \in Threads :
    pc[t] \in {"readOwn", "unlink"} /\ req[t].op = "deleteVersion" =>
      \A s \in since[t] : req[t].item \notin files[s]

(* When a batch has succeeded, everything in it is stored as it was in the *)
(* batch, and mapped, but for what was deleted (ConvenienceRS.batchInsert, *)
(* which skips what it takes for stored already).                          *)
AckedBatchIsStored ==
  \A t \in Threads :
    req[t].op = "batch" /\ outcome[t] = "ok" =>
      /\ \A i \in DOMAIN Batch(t).groups \cup DOMAIN Batch(t).sets :
           files[i] = BatchData(t, i) \/ i \in Retracted
      /\ Batch(t).maps \subseteq mapped

(* A search that finds a property group missing was led to one that had    *)
(* been deleted, whatever was written, cached or batched meanwhile         *)
(* (SearchBDImpl.findProperties, PropertyGroupBDImpl.getPropertyGroup).    *)
MissingWasDeleted ==
  \A t \in Threads : outcome[t] = "missing" => todo[t] \subseteq Retracted
=============================================================================
