--------------------------- MODULE FlatFileHistory --------------------------
(***************************************************************************)
(* What the flat-file repository is expected to guarantee to its callers   *)
(* relates the end of a call to what happened while it ran.  The           *)
(* specification is extended with two history variables for it, which the  *)
(* code does not have and which constrain no step.                         *)
(***************************************************************************)
EXTENDS FlatFileRepository

VARIABLES
  kept,     \* kept[t]: the files that have existed ever since t's call began
  removed   \* removed[t]: the files removed since t's call began

history == <<kept, removed>>

Present == {f \in Files : files[f] # Absent}

Record ==
  /\ kept' = [t \in Threads |->
       IF pc'[t] = "idle" THEN {}
       ELSE Present' \cap (IF pc[t] = "idle" THEN Present ELSE kept[t])]
  /\ removed' = [t \in Threads |->
       IF pc'[t] = "idle" THEN {} ELSE removed[t] \cup (Present \ Present')]

HInit ==
  /\ Init
  /\ kept = [t \in Threads |-> {}]
  /\ removed = [t \in Threads |-> {}]

HNext == Next /\ Record

HSpec == HInit /\ [][HNext]_<<vars, history>>

Ended(t, op, outcome) ==
  pc[t] = "done" /\ request[t].op \in op /\ reply[t] = outcome

(***************************************************************************)
(* Safety                                                                  *)
(***************************************************************************)

(* read(name) returns the latest version: no version that existed all      *)
(* through the call is higher than the one returned, and versions(name)    *)
(* leaves out none of them (BaseFlatFileRepository.readLatestVersion and   *)
(* versions).                                                              *)
NoVersionMissed ==
  \A t \in Threads : \A f \in kept[t] :
    f[1] = request[t].name =>
      /\ Ended(t, {"read"}, "ok") => f[2] <= latest[t]
      /\ Ended(t, {"versions"}, "ok") => f \in listed[t]

(* A delete that reports success has deleted: none of the versions it was  *)
(* asked to delete existed all through the call                            *)
(* (BaseFlatFileRepository.delete).                                        *)
DeleteIsComplete ==
  \A t \in Threads :
    /\ Ended(t, {"delete"}, "ok") =>
         \A f \in kept[t] : f[1] # request[t].name
    /\ Ended(t, {"deleteVersion"}, "ok") => WriteTarget(t) \notin kept[t]

(* A create or update that reports success is stored: the file holds what  *)
(* the caller wrote, unless it was deleted during the call or after it     *)
(* (BaseFlatFileRepository.create and update).  An overwritten file would  *)
(* break this, and so would bytes that never reached the storage.          *)
AckedWriteIsStored ==
  \A t \in Threads :
    Ended(t, {"create", "update"}, "ok") =>
      \/ files[WriteTarget(t)] = request[t].content
      \/ WriteTarget(t) \in removed[t]
(* A create that reports success created a new name: no version of it     *)
(* existed all through the call.  Of two creates that overlap both can     *)
(* succeed (BaseFlatFileRepository.create, which looks for the name once,  *)
(* before it writes).                                                      *)
CreateIsNew ==
  \A t \in Threads :
    Ended(t, {"create"}, "ok") => \A f \in kept[t] : f[1] # request[t].name

(* read(name) answers absent where a version existed all through the call  *)
(* only if the version that it took for the latest was deleted meanwhile   *)
(* (BaseFlatFileRepository.read, which lists and then reads).              *)
AbsentWasRemoved ==
  \A t \in Threads :
    Ended(t, {"read"}, "absent") =>
      \A f \in kept[t] :
        f[1] = request[t].name => <<request[t].name, latest[t]>> \in removed[t]
=============================================================================
