------------------------ MODULE FileVersionHistory -------------------------
(***************************************************************************)
(* What a call to the file version repository leaves behind, compared with *)
(* what it found.  The history variables, which the code does not have and *)
(* which constrain no step, remember for every call the files at its       *)
(* start, what was removed since, and whether anything disturbed it.       *)
(***************************************************************************)
EXTENDS FileVersionRepository

VARIABLES
  before,   \* before[t]: the files when t's call began, while it runs alone
  removed,  \* removed[t]: the files removed since, in a create or update
  alone,    \* alone[t]: no other call has run since
  failures  \* failures[t]: the storage calls that failed, while it runs alone

history == <<before, removed, alone, failures>>

Bytes   == [f \in Files |-> BytesOf(f)]
Present == {f \in Files : files[f] # Absent}

AllAbsent == [f \in Files |-> Absent]

HInit ==
  /\ Init
  /\ before   = [t \in Threads |-> AllAbsent]
  /\ removed  = [t \in Threads |-> {}]
  /\ alone    = [t \in Threads |-> TRUE]
  /\ failures = [t \in Threads |-> 0]

Running(t) == pc'[t] # "idle"
Writing(t) == Running(t) /\ request'[t].op \in {"create", "update"}
Alone(t)   == Running(t) /\ alone[t] /\ \A u \in Threads \ {t} : pc'[u] = "idle"

Record ==
  /\ before' = [t \in Threads |->
       IF ~Alone(t) THEN AllAbsent ELSE IF pc[t] = "idle" THEN Bytes ELSE before[t]]
  /\ removed' = [t \in Threads |->
       IF Writing(t) THEN removed[t] \cup (Present \ Present') ELSE {}]
  /\ alone' = [t \in Threads |-> Running(t) => Alone(t)]
  /\ failures' = [t \in Threads |->
       IF Alone(t) THEN failures[t] + faults' - faults ELSE 0]

HNext == Next /\ Record

HSpec == HInit /\ [][HNext]_<<vars, history>>

Ended(t, ops, outcomes) ==
  pc[t] = "done" /\ request[t].op \in ops /\ reply[t] \in outcomes

(***************************************************************************)
(* Safety                                                                  *)
(***************************************************************************)

(* A create or update that reports success has stored both the model and   *)
(* the data that the caller sent, except what was deleted during the call  *)
(* (FileVersionFlatFileRepository.create and update).  On S3 this is said  *)
(* of calls that ran alone.                                                *)
AckedPairIsStored ==
  \A t \in Threads :
    Ended(t, {"create", "update"}, {"ok"}) /\ (storage = "local" \/ alone[t]) =>
      \A kind \in {"model", "data"} :
        LET f == FileOf(t, kind, request[t].version)
        IN  files[f] = request[t].content \/ f \in removed[t]

(* delete(name) is all or nothing: a delete that ran alone and met at most *)
(* one failure has removed every model and data file of the name, or left  *)
(* all of them as it found them (FileVersionFlatFileRepository.delete and  *)
(* rollbackDeletions).  On S3 a lost answer breaks this.                   *)
DeleteIsAllOrNothing ==
  \A t \in Threads :
    storage = "local" /\ alone[t] /\ failures[t] <= 1 =>
      /\ Ended(t, {"delete"}, {"ok"}) =>
           \A f \in Files : f[2] = request[t].name => files[f] = Absent
      /\ Ended(t, {"delete"}, {"absent", "conflict", "error"}) => Bytes = before[t]
=============================================================================
