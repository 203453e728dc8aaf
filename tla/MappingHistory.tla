--------------------------- MODULE MappingHistory ---------------------------
(***************************************************************************)
(* The mapping service with two history variables: which changes are made  *)
(* one at a time, and what clients know about each key of the mapping from *)
(* the answers to them.                                                    *)
(***************************************************************************)
EXTENDS MappingService

CONSTANT Unknown   \* a change of the key has not been acknowledged

VARIABLES
  alone,   \* alone[t]: t is in a change that no other change has overlapped
  acked    \* acked[key]: its reference, NoReference, or Unknown

hvars == <<vars, alone, acked>>

Changing(t) ==
  pc[t] \notin {"idle", "done"} /\ request[t].op \in {"set", "delete"}

Acknowledged(t) == Changing(t) /\ pc'[t] = "done" /\ reply'[t] = "ok"

(* The server starts with a local file that was not written completely.    *)
FileIsLost == file \in Threads \cup {Empty} /\ Restart

(* A key becomes known when a change of it is acknowledged that no other   *)
(* change of the mapping has overlapped, and unknown when the next change  *)
(* of it begins.                                                           *)
Record ==
  /\ alone' = [t \in Threads |->
       /\ Changing(t)'
       /\ Changing(t) => alone[t]
       /\ \A other \in Threads \ {t} : ~ Changing(other)']
  /\ acked' = [key \in MappingKeys |->
       IF FileIsLost \/ \E t \in Threads : Changing(t)' /\ request'[t].key = key
         THEN Unknown
         ELSE IF \E t \in Threads : alone[t] /\ Acknowledged(t) /\ request[t].key = key
           THEN request[CHOOSE t \in Threads : alone[t]].reference
           ELSE acked[key]]

HInit ==
  /\ Init
  /\ alone = [t \in Threads |-> FALSE]
  /\ acked = [key \in MappingKeys |-> NoReference]

HNext == Next /\ Record

HSpec == HInit /\ [][HNext]_hvars

(* What the javadoc of save says, it persists the mapping: what has been   *)
(* acknowledged is what a restart would load, whatever changes of other    *)
(* keys are being saved or have failed (VersionSetMappingBDImpl.setMapping,*)
(* deleteMapping).  In Cassandra that is so for what was set only, since a *)
(* row is not deleted, and not for the empty set of scopes, whose row does *)
(* not hold it.  On the local storage there may be nothing to load while   *)
(* the file is written, and until the next save when that failed.          *)
AckedIsSaved ==
  file \notin Threads \cup {Empty} =>
    \A key \in MappingKeys :
      acked[key] # Unknown =>
        \A saved \in Load(file) :
          IF acked[key] = NoReference
            THEN storage = "cassandra" \/ key \notin DOMAIN saved
            ELSE \/ storage = "cassandra" /\ key = {}
                 \/ key \in DOMAIN saved /\ saved[key] = acked[key]
=============================================================================
