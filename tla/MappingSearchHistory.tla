------------------------ MODULE MappingSearchHistory ------------------------
(***************************************************************************)
(* The mapping service with its history, and with history variables for    *)
(* the searches: what the mapping held while a thread was in a find.       *)
(***************************************************************************)
EXTENDS MappingHistory

VARIABLES
  steady,   \* steady[t]: what has been mapped ever since t's find began
  seen      \* seen[t]: <<key, reference>> for what was mapped at any time of it

svars == <<hvars, steady, seen>>

Entries == {<<key, mapping[key]>> : key \in Mapped}

Finding(t) == pc[t] # "idle" /\ request[t].op = "find"

Watch ==
  /\ steady' = [t \in Threads |->
       IF ~ Finding(t)' THEN {}
       ELSE IF ~ Finding(t) THEN Mapped' ELSE steady[t] \cap Mapped']
  /\ seen' = [t \in Threads |->
       IF ~ Finding(t)' THEN {}
       ELSE IF ~ Finding(t) THEN Entries' ELSE seen[t] \cup Entries']

SInit ==
  /\ HInit
  /\ steady = [t \in Threads |-> {}]
  /\ seen   = [t \in Threads |-> {}]

SNext == Next /\ Record /\ Watch

SSpec == SInit /\ [][SNext]_svars

(* A find that changes overlap is answered with a reference that was       *)
(* mapped to a set of scopes that applies, at some time of the call, and   *)
(* with absent only if none was mapped all through it, or if the mapping   *)
(* of its very key was there and went.  Keys are of configured             *)
(* combinations (VersionSetMapping.get).                                   *)
FindIsTimely ==
  KeysConfigured(MappingKeys) => \A t \in Threads :
    LET query == request[t].key
    IN  /\ Ended(t, "find", "ok") =>
             \E entry \in seen[t] : entry[1] \subseteq query /\ entry[2] = found[t]
        /\ Ended(t, "find", "absent") =>
             \/ Applicable(steady[t], query) = {}
             \/ query \notin steady[t] /\ \E entry \in seen[t] : entry[1] = query
=============================================================================
