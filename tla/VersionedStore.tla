--------------------------- MODULE VersionedStore ---------------------------
(***************************************************************************)
(* What Henge promises about its artifacts: "versioned and immutable".     *)
(* A store maps an artifact (a name and a version) to its content.  A      *)
(* version is published once, may be retracted, and its content never      *)
(* changes while it is published.  The repositories implement this store;  *)
(* how they do it is FlatFileRepository's business.                        *)
(***************************************************************************)
CONSTANTS
  Artifacts,   \* the (name, version) pairs that can be stored
  Contents,    \* the contents an artifact can have
  Absent       \* what the store holds for an unpublished artifact

VARIABLE store

Init == store = [a \in Artifacts |-> Absent]

(* A new version becomes visible, whole, where there was none.             *)
Publish(a, c) ==
  /\ store[a] = Absent
  /\ store' = [store EXCEPT ![a] = c]

(* A published version is deleted.                                         *)
Retract(a) ==
  /\ store[a] # Absent
  /\ store' = [store EXCEPT ![a] = Absent]

Next ==
  \/ \E a \in Artifacts, c \in Contents : Publish(a, c)
  \/ \E a \in Artifacts : Retract(a)

Spec == Init /\ [][Next]_store
=============================================================================
