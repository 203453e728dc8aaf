----------------------- MODULE MCFileVersionHistory ------------------------
(* Small instances of the file version repository for TLC.                 *)
EXTENDS FileVersionHistory, TLC

CONSTANTS pet, c1, c2

(* No name is a prefix of another.                                         *)
Unrelated == {<<n, n>> : n \in Names}

(* Bound: calls overlap only as long as there is nothing but version 1 and *)
(* at most one storage call has failed.                                    *)
OverlapOnVersion1 ==
  \/ \A t \in Threads : alone[t]
  \/ /\ faults <= 1
     /\ \A f \in Files : f[3] > 1 => files[f] = Absent
     /\ \A t \in Threads : request[t] = NoRequest \/ request[t].version <= 1

Symmetry == Permutations(Threads) \cup Permutations(Contents)
=============================================================================
