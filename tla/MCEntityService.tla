--------------------------- MODULE MCEntityService --------------------------
(* Small instances of the delegates and their cache for TLC.               *)
EXTENDS EntityService, TLC

CONSTANTS pet, petstore, c1, c2

Unrelated == {<<n, n>> : n \in Names}

TextRank == [f \in Files |-> IF f[2] = MaxVersion THEN 0 ELSE f[2]]

(* Keys that do not collide.                                               *)
DistinctKeys == [a \in Names \X (0 .. MaxVersion) |-> a]

AllOps == {"create", "update", "read", "readVersion", "versions", "delete",
           "deleteVersion"}

Symmetry == Permutations(Threads) \cup Permutations(Contents)
=============================================================================
