------------------------ MODULE MCFlatFileRepository ------------------------
(* Small instances of the flat-file repository for TLC.                    *)
EXTENDS FlatFileRepository, TLC

CONSTANTS pet, petstore, c1, c2

(* One name, or two of which neither is a prefix of the other.             *)
Unrelated == {<<n, n>> : n \in Names}

(* "petstore" starts with "pet".                                           *)
PetPrefix == Unrelated \cup {<<petstore, pet>>}

(* Keys sort as text: version 10.0.0 comes before version 9.0.0, so that   *)
(* the highest version has the first key.                                  *)
TextRank == [f \in Files |-> IF f[2] = MaxVersion THEN 0 ELSE f[2]]

Symmetry == Permutations(Threads) \cup Permutations(Contents)
=============================================================================
