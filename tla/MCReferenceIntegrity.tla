------------------------ MODULE MCReferenceIntegrity ------------------------
(* A small instance of versions that refer to each other, for TLC.         *)
EXTENDS ReferenceIntegrity, TLC

CONSTANTS pet, s1, c1

p1 == <<pet, 1>>
p2 == <<pet, 2>>

MCReferences == {{p1, p2}}

(* One batch that resolves its own references, and one that relies on a    *)
(* stored property group, differs in its version set and maps that.        *)
MCBatches ==
  {[groups |-> p1 :> c1 @@ p2 :> c1, sets |-> s1 :> {p1, p2}, maps |-> {}],
   [groups |-> p2 :> c1, sets |-> s1 :> {p1}, maps |-> {s1}]}

AllOps == {"createGroup", "createSet", "deleteVersion", "deleteName",
           "deleteSet", "map", "batch", "find"}

Symmetry == Permutations(Threads)

(* Bounds: one file has been erased; and what a failure leaves, a file that *)
(* nobody fills or a task of a batch, meets one request at a time.         *)
Orphans ==
  {i \in Items : files[i] \in Threads /\
     ~(pc[files[i]] = "fill" /\ current[files[i]] = i)}

Bounds ==
  /\ Cardinality(removed) <= 1
  /\ Cardinality(late) <= 1
  /\ Orphans # {} \/ (late # {} /\ removed # {}) =>
       Cardinality({t \in Threads : pc[t] # "idle"}) <= 1
=============================================================================
