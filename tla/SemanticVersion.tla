--------------------------- MODULE SemanticVersion --------------------------
(***************************************************************************)
(* The two orders of versions: that of SemanticVersionComparator, and that *)
(* of their text, in which Cassandra clusters the rows of a name.          *)
(*                                                                         *)
(* A version has three parts of digits and dots between them (the pattern  *)
(* of NamedVersionedModel.version).  All that the orders tell of a part is *)
(* its value and how many digits it is written with.                       *)
(***************************************************************************)
EXTENDS Integers

CONSTANT MaxInt   \* the greatest value Integer.parseInt accepts: 2^31 - 1

ASSUME MaxIntAssumption == MaxInt \in Nat

Parts == [value : Nat, digits : Nat \ {0}]

AllVersions == [1 .. 3 -> Parts]

(* The first part that differs decides.                                    *)
Lower(v, w) ==
  \E i \in 1 .. 3 :
    /\ v[i].value < w[i].value
    /\ \A j \in 1 .. (i - 1) : v[j].value = w[j].value

(* compare stops with an exception at a part that is too great for an      *)
(* integer, if no part before it differs.                                  *)
NotComparable(v, w) ==
  \E i \in 1 .. 3 :
    /\ v[i].value > MaxInt \/ w[i].value > MaxInt
    /\ \A j \in 1 .. (i - 1) : v[j].value = w[j].value

(* As text, parts compare digit by digit from the left; a part that is the *)
(* beginning of the other comes first, as a dot is before every digit.     *)
PartTextLower(p, q) ==
  IF p.digits = q.digits
    THEN p.value < q.value
    ELSE LET a == p.value * 10 ^ q.digits
             b == q.value * 10 ^ p.digits
         IN  a < b \/ (a = b /\ p.digits < q.digits)

TextLower(v, w) ==
  \E i \in 1 .. 3 : PartTextLower(v[i], w[i]) /\ \A j \in 1 .. (i - 1) : v[j] = w[j]

(* Written with as many digits, part by part.                              *)
SameWidths(v, w) == \A i \in 1 .. 3 : v[i].digits = w[i].digits
=============================================================================
