----------------------- MODULE MCCassandraRepository ------------------------
(* A small instance of the Cassandra repository for TLC.                   *)
EXTENDS CassandraRepository, Sequences, TLC

Part(n, d) == [value |-> n, digits |-> d]

Zero == Part(0, 1)

(* 9.0.0, 09.0.0, 10.0.0 and 12.0.0, of which the last is too great.       *)
FourVersions == {<<p, Zero, Zero>> : p \in {Part(9, 1), Part(9, 2), Part(10, 2), Part(12, 2)}}

Symmetry == Permutations(Threads)

(* A reference for TextLower: the characters one by one, a dot below 0.    *)
Digits(p) == [i \in 1 .. p.digits |-> (p.value \div 10 ^ (p.digits - i)) % 10]

Text(v) == Digits(v[1]) \o <<-1>> \o Digits(v[2]) \o <<-1>> \o Digits(v[3])

Before(s, u) ==
  \E i \in 1 .. Len(u) :
    /\ \A j \in 1 .. (i - 1) : j <= Len(s) /\ s[j] = u[j]
    /\ i > Len(s) \/ s[i] < u[i]

SomeParts == {Part(n, d) : n \in {0, 1, 2, 9}, d \in 1 .. 2} \cup {Part(10, 2), Part(12, 2), Part(90, 2)}

SomeVersions == {<<p, q, Zero>> : p \in SomeParts, q \in {Zero, Part(1, 1), Part(10, 2)}}

ASSUME TextLowerIsTextOrder ==
  \A v, w \in SomeVersions : TextLower(v, w) <=> Before(Text(v), Text(w))

(* A reference for Lower: versions are numbers to the base 100.            *)
Number(v) == 10000 * v[1].value + 100 * v[2].value + v[3].value

ASSUME LowerIsNumericOrder ==
  \A v, w \in SomeVersions : Lower(v, w) <=> Number(v) < Number(w)
=============================================================================
