------------------------ MODULE MappingServiceProofs ------------------------
(***************************************************************************)
(* Proofs about ScopeMatch, that the searches of VersionSetMapping.get and *)
(* ScopeUtils.getScopeValue find the most specific mapping or value, and   *)
(* about MappingService, its type correctness for every number of threads, *)
(* keys and references, what its file lock achieves, and what a restart    *)
(* finds of the changes that were acknowledged.                            *)
(***************************************************************************)
EXTENDS MappingHistory, TLAPS

(***************************************************************************)
(* The search, for every configuration that lists generic combinations     *)
(* first                                                                   *)
(***************************************************************************)

(* An applicable mapping is reached at the entry of its keys.              *)
LEMMA OwnEntryReached ==
  ASSUME NEW mapped, NEW query, NEW s \in Applicable(mapped, query),
         NEW i, KeysAreAt(s, i), query # {}
  PROVE  i \in Reached(query)
  BY DEF Applicable, KeysAreAt, Reached, ExtractScopeKeys

(* A mapping is matched by entry i if it applies and i has all its keys.   *)
LEMMA MatchesAtMeaning ==
  ASSUME NEW mapped, NEW query, NEW s \in mapped, NEW i
  PROVE  s \in MatchesAt(mapped, query, i) <=>
           s \in Applicable(mapped, query)
             /\ ExtractScopeKeys(s) \subseteq Precedence[i]
  BY DEF MatchesAt, Applicable, SubScopeSet, ExtractScopeKeys

(* It is a new match at the entry of its keys and at no other.             *)
LEMMA NewAtOwnEntry ==
  ASSUME NEW mapped, NEW query, query # {}, GenericFirst,
         NEW s \in mapped, NEW k, KeysAreAt(s, k),
         NEW i \in Reached(query)
  PROVE  s \in NewMatchesAt(mapped, query, i) <=>
           s \in Applicable(mapped, query) /\ i = k
<1>1. i \in 1 .. Len(Precedence) /\ k \in 1 .. Len(Precedence)
  BY DEF Reached, KeysAreAt
<1>2. ASSUME NEW j \in Reached(query), s \in MatchesAt(mapped, query, j)
      PROVE  k <= j
  <2>1. Precedence[k] \subseteq Precedence[j]
    BY <1>2, MatchesAtMeaning DEF KeysAreAt
  <2>2. j \in 1 .. Len(Precedence)
    BY DEF Reached
  <2> QED
    BY <1>1, <2>1, <2>2 DEF GenericFirst
<1>3. ASSUME s \in Applicable(mapped, query)
      PROVE  k \in Reached(query) /\ s \in MatchesAt(mapped, query, k)
  BY <1>3, OwnEntryReached, MatchesAtMeaning DEF KeysAreAt
<1>4. ASSUME s \in NewMatchesAt(mapped, query, i)
      PROVE  s \in Applicable(mapped, query) /\ i = k
  <2>1. s \in MatchesAt(mapped, query, i)
    BY <1>4 DEF NewMatchesAt
  <2>2. s \in Applicable(mapped, query)
    BY <2>1, MatchesAtMeaning
  <2>3. ~ (k < i)
    BY <1>3, <1>4, <2>2 DEF NewMatchesAt
  <2> QED
    BY <1>1, <1>2, <2>1, <2>2, <2>3
<1>5. ASSUME s \in Applicable(mapped, query), i = k
      PROVE  s \in NewMatchesAt(mapped, query, i)
  <2>1. \A j \in Reached(query) : j < i => s \notin MatchesAt(mapped, query, j)
    <3> SUFFICES ASSUME NEW j \in Reached(query), j < i,
                        s \in MatchesAt(mapped, query, j)
                 PROVE  FALSE
      OBVIOUS
    <3>1. k <= j /\ j \in 1 .. Len(Precedence)
      BY <1>2 DEF Reached
    <3> QED
      BY <1>1, <1>5, <3>1
  <2> QED
    BY <1>3, <1>5, <2>1 DEF NewMatchesAt
<1> QED
  BY <1>4, <1>5

(* If generic combinations of keys are configured before specific ones,    *)
(* and only configured combinations are mapped, then a query without an    *)
(* exact mapping is answered with the most specific mapping that applies   *)
(* to it, and with none only if none applies (VersionSetMapping.get).      *)
THEOREM FallbackIsMostSpecific ==
  ASSUME NEW mapped, NEW query, query # {}, GenericFirst, KeysConfigured(mapped)
  PROVE  Fallback(mapped, query) = MostSpecific(mapped, query)
<1>1. ASSUME NEW s \in Fallback(mapped, query)
      PROVE  s \in MostSpecific(mapped, query)
  <2> PICK i \in Reached(query) :
        /\ s \in NewMatchesAt(mapped, query, i)
        /\ \A j \in Reached(query) : j > i => NewMatchesAt(mapped, query, j) = {}
    BY <1>1 DEF Fallback
  <2>1. s \in mapped
    BY DEF NewMatchesAt, MatchesAt
  <2> PICK k \in 1 .. Len(Precedence) : KeysAreAt(s, k)
    BY <2>1 DEF KeysConfigured
  <2>2. s \in Applicable(mapped, query) /\ i = k
    BY <2>1, NewAtOwnEntry
  <2>3. ASSUME NEW r \in Applicable(mapped, query), NEW j \in 1 .. Len(Precedence),
               KeysAreAt(r, j)
        PROVE  j <= i
    <3>1. j \in Reached(query) /\ r \in mapped
      BY <2>3, OwnEntryReached DEF Applicable
    <3>2. r \in NewMatchesAt(mapped, query, j)
      BY <2>3, <3>1, NewAtOwnEntry
    <3>3. ~ (j > i)
      BY <3>1, <3>2
    <3> QED
      BY <2>2, <3>3
  <2> QED
    BY <2>2, <2>3 DEF MostSpecific
<1>2. ASSUME NEW s \in MostSpecific(mapped, query)
      PROVE  s \in Fallback(mapped, query)
  <2>1. s \in Applicable(mapped, query) /\ s \in mapped
    BY <1>2 DEF MostSpecific, Applicable
  <2> PICK i \in 1 .. Len(Precedence) :
        /\ KeysAreAt(s, i)
        /\ \A r \in Applicable(mapped, query), j \in 1 .. Len(Precedence) :
             KeysAreAt(r, j) => j <= i
    BY <1>2 DEF MostSpecific
  <2>2. i \in Reached(query)
    BY <2>1, OwnEntryReached
  <2>3. s \in NewMatchesAt(mapped, query, i)
    BY <2>1, <2>2, NewAtOwnEntry
  <2>4. ASSUME NEW j \in Reached(query), j > i, NEW r \in NewMatchesAt(mapped, query, j)
        PROVE  FALSE
    <3>1. r \in mapped
      BY DEF NewMatchesAt, MatchesAt
    <3> PICK k \in 1 .. Len(Precedence) : KeysAreAt(r, k)
      BY <3>1 DEF KeysConfigured
    <3>2. r \in Applicable(mapped, query) /\ j = k
      BY <3>1, NewAtOwnEntry
    <3>3. j <= i
      BY <3>2
    <3> QED
      BY <2>4, <3>2, <3>3
  <2> QED
    BY <2>2, <2>3, <2>4 DEF Fallback
<1> QED
  BY <1>1, <1>2

(* Under the same conditions the answer does not depend on the order of    *)
(* the hash map: a query that gives each key one value has at most one     *)
(* most specific mapping (VersionSetMapping.get).                          *)
THEOREM FallbackIsUnique ==
  ASSUME NEW mapped, NEW query, query # {}, GenericFirst, KeysConfigured(mapped),
         OneValuePerKey(query),
         NEW a \in Fallback(mapped, query), NEW b \in Fallback(mapped, query)
  PROVE  a = b
<1>1. a \in MostSpecific(mapped, query) /\ b \in MostSpecific(mapped, query)
  BY FallbackIsMostSpecific
<1> PICK i \in 1 .. Len(Precedence) :
      /\ KeysAreAt(a, i)
      /\ \A s \in Applicable(mapped, query), j \in 1 .. Len(Precedence) :
           KeysAreAt(s, j) => j <= i
  BY <1>1 DEF MostSpecific
<1> PICK k \in 1 .. Len(Precedence) :
      /\ KeysAreAt(b, k)
      /\ \A s \in Applicable(mapped, query), j \in 1 .. Len(Precedence) :
           KeysAreAt(s, j) => j <= k
  BY <1>1 DEF MostSpecific
<1>2. a \in Applicable(mapped, query) /\ b \in Applicable(mapped, query)
  BY <1>1 DEF MostSpecific
<1>3. i = k
  BY <1>2
<1>4. ExtractScopeKeys(a) = ExtractScopeKeys(b)
  BY <1>3 DEF KeysAreAt
<1>5. a \subseteq query /\ b \subseteq query
  BY <1>2 DEF Applicable
<1>6. ASSUME NEW x \in a PROVE x \in b
  <2>0. x[1] \in ExtractScopeKeys(b)
    BY <1>4 DEF ExtractScopeKeys
  <2>1. PICK y \in b : y[1] = x[1]
    BY <2>0 DEF ExtractScopeKeys
  <2> QED
    BY <1>5, <2>1 DEF OneValuePerKey
<1>7. ASSUME NEW x \in b PROVE x \in a
  <2>0. x[1] \in ExtractScopeKeys(a)
    BY <1>4 DEF ExtractScopeKeys
  <2>1. PICK y \in a : y[1] = x[1]
    BY <2>0 DEF ExtractScopeKeys
  <2> QED
    BY <1>5, <2>1 DEF OneValuePerKey
<1> QED
  BY <1>6, <1>7

(* The scopes of the query that an entry names have the keys of the entry. *)
LEMMA SubScopeKeys ==
  ASSUME NEW query, NEW i, Precedence[i] \subseteq ExtractScopeKeys(query)
  PROVE  ExtractScopeKeys(SubScopeSet(query, Precedence[i])) = Precedence[i]
  BY DEF ExtractScopeKeys, SubScopeSet

(* An applicable set of scopes is what the query has for its keys.         *)
LEMMA ApplicableIsSubScopeSet ==
  ASSUME NEW scoped, NEW query, OneValuePerKey(query),
         NEW s \in Applicable(scoped, query), NEW i, KeysAreAt(s, i)
  PROVE  s = SubScopeSet(query, Precedence[i])
<1>1. s \subseteq query /\ ExtractScopeKeys(s) = Precedence[i]
  BY DEF Applicable, KeysAreAt
<1>2. ASSUME NEW x \in s PROVE x \in SubScopeSet(query, Precedence[i])
  BY <1>1, <1>2 DEF SubScopeSet, ExtractScopeKeys
<1>3. ASSUME NEW x \in SubScopeSet(query, Precedence[i]) PROVE x \in s
  <2>1. x \in query /\ x[1] \in ExtractScopeKeys(s)
    BY <1>1, <1>3 DEF SubScopeSet
  <2>2. PICK y \in s : y[1] = x[1]
    BY <2>1 DEF ExtractScopeKeys
  <2> QED
    BY <1>1, <2>1, <2>2 DEF OneValuePerKey
<1> QED
  BY <1>2, <1>3

(* An entry has a value exactly if an applicable set of scopes has its     *)
(* keys.                                                                   *)
LEMMA ValuedAtMeaning ==
  ASSUME NEW scoped, NEW query, OneValuePerKey(query), NEW i
  PROVE  i \in ValuedAt(scoped, query) <=>
           \E s \in Applicable(scoped, query) : KeysAreAt(s, i)
<1>1. ASSUME i \in ValuedAt(scoped, query)
      PROVE  \E s \in Applicable(scoped, query) : KeysAreAt(s, i)
  <2> DEFINE s == SubScopeSet(query, Precedence[i])
  <2>1. s \in scoped /\ i \in 1 .. Len(Precedence)
    BY <1>1 DEF ValuedAt
  <2>2. s \subseteq query
    BY DEF SubScopeSet
  <2>3. ExtractScopeKeys(s) = Precedence[i]
    BY <1>1, SubScopeKeys DEF ValuedAt
  <2> QED
    BY <2>1, <2>2, <2>3 DEF Applicable, KeysAreAt
<1>2. ASSUME NEW s \in Applicable(scoped, query), KeysAreAt(s, i)
      PROVE  i \in ValuedAt(scoped, query)
  <2>1. s = SubScopeSet(query, Precedence[i]) /\ s \in scoped /\ s \subseteq query
    BY <1>2, ApplicableIsSubScopeSet DEF Applicable
  <2>2. Precedence[i] \subseteq ExtractScopeKeys(query) /\ i \in 1 .. Len(Precedence)
    BY <1>2, <2>1 DEF KeysAreAt, ExtractScopeKeys
  <2> QED
    BY <2>1, <2>2 DEF ValuedAt
<1> QED
  BY <1>1, <1>2

(* Then it has it newly: no two entries have the same keys.                *)
LEMMA ValuesAreNew ==
  ASSUME NEW scoped, NEW query, GenericFirst
  PROVE  NewlyValuedAt(scoped, query) = ValuedAt(scoped, query)
<1>1. ASSUME NEW i \in ValuedAt(scoped, query), NEW j \in ValuedAt(scoped, query), j < i
      PROVE  SubScopeSet(query, Precedence[j]) # SubScopeSet(query, Precedence[i])
  <2>1. /\ ExtractScopeKeys(SubScopeSet(query, Precedence[i])) = Precedence[i]
        /\ ExtractScopeKeys(SubScopeSet(query, Precedence[j])) = Precedence[j]
    BY SubScopeKeys DEF ValuedAt
  <2>2. Precedence[i] # Precedence[j]
    BY <1>1 DEF GenericFirst, ValuedAt
  <2> QED
    BY <2>1, <2>2
<1> QED
  BY <1>1 DEF NewlyValuedAt

(* If generic combinations of keys are configured before specific ones, a  *)
(* property takes the value of the most specific set of scopes that        *)
(* applies to the query, and its default only if no configured one         *)
(* applies; other sets of scopes do not matter (ScopeUtils.getScopeValue). *)
THEOREM ValueIsMostSpecific ==
  ASSUME NEW scoped, NEW query, GenericFirst, OneValuePerKey(query)
  PROVE  ValueScopes(scoped, query) = MostSpecific(scoped, query)
<1>1. ASSUME NEW s \in ValueScopes(scoped, query)
      PROVE  s \in MostSpecific(scoped, query)
  <2>1. PICK i \in ValuedAt(scoped, query) :
          /\ s = SubScopeSet(query, Precedence[i])
          /\ \A j \in ValuedAt(scoped, query) : j <= i
    BY <1>1, ValuesAreNew DEF ValueScopes
  <2>2. PICK r \in Applicable(scoped, query) : KeysAreAt(r, i)
    BY ValuedAtMeaning
  <2>3. r = s /\ i \in 1 .. Len(Precedence)
    BY <2>1, <2>2, ApplicableIsSubScopeSet DEF KeysAreAt
  <2>4. \A q \in Applicable(scoped, query), j \in 1 .. Len(Precedence) :
          KeysAreAt(q, j) => j <= i
    BY <2>1, ValuedAtMeaning
  <2> QED
    BY <2>2, <2>3, <2>4 DEF MostSpecific
<1>2. ASSUME NEW s \in MostSpecific(scoped, query)
      PROVE  s \in ValueScopes(scoped, query)
  <2>1. s \in Applicable(scoped, query)
    BY <1>2 DEF MostSpecific
  <2>2. PICK i \in 1 .. Len(Precedence) :
          /\ KeysAreAt(s, i)
          /\ \A r \in Applicable(scoped, query), j \in 1 .. Len(Precedence) :
               KeysAreAt(r, j) => j <= i
    BY <1>2 DEF MostSpecific
  <2>3. i \in ValuedAt(scoped, query) /\ s = SubScopeSet(query, Precedence[i])
    BY <2>1, <2>2, ValuedAtMeaning, ApplicableIsSubScopeSet
  <2>4. ASSUME NEW j \in ValuedAt(scoped, query) PROVE j <= i
    <3>1. PICK r \in Applicable(scoped, query) : KeysAreAt(r, j)
      BY ValuedAtMeaning
    <3>2. j \in 1 .. Len(Precedence)
      BY DEF ValuedAt
    <3> QED
      BY <2>2, <3>1, <3>2
  <2> QED
    BY <2>3, <2>4, ValuesAreNew DEF ValueScopes
<1> QED
  BY <1>1, <1>2

(***************************************************************************)
(* The three ways to make a mapping                                        *)
(***************************************************************************)

LEMMA EmptyIsMapping == EmptyMapping \in Mappings
<1>1. EmptyMapping \in [{} -> References]
  BY DEF EmptyMapping
<1> QED
  BY <1>1 DEF Mappings

LEMMA PutIsMapping ==
  ASSUME NEW m \in Mappings, NEW k \in MappingKeys, NEW r \in References
  PROVE  [key \in DOMAIN m \cup {k} |-> IF key = k THEN r ELSE m[key]] \in Mappings
<1> PICK keys \in SUBSET (MappingKeys \cup {NullKey}) : m \in [keys -> References]
  BY DEF Mappings
<1>1. DOMAIN m \cup {k} \in SUBSET (MappingKeys \cup {NullKey})
  OBVIOUS
<1>2. [key \in DOMAIN m \cup {k} |-> IF key = k THEN r ELSE m[key]]
        \in [DOMAIN m \cup {k} -> References]
  OBVIOUS
<1> QED
  BY <1>1, <1>2 DEF Mappings

LEMMA RemoveIsMapping ==
  ASSUME NEW m \in Mappings, NEW k
  PROVE  [key \in DOMAIN m \ {k} |-> m[key]] \in Mappings
<1> PICK keys \in SUBSET (MappingKeys \cup {NullKey}) : m \in [keys -> References]
  BY DEF Mappings
<1>1. DOMAIN m \ {k} \in SUBSET (MappingKeys \cup {NullKey})
  OBVIOUS
<1>2. [key \in DOMAIN m \ {k} |-> m[key]] \in [DOMAIN m \ {k} -> References]
  OBVIOUS
<1> QED
  BY <1>1, <1>2 DEF Mappings

(* What InsertRows makes of the mapping to be saved and the table.         *)
LEMMA InsertIsMapping ==
  ASSUME NEW m \in Mappings, NEW rows \in Mappings
  PROVE  [key \in DOMAIN m \cup DOMAIN rows |->
            IF key \in DOMAIN m THEN m[key] ELSE rows[key]] \in Mappings
<1> PICK keys \in SUBSET (MappingKeys \cup {NullKey}) : m \in [keys -> References]
  BY DEF Mappings
<1> PICK old \in SUBSET (MappingKeys \cup {NullKey}) : rows \in [old -> References]
  BY DEF Mappings
<1>1. DOMAIN m \cup DOMAIN rows \in SUBSET (MappingKeys \cup {NullKey})
  OBVIOUS
<1>2. [key \in DOMAIN m \cup DOMAIN rows |-> IF key \in DOMAIN m THEN m[key] ELSE rows[key]]
        \in [DOMAIN m \cup DOMAIN rows -> References]
  OBVIOUS
<1> QED
  BY <1>1, <1>2 DEF Mappings

LEMMA MappingValues ==
  ASSUME NEW m \in Mappings
  PROVE  /\ DOMAIN m \subseteq MappingKeys \cup {NullKey}
         /\ \A k \in DOMAIN m : m[k] \in References
  BY DEF Mappings

(* What the table's rows are read as is a mapping, with the rows' own keys *)
(* and references, but for the empty set, which is read as NullKey.        *)
LEMMA ParsedIsMapping ==
  ASSUME NEW rows \in Mappings, NEW m \in Parsed(rows)
  PROVE  /\ m \in Mappings
         /\ \A key \in MappingKeys \ {{}} :
              /\ key \in DOMAIN m <=> key \in DOMAIN rows
              /\ key \in DOMAIN rows => m[key] = rows[key]
<1> DEFINE keys == {ParsedKey(text) : text \in DOMAIN rows}
<1>1. /\ m \in [keys -> References]
      /\ \A key \in keys : \E text \in DOMAIN rows : ParsedKey(text) = key /\ rows[text] = m[key]
  BY DEF Parsed
<1>2. DOMAIN m = keys /\ DOMAIN rows \subseteq MappingKeys \cup {NullKey}
  BY <1>1, MappingValues
<1>3. keys \subseteq MappingKeys \cup {NullKey}
  BY <1>2 DEF ParsedKey
<1>4. m \in Mappings
  BY <1>1, <1>3 DEF Mappings
<1>5. ASSUME NEW key \in MappingKeys \ {{}}, NEW text, ParsedKey(text) = key
      PROVE  text = key
  BY <1>5, MappingConstantsAssumption DEF ParsedKey
<1>6. ASSUME NEW key \in MappingKeys \ {{}} PROVE ParsedKey(key) = key
  BY <1>6 DEF ParsedKey
<1>7. ASSUME NEW key \in MappingKeys \ {{}}
      PROVE  /\ key \in keys <=> key \in DOMAIN rows
             /\ key \in DOMAIN rows => m[key] = rows[key]
  <2>1. key \in DOMAIN rows => key \in keys
    BY <1>6
  <2>2. key \in keys => key \in DOMAIN rows /\ m[key] = rows[key]
    BY <1>1, <1>5
  <2> QED
    BY <2>1, <2>2
<1> QED
  BY <1>2, <1>4, <1>7

LEMMA LoadsMappings ==
  ASSUME NEW content \in Mappings \cup Threads \cup {NoFile, Empty}
  PROVE  Load(content) \subseteq Mappings
  BY EmptyIsMapping, ParsedIsMapping, MappingConstantsAssumption DEF Load

(***************************************************************************)
(* Type correctness                                                        *)
(***************************************************************************)

(* What the type invariant rests on: only a local file can be half         *)
(* written, a thread about to put an entry is in a set, one that goes      *)
(* through the map is at an entry of the configuration, and one that is    *)
(* saving has something to save.                                           *)
CallOK ==
  /\ storage = "local" \/ file \in Mappings \cup {NoFile}
  /\ \A t \in Threads :
       /\ pc[t] = "visit" => index[t] <= Len(Precedence)
       /\ pc[t] \in {"locked", "writing"} => storage = "local"
       /\ pc[t] = "put" => request[t].key \in MappingKeys /\ request[t].reference \in References
       /\ pc[t] \in {"write", "locked", "writing"} => snapshot[t] \in Mappings

TypeInv == MappingTypeOK /\ CallOK

LEMMA InsertedIsMapping ==
  ASSUME TypeInv, NEW t \in Threads, InsertRows(t)
  PROVE  file' \in Mappings
<1>1. file' = [key \in DOMAIN snapshot[t] \cup DOMAIN Saved |->
                 IF key \in DOMAIN snapshot[t] THEN snapshot[t][key] ELSE Saved[key]]
  BY DEF InsertRows
<1>2. Saved \in Mappings
  BY EmptyIsMapping DEF Saved, InsertRows, TypeInv, CallOK
<1>3. snapshot[t] \in Mappings
  BY DEF InsertRows, TypeInv, CallOK
<1> QED
  BY <1>1, <1>2, <1>3, InsertIsMapping

LEMMA TypeInvInit == Init => TypeInv
<1> SUFFICES ASSUME Init PROVE TypeInv
  OBVIOUS
<1>1. Len(Precedence) \in Nat
  BY PrecedenceAssumption
<1>2. MappingTypeOK
  BY <1>1, EmptyIsMapping DEF Init, MappingTypeOK, Labels
<1>3. CallOK
  BY DEF Init, CallOK
<1> QED
  BY <1>2, <1>3 DEF TypeInv

(* A step that answers or moves on keeps the types of pc and reply.        *)
LEMMA MoveType ==
  ASSUME MappingTypeOK, NEW t \in Threads,
         \/ \E label \in Labels \ {"put"} : Goto(t, label)
         \/ \E outcome \in {"ok", "absent", "conflict", "error"} : Answer(t, outcome)
  PROVE  /\ pc' \in [Threads -> Labels]
         /\ reply' \in [Threads -> {"none", "ok", "absent", "conflict", "error"}]
         /\ request' \in [Threads -> Requests \cup {NoRequest}]
         /\ up' \in BOOLEAN
         /\ storage' \in Storages
         /\ \A s \in Threads : pc'[s] = "put" => pc[s] = "put" /\ request'[s] = request[s]
<1>1. storage' = storage /\ storage \in Storages
  BY DEF MappingTypeOK, Goto, Answer
<1>2. /\ pc \in [Threads -> Labels]
      /\ reply \in [Threads -> {"none", "ok", "absent", "conflict", "error"}]
      /\ request \in [Threads -> Requests \cup {NoRequest}]
      /\ up \in BOOLEAN
  BY DEF MappingTypeOK
<1> QED
  BY <1>1, <1>2 DEF Goto, Answer, Labels

LEMMA AfterSearchMoves ==
  ASSUME NEW t \in Threads, NEW reference, AfterSearch(t, reference)
  PROVE  \/ Goto(t, "remove")
         \/ \E outcome \in {"ok", "absent", "conflict", "error"} : Answer(t, outcome)
  BY DEF AfterSearch

LEMMA TypeInvStep == TypeInv /\ [Next]_vars => TypeInv'
<1> SUFFICES ASSUME TypeInv, [Next]_vars PROVE TypeInv'
  OBVIOUS
<1> USE DEF TypeInv
<1>0. Len(Precedence) \in Nat
  BY PrecedenceAssumption
<1>1. ASSUME NEW t \in Threads, NEW r \in Requests, Invoke(t, r)
      PROVE  TypeInv'
  <2>1. r.op = "set" => r.key \in MappingKeys /\ r.reference \in References
    BY DEF Requests
  <2>2. MappingTypeOK'
    BY <1>1 DEF Invoke, MappingTypeOK, Labels, local
  <2>3. CallOK'
    BY <1>1, <2>1 DEF Invoke, local, Created, MappingTypeOK, CallOK
  <2> QED
    BY <2>2, <2>3
<1>2. ASSUME NEW t \in Threads, Return(t)
      PROVE  TypeInv'
  <2>1. MappingTypeOK'
    BY <1>0, <1>2 DEF Return, MappingTypeOK, Labels
  <2>2. CallOK'
    BY <1>2 DEF Return, local, Created, MappingTypeOK, CallOK
  <2> QED
    BY <2>1, <2>2
<1>3. ASSUME NEW t \in Threads, PutEntry(t)
      PROVE  TypeInv'
  <2>1. mapping' \in Mappings
    <3>1. mapping \in Mappings /\ request[t].key \in MappingKeys
            /\ request[t].reference \in References
      BY <1>3 DEF PutEntry, local, Created, CallOK, MappingTypeOK
    <3> QED
      BY <1>3, <3>1, PutIsMapping DEF PutEntry
  <2>2. Goto(t, "save")
    BY <1>3 DEF PutEntry
  <2>3. MappingTypeOK'
    BY <1>3, <2>1, <2>2, MoveType DEF PutEntry, MappingTypeOK, local, Labels
  <2>4. CallOK'
    BY <1>3, <2>2, MoveType DEF PutEntry, local, Created, CallOK, Goto, MappingTypeOK, Labels
  <2> QED
    BY <2>3, <2>4
<1>4. ASSUME NEW t \in Threads, LookUp(t)
      PROVE  TypeInv'
  <2>1. Goto(t, "fetch") \/ Goto(t, "scan")
    BY <1>4 DEF LookUp
  <2>2. MappingTypeOK'
    BY <1>4, <2>1, MoveType DEF LookUp, MappingTypeOK, local, Labels
  <2>3. CallOK'
    BY <1>4, <2>1 DEF LookUp, local, Created, CallOK, Goto, MappingTypeOK
  <2> QED
    BY <2>2, <2>3
<1>5. ASSUME NEW t \in Threads, FetchEntry(t)
      PROVE  TypeInv'
  <2> DEFINE reference == IF request[t].key \in DOMAIN mapping
                            THEN mapping[request[t].key] ELSE NoReference
  <2>1. reference \in References \cup {NoReference}
    BY MappingValues DEF MappingTypeOK
  <2>2. found' = [found EXCEPT ![t] = reference] /\ AfterSearch(t, reference)
    BY <1>5 DEF FetchEntry
  <2> HIDE DEF reference
  <2>3. found' \in [Threads -> References \cup {NoReference}]
    BY <2>1, <2>2 DEF MappingTypeOK
  <2>4. \/ Goto(t, "remove")
        \/ \E outcome \in {"ok", "absent", "conflict", "error"} : Answer(t, outcome)
    BY <2>2, AfterSearchMoves
  <2>5. MappingTypeOK'
    BY <1>5, <2>3, <2>4, MoveType DEF FetchEntry, MappingTypeOK, Labels
  <2>6. CallOK'
    BY <1>5, <2>4 DEF FetchEntry, local, Created, CallOK, Goto, Answer, MappingTypeOK
  <2> QED
    BY <2>5, <2>6
<1>6. ASSUME NEW t \in Threads, Scan(t)
      PROVE  TypeInv'
  <2>1. /\ index' \in [Threads -> 1 .. Len(Precedence) + 1]
        /\ pending' \in [Threads -> SUBSET MappingKeys]
    BY <1>0, <1>6 DEF Scan, MatchesAt, MappingTypeOK
  <2>2. Goto(t, "scan") \/ Goto(t, "visit")
    BY <1>6 DEF Scan
  <2>3. MappingTypeOK'
    BY <1>6, <2>1, <2>2, MoveType DEF Scan, MappingTypeOK, Labels
  <2>4. CallOK'
    BY <1>6, <2>2 DEF Scan, local, Created, CallOK, Goto, MappingTypeOK
  <2> QED
    BY <2>3, <2>4
<1>20. ASSUME NEW t \in Threads, Visit(t)
       PROVE  TypeInv'
  <2>1. PICK key \in pending[t] :
          /\ PassBy(t, key)
          /\ IF key \in DOMAIN mapping
               THEN /\ matches' = [matches EXCEPT ![t] = @ \cup {key}]
                    /\ found' = [found EXCEPT ![t] = mapping[key]]
               ELSE UNCHANGED <<matches, found>>
    BY <1>20 DEF Visit
  <2>2. key \in MappingKeys
    BY DEF MappingTypeOK
  <2>3. /\ index' \in [Threads -> 1 .. Len(Precedence) + 1]
        /\ pending' \in [Threads -> SUBSET MappingKeys]
    BY <1>0, <1>20, <2>1 DEF Visit, PassBy, MappingTypeOK, CallOK
  <2>4. matches' \in [Threads -> SUBSET MappingKeys]
    BY <2>1, <2>2 DEF MappingTypeOK
  <2>5. found' \in [Threads -> References \cup {NoReference}]
    BY <2>1, MappingValues DEF MappingTypeOK
  <2>6. Goto(t, "scan") \/ Goto(t, "visit")
    BY <2>1 DEF PassBy
  <2>7. MappingTypeOK'
    BY <1>20, <2>3, <2>4, <2>5, <2>6, MoveType DEF Visit, MappingTypeOK, Labels
  <2>8. CallOK'
    BY <1>20, <2>1, <2>6 DEF Visit, PassBy, local, Created, CallOK, Goto, MappingTypeOK
  <2> QED
    BY <2>7, <2>8
<1>7. ASSUME NEW t \in Threads, EndScan(t)
      PROVE  TypeInv'
  <2>1. \/ Goto(t, "remove")
        \/ \E outcome \in {"ok", "absent", "conflict", "error"} : Answer(t, outcome)
    BY <1>7, AfterSearchMoves DEF EndScan
  <2>2. MappingTypeOK'
    BY <1>7, <2>1, MoveType DEF EndScan, MappingTypeOK, local, Labels
  <2>3. CallOK'
    BY <1>7, <2>1 DEF EndScan, local, Created, CallOK, Goto, Answer, MappingTypeOK
  <2> QED
    BY <2>2, <2>3
<1>8. ASSUME NEW t \in Threads, RemoveEntry(t)
      PROVE  TypeInv'
  <2>1. mapping' \in Mappings
    BY <1>8, RemoveIsMapping DEF RemoveEntry, MappingTypeOK
  <2>2. Goto(t, "save")
    BY <1>8 DEF RemoveEntry
  <2>3. MappingTypeOK'
    BY <1>8, <2>1, <2>2, MoveType DEF RemoveEntry, MappingTypeOK, local, Labels
  <2>4. CallOK'
    BY <1>8, <2>2 DEF RemoveEntry, local, Created, CallOK, Goto, MappingTypeOK
  <2> QED
    BY <2>3, <2>4
<1>9. ASSUME NEW t \in Threads, Serialize(t)
      PROVE  TypeInv'
  <2>1. Goto(t, "write") /\ snapshot' = [snapshot EXCEPT ![t] = mapping]
    BY <1>9 DEF Serialize
  <2>2. snapshot' \in [Threads -> Mappings \cup {NoFile}]
    BY <2>1 DEF MappingTypeOK
  <2>3. MappingTypeOK'
    BY <1>9, <2>1, <2>2, MoveType DEF Serialize, MappingTypeOK, local, Labels
  <2>4. CallOK'
    BY <1>9, <2>1 DEF Serialize, local, Created, CallOK, Goto, MappingTypeOK
  <2> QED
    BY <2>3, <2>4
<1>10. ASSUME NEW t \in Threads, OpenAndLock(t)
       PROVE  TypeInv'
  <2>1. Goto(t, "locked")
    BY <1>10 DEF OpenAndLock
  <2>2. MappingTypeOK'
    BY <1>10, <2>1, MoveType DEF OpenAndLock, Created, MappingTypeOK, local, Labels
  <2>3. CallOK'
    BY <1>10, <2>1 DEF OpenAndLock, local, Created, CallOK, Goto, MappingTypeOK
  <2> QED
    BY <2>2, <2>3
<1>11. ASSUME NEW t \in Threads, LockIsHeld(t)
       PROVE  TypeInv'
  <2>1. Answer(t, "error")
    BY <1>11 DEF LockIsHeld
  <2>2. MappingTypeOK'
    BY <1>11, <2>1, MoveType DEF LockIsHeld, Created, MappingTypeOK, local
  <2>3. CallOK'
    BY <1>11, <2>1 DEF LockIsHeld, local, Created, CallOK, Answer, MappingTypeOK
  <2> QED
    BY <2>2, <2>3
<1>12. ASSUME NEW t \in Threads, StartWriting(t)
       PROVE  TypeInv'
  <2>1. Goto(t, "writing")
    BY <1>12 DEF StartWriting
  <2>2. MappingTypeOK'
    BY <1>12, <2>1, MoveType DEF StartWriting, MappingTypeOK, local, Labels
  <2>3. CallOK'
    BY <1>12, <2>1 DEF StartWriting, local, Created, CallOK, Goto, MappingTypeOK
  <2> QED
    BY <2>2, <2>3
<1>13. ASSUME NEW t \in Threads, FinishWriting(t)
       PROVE  TypeInv'
  <2>1. Answer(t, "ok") /\ snapshot[t] \in Mappings
    BY <1>13 DEF FinishWriting, local, Created, CallOK
  <2>2. MappingTypeOK'
    BY <1>13, <2>1, MoveType DEF FinishWriting, MappingTypeOK, local
  <2>3. CallOK'
    BY <1>13, <2>1 DEF FinishWriting, local, Created, CallOK, Answer, MappingTypeOK
  <2> QED
    BY <2>2, <2>3
<1>14. ASSUME NEW t \in Threads, PutMapping(t)
       PROVE  TypeInv'
  <2>1. \E outcome \in {"ok", "absent", "conflict", "error"} : Answer(t, outcome)
    BY <1>14 DEF PutMapping
  <2>2. snapshot[t] \in Mappings
    BY <1>14 DEF PutMapping, local, Created, CallOK
  <2>3. MappingTypeOK'
    BY <1>14, <2>1, <2>2, MoveType DEF PutMapping, MappingTypeOK, local
  <2>4. CallOK'
    BY <1>14, <2>1 DEF PutMapping, local, Created, CallOK, Answer, MappingTypeOK
  <2> QED
    BY <2>3, <2>4
<1>15. ASSUME NEW t \in Threads, IOFailure(t)
       PROVE  TypeInv'
  <2>1. \E outcome \in {"ok", "absent", "conflict", "error"} : Answer(t, outcome)
    BY <1>15 DEF IOFailure
  <2>2. MappingTypeOK'
    BY <1>15, <2>1, MoveType DEF IOFailure, MappingTypeOK, local
  <2>3. CallOK'
    BY <1>15, <2>1 DEF IOFailure, local, Created, CallOK, Answer, MappingTypeOK
  <2> QED
    BY <2>2, <2>3
<1>16. ASSUME NEW t \in Threads, LockingFails(t)
       PROVE  TypeInv'
  <2>1. Answer(t, "conflict")
    BY <1>16 DEF LockingFails
  <2>2. MappingTypeOK'
    BY <1>16, <2>1, MoveType DEF LockingFails, Created, MappingTypeOK, local
  <2>3. CallOK'
    BY <1>16, <2>1 DEF LockingFails, local, Created, CallOK, Answer, MappingTypeOK
  <2> QED
    BY <2>2, <2>3
<1>17. ASSUME Restart
       PROVE  TypeInv'
  <2>1. mapping' \in Mappings /\ up' \in BOOLEAN
    BY <1>17, EmptyIsMapping, LoadsMappings DEF Restart, MappingTypeOK
  <2>2. MappingTypeOK'
    BY <1>0, <1>17, <2>1 DEF Restart, MappingTypeOK, Labels
  <2>3. CallOK'
    BY <1>17 DEF Restart, local, Created, CallOK
  <2> QED
    BY <2>2, <2>3
<1>18. ASSUME NEW t \in Threads, InsertRows(t)
       PROVE  TypeInv'
  <2>1. \E outcome \in {"ok", "absent", "conflict", "error"} : Answer(t, outcome)
    BY <1>18 DEF InsertRows
  <2>2. file' \in Mappings
    BY <1>18, InsertedIsMapping
  <2>3. MappingTypeOK'
    BY <1>18, <2>1, <2>2, MoveType DEF InsertRows, MappingTypeOK, local
  <2>4. CallOK'
    BY <1>18, <2>1, <2>2 DEF InsertRows, local, Created, CallOK, Answer, MappingTypeOK
  <2> QED
    BY <2>3, <2>4
<1>19. CASE UNCHANGED vars
  BY <1>19 DEF vars, local, MappingTypeOK, CallOK
<1> QED
  BY <1>1, <1>2, <1>3, <1>4, <1>5, <1>6, <1>7, <1>8, <1>9, <1>10, <1>11, <1>12,
     <1>13, <1>14, <1>15, <1>16, <1>17, <1>18, <1>19, <1>20 DEF Next, Step

(* Every variable of the mapping service always has its type: what is in   *)
(* memory, saved or about to be saved is a mapping of the keys clients set *)
(* and of the key without a set that a row of the table can be read as,    *)
(* and what a search matches are keys clients set                          *)
(* (VersionSetMappingBDImpl, VersionSetMapping.get).                       *)
THEOREM MappingTypeCorrect == Spec => []MappingTypeOK
<1>1. TypeInv => MappingTypeOK
  BY DEF TypeInv
<1> QED
  BY TypeInvInit, TypeInvStep, <1>1, PTL DEF Spec

(***************************************************************************)
(* The file lock                                                           *)
(***************************************************************************)

(* The thread that holds the lock is the one that writes, on the local     *)
(* storage only.                                                           *)
LockOK ==
  \A t \in Threads :
    pc[t] \in {"locked", "writing"} <=> lock = t

(* Steps that leave pc within or without the locked section, and the lock. *)
LEMMA LockUntouched ==
  ASSUME LockOK, UNCHANGED lock,
         \A t \in Threads : pc'[t] \in {"locked", "writing"}
                              <=> pc[t] \in {"locked", "writing"}
  PROVE  LockOK'
  BY DEF LockOK

LEMMA LockStep == TypeInv /\ LockOK /\ [Next]_vars => LockOK'
<1> SUFFICES ASSUME TypeInv, LockOK, [Next]_vars PROVE LockOK'
  OBVIOUS
<1>0. pc \in [Threads -> Labels] /\ NoThread \notin Threads
  BY MappingConstantsAssumption DEF TypeInv, MappingTypeOK
<1>1. ASSUME NEW t \in Threads, NEW r \in Requests, Invoke(t, r)
      PROVE  LockOK'
  BY <1>0, <1>1, LockUntouched DEF Invoke
<1>2. ASSUME NEW t \in Threads, Return(t)
      PROVE  LockOK'
  BY <1>0, <1>2, LockUntouched DEF Return
<1>3. ASSUME NEW t \in Threads,
             \/ PutEntry(t) \/ LookUp(t) \/ Scan(t) \/ Visit(t) \/ RemoveEntry(t) \/ Serialize(t)
      PROVE  LockOK'
  BY <1>0, <1>3, LockUntouched
     DEF PutEntry, LookUp, Scan, Visit, PassBy, RemoveEntry, Serialize, Goto
<1>4. ASSUME NEW t \in Threads, FetchEntry(t) \/ EndScan(t)
      PROVE  LockOK'
  <2>1. \E reference : AfterSearch(t, reference)
    BY <1>4 DEF FetchEntry, EndScan
  <2>2. pc[t] \notin {"locked", "writing"} /\ UNCHANGED lock
    BY <1>4 DEF FetchEntry, EndScan
  <2>3. \/ Goto(t, "remove")
        \/ \E outcome \in {"ok", "absent", "conflict", "error"} : Answer(t, outcome)
    BY <2>1, AfterSearchMoves
  <2> QED
    BY <1>0, <2>2, <2>3, LockUntouched DEF Goto, Answer
<1>5. ASSUME NEW t \in Threads, OpenAndLock(t)
      PROVE  LockOK'
  BY <1>0, <1>5 DEF OpenAndLock, Goto, LockOK
<1>6. ASSUME NEW t \in Threads, LockIsHeld(t) \/ PutMapping(t) \/ InsertRows(t) \/ LockingFails(t)
      PROVE  LockOK'
  BY <1>0, <1>6, LockUntouched DEF LockIsHeld, PutMapping, InsertRows, LockingFails, Answer
<1>7. ASSUME NEW t \in Threads, StartWriting(t)
      PROVE  LockOK'
  BY <1>0, <1>7, LockUntouched DEF StartWriting, Goto
<1>8. ASSUME NEW t \in Threads, FinishWriting(t)
      PROVE  LockOK'
  BY <1>0, <1>8 DEF FinishWriting, Answer, LockOK
<1>9. ASSUME NEW t \in Threads, IOFailure(t)
      PROVE  LockOK'
  BY <1>0, <1>9 DEF IOFailure, Answer, LockOK
<1>10. CASE Restart
  BY <1>0, <1>10 DEF Restart, LockOK
<1>11. CASE UNCHANGED vars
  BY <1>11 DEF vars, LockOK
<1> QED
  BY <1>1, <1>2, <1>3, <1>4, <1>5, <1>6, <1>7, <1>8, <1>9, <1>10, <1>11
     DEF Next, Step

(* After every save, successful, failed or cut off by a crash, the file    *)
(* lock is free again (LocalFileStorageService.write).                     *)
THEOREM LockAlwaysReleased == Spec => []LockIsReleased
<1>1. Init => LockOK
  BY MappingConstantsAssumption DEF Init, LockOK
<1>2. TypeInv /\ LockOK => LockIsReleased
  BY DEF TypeInv, MappingTypeOK, LockOK, LockIsReleased
<1> QED
  BY TypeInvInit, TypeInvStep, LockStep, <1>1, <1>2, PTL DEF Spec

(***************************************************************************)
(* A thread that writes the file is alone with it.                         *)
(***************************************************************************)

(* What the holder of the lock has done to the file so far, and that only  *)
(* the local storage has a holder.                                         *)
HeldFileOK ==
  \A t \in Threads :
    /\ pc[t] \in {"locked", "writing"} => storage = "local"
    /\ pc[t] = "locked" => file # NoFile
    /\ pc[t] = "writing" => file = t

(* A step that neither enters the locked section nor moves within it, and  *)
(* creates the file at most, while nobody writes it.                       *)
LEMMA HeldUntouched ==
  ASSUME HeldFileOK, UNCHANGED storage, file' \in {file, Created}, NoFile \notin Threads \cup {Empty},
         \A t \in Threads : pc'[t] \in {"locked", "writing"} => pc'[t] = pc[t]
  PROVE  HeldFileOK'
  BY DEF HeldFileOK, Created

LEMMA HeldStep == TypeInv /\ LockOK /\ HeldFileOK /\ [Next]_vars => HeldFileOK'
<1> SUFFICES ASSUME TypeInv, LockOK, HeldFileOK, [Next]_vars PROVE HeldFileOK'
  OBVIOUS
<1>0. /\ pc \in [Threads -> Labels] /\ NoThread \notin Threads
      /\ NoFile \notin Mappings \cup Threads \cup {Empty}
  BY MappingConstantsAssumption DEF TypeInv, MappingTypeOK
<1>1. ASSUME NEW t \in Threads, NEW r \in Requests, Invoke(t, r)
      PROVE  HeldFileOK'
  BY <1>0, <1>1, HeldUntouched DEF Invoke
<1>2. ASSUME NEW t \in Threads, Return(t)
      PROVE  HeldFileOK'
  BY <1>0, <1>2, HeldUntouched DEF Return
<1>3. ASSUME NEW t \in Threads,
             \/ PutEntry(t) \/ LookUp(t) \/ Scan(t) \/ Visit(t) \/ RemoveEntry(t) \/ Serialize(t)
      PROVE  HeldFileOK'
  BY <1>0, <1>3, HeldUntouched
     DEF PutEntry, LookUp, Scan, Visit, PassBy, RemoveEntry, Serialize, Goto
<1>4. ASSUME NEW t \in Threads, FetchEntry(t) \/ EndScan(t)
      PROVE  HeldFileOK'
  <2>1. UNCHANGED file /\ \E reference : AfterSearch(t, reference)
    BY <1>4 DEF FetchEntry, EndScan
  <2>2. \/ Goto(t, "remove")
        \/ \E outcome \in {"ok", "absent", "conflict", "error"} : Answer(t, outcome)
    BY <2>1, AfterSearchMoves
  <2> QED
    BY <1>0, <2>1, <2>2, HeldUntouched DEF Goto, Answer
<1>5. ASSUME NEW t \in Threads, OpenAndLock(t)
      PROVE  HeldFileOK'
  <2>1. \A s \in Threads : pc[s] \notin {"locked", "writing"}
    BY <1>0, <1>5 DEF OpenAndLock, LockOK
  <2> QED
    BY <1>0, <1>5, <2>1 DEF OpenAndLock, Goto, Created, HeldFileOK
<1>6. ASSUME NEW t \in Threads, LockIsHeld(t) \/ LockingFails(t)
      PROVE  HeldFileOK'
  BY <1>0, <1>6, HeldUntouched DEF LockIsHeld, LockingFails, Answer
<1>7. ASSUME NEW t \in Threads, StartWriting(t)
      PROVE  HeldFileOK'
  <2>1. \A s \in Threads \ {t} : pc[s] \notin {"locked", "writing"}
    BY <1>0, <1>7 DEF StartWriting, LockOK
  <2> QED
    BY <1>0, <1>7, <2>1 DEF StartWriting, Goto, HeldFileOK
<1>8. ASSUME NEW t \in Threads, FinishWriting(t)
      PROVE  HeldFileOK'
  <2>1. \A s \in Threads \ {t} : pc[s] \notin {"locked", "writing"}
    BY <1>0, <1>8 DEF FinishWriting, LockOK
  <2> QED
    BY <1>0, <1>8, <2>1 DEF FinishWriting, Answer, HeldFileOK
<1>9. ASSUME NEW t \in Threads, PutMapping(t) \/ InsertRows(t)
      PROVE  HeldFileOK'
  <2>1. \A s \in Threads : pc[s] \notin {"locked", "writing"}
    BY <1>9 DEF PutMapping, InsertRows, HeldFileOK
  <2> QED
    BY <1>0, <1>9, <2>1 DEF PutMapping, InsertRows, Answer, HeldFileOK
<1>10. ASSUME NEW t \in Threads, IOFailure(t)
       PROVE  HeldFileOK'
  BY <1>0, <1>10, HeldUntouched DEF IOFailure, Answer
<1>11. CASE Restart
  BY <1>11 DEF Restart, HeldFileOK
<1>12. CASE UNCHANGED vars
  BY <1>0, <1>12, HeldUntouched DEF vars
<1> QED
  BY <1>1, <1>2, <1>3, <1>4, <1>5, <1>6, <1>7, <1>8, <1>9, <1>10, <1>11, <1>12
     DEF Next, Step

LEMMA HeldInit == Init => LockOK /\ HeldFileOK
  BY MappingConstantsAssumption DEF Init, LockOK, HeldFileOK

(* However many threads save, fail and die, what is in the file while a    *)
(* thread writes it is that thread's (LocalFileStorageService.write).      *)
THEOREM WriterAlwaysAlone == Spec => []WriterIsAlone
<1>1. HeldFileOK => WriterIsAlone
  BY DEF HeldFileOK, WriterIsAlone
<1> QED
  BY TypeInvInit, TypeInvStep, LockStep, HeldInit, HeldStep, <1>1, PTL DEF Spec

(***************************************************************************)
(* Without faults, the mapping file is whole whenever it is not locked.    *)
(***************************************************************************)

(* The file is empty or partly written only while the thread that holds    *)
(* the lock is writing it (LocalFileStorageService.write).                 *)
WholeUnlessLocked ==
  /\ file = Empty => lock # NoThread /\ pc[lock] = "locked"
  /\ file \in Threads => lock = file /\ pc[file] = "writing"

(* A step that changes neither the file nor the lock, and moves nobody     *)
(* within the locked section.                                              *)
LEMMA WholeUntouched ==
  ASSUME TypeInv, WholeUnlessLocked, UNCHANGED <<file, lock>>,
         \A t \in Threads : pc[t] \in {"locked", "writing"} => pc'[t] = pc[t]
  PROVE  WholeUnlessLocked'
  BY DEF TypeInv, MappingTypeOK, WholeUnlessLocked

LEMMA WholeStep ==
  ASSUME Faults = {}, TypeInv, LockOK, HeldFileOK, WholeUnlessLocked, [Next]_vars
  PROVE  WholeUnlessLocked'
<1>0. /\ pc \in [Threads -> Labels] /\ lock \in Threads \cup {NoThread}
      /\ file \in Mappings \cup Threads \cup {NoFile, Empty}
      /\ NoThread \notin Threads /\ Empty \notin Mappings \cup Threads
      /\ Threads \cap Mappings = {} /\ NoFile \notin Mappings \cup Threads \cup {Empty}
  BY MappingConstantsAssumption DEF TypeInv, MappingTypeOK
<1>1. ASSUME NEW t \in Threads, NEW r \in Requests, Invoke(t, r)
      PROVE  WholeUnlessLocked'
  BY <1>0, <1>1, WholeUntouched DEF Invoke
<1>2. ASSUME NEW t \in Threads, Return(t)
      PROVE  WholeUnlessLocked'
  BY <1>0, <1>2, WholeUntouched DEF Return
<1>3. ASSUME NEW t \in Threads,
             \/ PutEntry(t) \/ LookUp(t) \/ Scan(t) \/ Visit(t) \/ RemoveEntry(t) \/ Serialize(t)
      PROVE  WholeUnlessLocked'
  BY <1>0, <1>3, WholeUntouched
     DEF PutEntry, LookUp, Scan, Visit, PassBy, RemoveEntry, Serialize, Goto
<1>4. ASSUME NEW t \in Threads, FetchEntry(t) \/ EndScan(t)
      PROVE  WholeUnlessLocked'
  <2>1. \E reference : AfterSearch(t, reference)
    BY <1>4 DEF FetchEntry, EndScan
  <2>2. pc[t] \notin {"locked", "writing"} /\ UNCHANGED <<file, lock>>
    BY <1>4 DEF FetchEntry, EndScan
  <2>3. \/ Goto(t, "remove")
        \/ \E outcome \in {"ok", "absent", "conflict", "error"} : Answer(t, outcome)
    BY <2>1, AfterSearchMoves
  <2> QED
    BY <1>0, <2>2, <2>3, WholeUntouched DEF Goto, Answer
<1>5. ASSUME NEW t \in Threads, OpenAndLock(t)
      PROVE  WholeUnlessLocked'
  <2>1. file \notin Threads /\ file # Empty
    BY <1>0, <1>5 DEF OpenAndLock, WholeUnlessLocked
  <2> QED
    BY <1>0, <1>5, <2>1 DEF OpenAndLock, Goto, Created, WholeUnlessLocked
<1>6. ASSUME NEW t \in Threads, LockIsHeld(t)
      PROVE  WholeUnlessLocked'
  <2>1. lock \in Threads /\ pc[lock] \in {"locked", "writing"}
    BY <1>0, <1>6 DEF LockIsHeld, LockOK
  <2>2. file # NoFile
    BY <1>0, <2>1 DEF HeldFileOK
  <2>3. UNCHANGED <<file, lock>>
    BY <1>6, <2>2 DEF LockIsHeld, Created
  <2> QED
    BY <1>0, <1>6, <2>3, WholeUntouched DEF LockIsHeld, Answer
<1>7. ASSUME NEW t \in Threads, StartWriting(t)
      PROVE  WholeUnlessLocked'
  <2>1. lock = t
    BY <1>7 DEF StartWriting, LockOK
  <2> QED
    BY <1>0, <1>7, <2>1 DEF StartWriting, Goto, WholeUnlessLocked
<1>8. ASSUME NEW t \in Threads, FinishWriting(t) \/ PutMapping(t) \/ InsertRows(t)
      PROVE  WholeUnlessLocked'
  <2>1. file' \in Mappings
    BY <1>8, InsertedIsMapping DEF FinishWriting, PutMapping, TypeInv, CallOK
  <2> QED
    BY <1>0, <2>1 DEF WholeUnlessLocked
<1>9. ASSUME NEW t \in Threads PROVE ~ IOFailure(t) /\ ~ LockingFails(t)
  BY DEF IOFailure, LockingFails
<1>10. CASE UNCHANGED vars
  BY <1>0, <1>10, WholeUntouched DEF vars
<1>11. ~ Restart
  BY DEF Restart
<1> QED
  BY <1>1, <1>2, <1>3, <1>4, <1>5, <1>6, <1>7, <1>8, <1>9, <1>10, <1>11
     DEF Next, Step

(* What the lock achieves: as long as nothing fails, the file is a whole   *)
(* mapping, and can be loaded, whenever no thread holds its lock, however  *)
(* many threads save at the same time (LocalFileStorageService.write).     *)
THEOREM LockedFileIsWhole ==
  ASSUME Faults = {}
  PROVE  Spec => []WholeUnlessLocked
<1>1. Init => WholeUnlessLocked
  BY MappingConstantsAssumption DEF Init, WholeUnlessLocked
<1>2. TypeInv /\ LockOK /\ HeldFileOK /\ WholeUnlessLocked /\ [Next]_vars
        => WholeUnlessLocked'
  BY WholeStep
<1> QED
  BY TypeInvInit, TypeInvStep, LockStep, HeldInit, HeldStep, <1>1, <1>2, PTL DEF Spec

(***************************************************************************)
(* The search step by step, with one request at a time: the loop over the  *)
(* configuration and the map computes what the operators say               *)
(***************************************************************************)

Decided(t, i) == NewMatchesAt(Mapped, request[t].key, i)

(* What the entries before index[t] have matched.                          *)
Earlier(t) ==
  UNION {MatchesAt(Mapped, request[t].key, j) :
           j \in {j \in Reached(request[t].key) : j < index[t]}}

(* The last entry before index[t] that has new matches has decided.        *)
FoundSoFar(t) ==
  \/ /\ found[t] = NoReference
     /\ \A j \in Reached(request[t].key) : j < index[t] => Decided(t, j) = {}
  \/ \E i \in Reached(request[t].key) :
       /\ i < index[t]
       /\ \A j \in Reached(request[t].key) :
            i < j /\ j < index[t] => Decided(t, j) = {}
       /\ \E match \in Decided(t, i) : found[t] = mapping[match]

(* In the loop over the map, the new matches the thread has come to.       *)
Visited(t) == Decided(t, index[t]) \ pending[t]

VisitOK(t) ==
  /\ index[t] \in Reached(request[t].key)
  /\ pending[t] \cap Mapped \subseteq Decided(t, index[t])
  /\ matches[t] = Earlier(t) \cup Visited(t)
  /\ IF Visited(t) = {} THEN FoundSoFar(t)
                        ELSE \E match \in Visited(t) : found[t] = mapping[match]

SearchOK(t) ==
  /\ pc[t] # "idle" => request[t] \in Requests
  /\ pc[t] \in {"idle", "put", "lookup", "fetch"} =>
       index[t] = 1 /\ matches[t] = {} /\ found[t] = NoReference
  /\ pc[t] \in {"put", "remove", "save", "write", "locked", "writing"} =>
       request[t].op # "find"
  /\ pc[t] = "fetch" => request[t].key \in Mapped
  /\ pc[t] \in {"scan", "visit"} => request[t].key \notin Mapped
  /\ pc[t] = "scan" => matches[t] = Earlier(t) /\ FoundSoFar(t)
  /\ pc[t] = "visit" => VisitOK(t)
  /\ Ended(t, "find", "ok") =>
       \E key \in Candidates(Mapped, request[t].key) : found[t] = mapping[key]
  /\ Ended(t, "find", "absent") =>
       /\ request[t].key \notin Mapped
       /\ \A i \in Reached(request[t].key) : Decided(t, i) = {}

SearchInv == TypeInv /\ \A t \in Threads : SearchOK(t)

LEMMA MappedAreKeys ==
  ASSUME MappingTypeOK
  PROVE  /\ Mapped \subseteq MappingKeys
         /\ \A key \in MappingKeys \cup Queries : key \in Mapped <=> key \in DOMAIN mapping
         /\ \A key \in Mapped : mapping[key] \in References
  BY MappingValues, MappingConstantsAssumption DEF Mapped, MappingTypeOK

LEMMA RequestKeys ==
  ASSUME NEW r \in Requests
  PROVE  r.key \in MappingKeys \cup Queries
  BY DEF Requests

(* An entry's new matches are those not matched before.                    *)
LEMMA NewMatchesAreNew ==
  ASSUME NEW t \in Threads, MappingTypeOK, index[t] \in Reached(request[t].key)
  PROVE  /\ (MatchesAt(MappingKeys, request[t].key, index[t]) \ Earlier(t)) \cap Mapped
              = Decided(t, index[t])
         /\ Earlier(t) \subseteq Mapped
<1>1. Mapped \subseteq MappingKeys
  BY MappedAreKeys
<1> QED
  BY <1>1 DEF Earlier, Decided, NewMatchesAt, MatchesAt

(* The loop over the configuration goes on to the next entry.              *)
LEMMA NextEntry ==
  ASSUME NEW t \in Threads, MappingTypeOK,
         request' = request, mapping' = mapping, index'[t] = index[t] + 1,
         IF index[t] \in Reached(request[t].key)
           THEN /\ matches'[t] = Earlier(t) \cup Decided(t, index[t])
                /\ IF Decided(t, index[t]) = {}
                     THEN FoundSoFar(t) /\ found' = found
                     ELSE \E match \in Decided(t, index[t]) : found'[t] = mapping[match]
           ELSE matches'[t] = Earlier(t) /\ FoundSoFar(t) /\ found' = found
  PROVE  matches'[t] = Earlier(t)' /\ FoundSoFar(t)'
<1> DEFINE q == request[t].key
           n == index[t]
<1>1. n \in Nat /\ Reached(q) \subseteq Nat /\ Mapped' = Mapped
  BY PrecedenceAssumption DEF MappingTypeOK, Reached, Mapped
<1>2. \A i : Decided(t, i)' = Decided(t, i)
  BY <1>1 DEF Decided
<1>3. CASE n \notin Reached(q)
  <2>1. \A j \in Reached(q) : j < n + 1 <=> j < n
    BY <1>1, <1>3
  <2>2. matches'[t] = Earlier(t)'
    BY <1>1, <1>3, <2>1 DEF Earlier
  <2>3. FoundSoFar(t)'
    BY <1>1, <1>2, <1>3, <2>1 DEF FoundSoFar
  <2> QED
    BY <2>2, <2>3
<1>4. CASE n \in Reached(q)
  <2>1. \A j \in Reached(q) : j < n + 1 <=> j < n \/ j = n
    BY <1>1
  <2>2. matches'[t] = Earlier(t)'
    <3>1. Decided(t, n) = MatchesAt(Mapped, q, n) \ Earlier(t)
      BY DEF Decided, NewMatchesAt, Earlier, MatchesAt
    <3>2. matches'[t] = Earlier(t) \cup MatchesAt(Mapped, q, n)
      BY <1>4, <3>1
    <3> QED
      BY <1>1, <1>4, <2>1, <3>2 DEF Earlier
  <2>3. CASE Decided(t, n) = {}
    BY <1>1, <1>2, <1>4, <2>1, <2>2, <2>3 DEF FoundSoFar
  <2>4. CASE Decided(t, n) # {}
    <3>1. \E match \in Decided(t, n) : found'[t] = mapping[match]
      BY <1>4, <2>4
    <3>2. \A j \in Reached(q) : ~ (n < j /\ j < n + 1)
      BY <1>1
    <3> QED
      BY <1>1, <1>2, <1>4, <2>2, <3>1, <3>2 DEF FoundSoFar
  <2> QED
    BY <2>3, <2>4
<1> QED
  BY <1>3, <1>4

LEMMA FoundAsBefore ==
  ASSUME NEW t \in Threads, UNCHANGED <<mapping, request, found, index>>,
         \A i : Decided(t, i)' = Decided(t, i), FoundSoFar(t)
  PROVE  FoundSoFar(t)'
  BY DEF FoundSoFar

LEMMA ScanGoesOn ==
  ASSUME SearchInv, NEW t \in Threads, Scan(t)
  PROVE  SearchOK(t)'
<1> DEFINE q == request[t].key
           n == index[t]
           next == IF n \in Reached(q) THEN MatchesAt(MappingKeys, q, n) \ matches[t] ELSE {}
<1> USE DEF SearchInv, TypeInv, MappingTypeOK
<1>1. /\ pc[t] = "scan" /\ request' = request /\ mapping' = mapping /\ Mapped' = Mapped
      /\ UNCHANGED <<matches, found>> /\ pending'[t] = next
      /\ index' = IF next = {} THEN [index EXCEPT ![t] = @ + 1] ELSE index
      /\ pc'[t] = IF next = {} THEN "scan" ELSE "visit"
  BY DEF Scan, Goto, Mapped
<1>2. /\ matches[t] = Earlier(t) /\ FoundSoFar(t) /\ q \notin Mapped
      /\ request[t] \in Requests
  BY <1>1 DEF SearchOK
<1>3. n \in Reached(q) => next \cap Mapped = Decided(t, n)
  BY <1>2, NewMatchesAreNew
<1>4. CASE next = {}
  <2>1. n \in Reached(q) => Decided(t, n) = {}
    BY <1>3, <1>4
  <2>2. matches'[t] = Earlier(t)' /\ FoundSoFar(t)'
    <3>1. index'[t] = n + 1
      BY <1>1, <1>4
    <3> QED
      BY <1>1, <1>2, <2>1, <3>1, NextEntry
  <2> QED
    BY <1>1, <1>2, <1>4, <2>2 DEF SearchOK, Ended
<1>5. CASE next # {}
  <2>1. n \in Reached(q) /\ index' = index
    BY <1>1, <1>5
  <2>2. /\ \A i : Decided(t, i)' = Decided(t, i)
        /\ Decided(t, n)' = Decided(t, n) /\ Earlier(t)' = Earlier(t)
    BY <1>1, <2>1 DEF Decided, Earlier
  <2>6. FoundSoFar(t)'
    BY <1>1, <1>2, <2>1, <2>2, FoundAsBefore
  <2>3. /\ pending'[t] \cap Mapped = Decided(t, n)
        /\ Decided(t, n) \ pending'[t] = {}
    BY <1>1, <1>3, <2>1
  <2>4. Visited(t)' = {}
    BY <2>1, <2>2, <2>3 DEF Visited
  <2>5. VisitOK(t)'
    BY <1>1, <1>2, <2>1, <2>2, <2>3, <2>4, <2>6 DEF VisitOK
  <2> QED
    BY <1>1, <1>2, <1>5, <2>5 DEF SearchOK, Ended
<1> QED
  BY <1>4, <1>5

LEMMA VisitGoesOn ==
  ASSUME SearchInv, NEW t \in Threads, Visit(t)
  PROVE  SearchOK(t)'
<1> DEFINE q == request[t].key
           n == index[t]
<1> USE DEF SearchInv, TypeInv, MappingTypeOK
<1>1. PICK key \in pending[t] :
        /\ PassBy(t, key)
        /\ IF key \in DOMAIN mapping
             THEN /\ matches' = [matches EXCEPT ![t] = @ \cup {key}]
                  /\ found' = [found EXCEPT ![t] = mapping[key]]
             ELSE UNCHANGED <<matches, found>>
  BY DEF Visit
<1>2. /\ pc[t] = "visit" /\ request' = request /\ mapping' = mapping /\ Mapped' = Mapped
      /\ pending'[t] = pending[t] \ {key}
      /\ index' = IF pending[t] = {key} THEN [index EXCEPT ![t] = @ + 1] ELSE index
      /\ pc'[t] = IF pending[t] = {key} THEN "scan" ELSE "visit"
  BY <1>1 DEF Visit, PassBy, Goto, Mapped
<1>3. VisitOK(t) /\ q \notin Mapped /\ request[t] \in Requests
  BY <1>2 DEF SearchOK
<1>4. key \in Mapped <=> key \in DOMAIN mapping
  BY MappedAreKeys
<1> DEFINE visited == Decided(t, n) \ pending'[t]
<1>5. /\ matches'[t] = Earlier(t) \cup visited
      /\ IF visited = {} THEN FoundSoFar(t) /\ found' = found
                        ELSE \E match \in visited : found'[t] = mapping[match]
  <2>1. CASE key \in Mapped
    <3>1. key \in Decided(t, n)
      BY <1>3, <2>1 DEF VisitOK
    <3>2. visited = Visited(t) \cup {key}
      BY <1>2, <3>1 DEF Visited
    <3>3. matches'[t] = matches[t] \cup {key} /\ found'[t] = mapping[key]
      BY <1>1, <1>4, <2>1
    <3> QED
      BY <1>3, <3>2, <3>3 DEF VisitOK
  <2>2. CASE key \notin Mapped
    <3>1. key \notin Decided(t, n)
      BY <2>2 DEF Decided, NewMatchesAt, MatchesAt
    <3>2. visited = Visited(t)
      BY <1>2, <3>1 DEF Visited
    <3>3. UNCHANGED <<matches, found>>
      BY <1>1, <1>4, <2>2
    <3> QED
      BY <1>3, <3>2, <3>3 DEF VisitOK
  <2> QED
    BY <2>1, <2>2
<1>6. CASE pending[t] = {key}
  <2>1. visited = Decided(t, n) /\ n \in Reached(q) /\ index'[t] = n + 1
    BY <1>2, <1>3, <1>6 DEF VisitOK
  <2>2. matches'[t] = Earlier(t)' /\ FoundSoFar(t)'
    BY <1>2, <1>5, <2>1, NextEntry
  <2> QED
    BY <1>2, <1>3, <1>6, <2>2 DEF SearchOK, Ended
<1>7. CASE pending[t] # {key}
  <2>1. index' = index /\ n \in Reached(q)
    BY <1>2, <1>3, <1>7 DEF VisitOK
  <2>2. /\ Decided(t, n)' = Decided(t, n) /\ Earlier(t)' = Earlier(t)
        /\ FoundSoFar(t) /\ found' = found => FoundSoFar(t)'
    BY <1>2, <2>1 DEF Decided, Earlier, FoundSoFar
  <2>3. Visited(t)' = visited
    BY <2>1, <2>2 DEF Visited
  <2>4. pending'[t] \cap Mapped \subseteq Decided(t, n)
    BY <1>2, <1>3 DEF VisitOK
  <2>5. VisitOK(t)'
    BY <1>2, <1>5, <2>1, <2>2, <2>3, <2>4 DEF VisitOK
  <2> QED
    BY <1>2, <1>3, <1>7, <2>5 DEF SearchOK, Ended
<1> QED
  BY <1>6, <1>7

(* When the loop has ended, what it found is what the fallback allows.     *)
LEMMA ScanEnds ==
  ASSUME SearchInv, NEW t \in Threads, pc[t] = "scan", index[t] > Len(Precedence)
  PROVE  /\ found[t] # NoReference =>
              \E key \in Candidates(Mapped, request[t].key) :
                found[t] = mapping[key]
         /\ found[t] = NoReference =>
              \A i \in Reached(request[t].key) : Decided(t, i) = {}
<1>1. \A j \in Reached(request[t].key) : j < index[t]
  BY PrecedenceAssumption DEF Reached, SearchInv, TypeInv, MappingTypeOK
<1>2. FoundSoFar(t) /\ request[t].key \notin Mapped
  BY DEF SearchInv, SearchOK
<1>3. ASSUME NEW i \in Reached(request[t].key), NEW match \in Decided(t, i),
             found[t] = mapping[match]
      PROVE  found[t] # NoReference
  <2>1. match \in Mapped
    BY DEF Decided, NewMatchesAt, MatchesAt
  <2> QED
    BY <1>3, <2>1, MappedAreKeys, MappingConstantsAssumption DEF SearchInv, TypeInv
<1>4. ASSUME NEW i \in Reached(request[t].key),
             \A j \in Reached(request[t].key) : i < j => Decided(t, j) = {},
             NEW match \in Decided(t, i)
      PROVE  match \in Candidates(Mapped, request[t].key)
  <2>1. Reached(request[t].key) \subseteq Nat
    BY PrecedenceAssumption DEF Reached
  <2> QED
    BY <1>2, <1>4, <2>1 DEF Candidates, Fallback, Decided
<1> QED
  BY <1>1, <1>2, <1>3, <1>4 DEF FoundSoFar

(* The search has ended with a reference, or with none.                    *)
LEMMA SearchAnswers ==
  ASSUME SearchInv, NEW t \in Threads, pc[t] \in {"fetch", "scan"},
         NEW reference, AfterSearch(t, reference), request[t] \in Requests,
         mapping' = mapping, found'[t] = reference,
         reference # NoReference =>
           \E key \in Candidates(Mapped, request[t].key) :
             reference = mapping[key],
         reference = NoReference =>
           /\ request[t].key \notin Mapped
           /\ \A i \in Reached(request[t].key) : Decided(t, i) = {}
  PROVE  SearchOK(t)'
<1>1. request' = request /\ Mapped' = Mapped
  BY DEF AfterSearch, Goto, Answer, Mapped
<1>2. CASE request[t].op = "find"
  <2>1. /\ pc'[t] = "done"
        /\ reply'[t] = IF reference = NoReference THEN "absent" ELSE "ok"
    BY <1>2 DEF AfterSearch, Answer, SearchInv, TypeInv, MappingTypeOK
  <2> QED
    BY <1>1, <2>1 DEF SearchOK, Ended, Decided
<1>3. CASE request[t].op # "find"
  <2>1. pc'[t] \in {"remove", "done"}
    BY <1>3 DEF AfterSearch, Goto, Answer, SearchInv, TypeInv, MappingTypeOK
  <2> QED
    BY <1>1, <1>3, <2>1 DEF SearchOK, Ended
<1> QED
  BY <1>2, <1>3

LEMMA StepSearches ==
  ASSUME SearchInv, NEW t \in Threads, Step(t)
  PROVE  SearchOK(t)'
<1> USE DEF SearchInv, TypeInv, MappingTypeOK
<1>1. CASE LookUp(t)
  <2>0. request[t] \in Requests /\ (request[t].key \in Mapped <=> request[t].key \in DOMAIN mapping)
    BY <1>1, RequestKeys, MappedAreKeys DEF LookUp, SearchOK
  <2>1. /\ request' = request /\ mapping' = mapping /\ Mapped' = Mapped
        /\ index'[t] = 1 /\ matches'[t] = {} /\ found'[t] = NoReference
        /\ pc'[t] = IF request[t].key \in Mapped THEN "fetch" ELSE "scan"
    BY <1>1, <2>0 DEF LookUp, Goto, local, SearchOK, Mapped
  <2>2. \A j \in Reached(request[t].key) : ~ (j < 1)
    BY PrecedenceAssumption DEF Reached
  <2>3. matches'[t] = Earlier(t)' /\ FoundSoFar(t)'
    BY <2>1, <2>2 DEF Earlier, FoundSoFar
  <2> QED
    BY <2>0, <2>1, <2>3 DEF SearchOK, Ended
<1>2. CASE FetchEntry(t)
  <2>1. /\ request[t].key \in Mapped /\ pc[t] = "fetch"
        /\ mapping[request[t].key] # NoReference /\ request[t] \in Requests
    BY <1>2, MappedAreKeys, MappingConstantsAssumption DEF FetchEntry, SearchOK
  <2>2. /\ AfterSearch(t, mapping[request[t].key])
        /\ mapping' = mapping /\ found'[t] = mapping[request[t].key]
    BY <1>2, <2>1 DEF FetchEntry, Mapped
  <2>3. request[t].key \in Candidates(Mapped, request[t].key)
    BY <2>1 DEF Candidates
  <2> QED
    BY <2>1, <2>2, <2>3, SearchAnswers
<1>3. CASE Scan(t) \/ Visit(t)
  BY <1>3, ScanGoesOn, VisitGoesOn
<1>4. CASE EndScan(t)
  <2>1. /\ pc[t] = "scan" /\ index[t] > Len(Precedence)
        /\ AfterSearch(t, found[t]) /\ mapping' = mapping /\ found' = found
        /\ request[t].key \notin Mapped /\ request[t] \in Requests
    BY <1>4 DEF EndScan, local, SearchOK
  <2> QED
    BY <2>1, ScanEnds, SearchAnswers
<1>5. CASE PutEntry(t) \/ RemoveEntry(t) \/ Serialize(t)
  <2>1. /\ pc[t] \in {"put", "remove", "save"} /\ pc'[t] \in {"save", "write"}
        /\ request' = request
    BY <1>5 DEF PutEntry, RemoveEntry, Serialize, Goto
  <2> QED
    BY <2>1 DEF SearchOK, Ended
<1>6. CASE \/ OpenAndLock(t) \/ LockIsHeld(t) \/ StartWriting(t) \/ FinishWriting(t)
           \/ PutMapping(t) \/ InsertRows(t) \/ IOFailure(t) \/ LockingFails(t)
  <2>1. /\ pc[t] \in {"write", "locked", "writing"}
        /\ pc'[t] \in {"locked", "writing", "done"}
        /\ request' = request
    BY <1>6
    DEF OpenAndLock, LockIsHeld, StartWriting, FinishWriting, PutMapping, InsertRows,
        IOFailure, LockingFails, Goto, Answer
  <2> QED
    BY <2>1 DEF SearchOK, Ended
<1> QED
  BY <1>1, <1>2, <1>3, <1>4, <1>5, <1>6 DEF Step

LEMMA SearchStep ==
  ASSUME \A t, u \in Threads : t = u, SearchInv, [Next]_vars
  PROVE  SearchInv'
<1> USE DEF SearchInv
<1>1. TypeInv'
  BY TypeInvStep
<1>2. ASSUME NEW t \in Threads, Step(t) PROVE \A u \in Threads : SearchOK(u)'
  BY <1>2, StepSearches
<1>3. ASSUME NEW t \in Threads, NEW r \in Requests, Invoke(t, r), NEW u \in Threads
      PROVE  SearchOK(u)'
  <2>1. /\ u = t /\ pc[t] = "idle" /\ request'[t] = r
        /\ pc'[t] = IF r.op = "set" THEN "put" ELSE "lookup"
        /\ UNCHANGED <<index, matches, found>>
    BY <1>3 DEF Invoke, TypeInv, MappingTypeOK, local
  <2> QED
    BY <2>1 DEF SearchOK, Ended
<1>4. ASSUME NEW t \in Threads, Return(t), NEW u \in Threads PROVE SearchOK(u)'
  <2>1. /\ u = t /\ pc'[t] = "idle"
        /\ index'[t] = 1 /\ matches'[t] = {} /\ found'[t] = NoReference
    BY <1>4 DEF Return, TypeInv, MappingTypeOK
  <2> QED
    BY <2>1 DEF SearchOK, Ended
<1>5. CASE Restart
  BY <1>1, <1>5 DEF Restart, SearchOK, Ended
<1>6. CASE UNCHANGED vars
  <2>1. UNCHANGED <<mapping, pc, request, index, pending, matches, found, reply, Mapped>>
    BY <1>6 DEF vars, local, Mapped
  <2>2. ASSUME NEW t \in Threads
        PROVE  /\ \A i : Decided(t, i)' = Decided(t, i)
               /\ Earlier(t)' = Earlier(t)
    BY <2>1 DEF Decided, Earlier
  <2>3. ASSUME NEW t \in Threads
        PROVE  /\ FoundSoFar(t)' <=> FoundSoFar(t)
               /\ Visited(t)' = Visited(t)
    BY <2>1, <2>2 DEF FoundSoFar, Visited
  <2>4. ASSUME NEW t \in Threads PROVE SearchOK(t)'
    <3>1. VisitOK(t)' <=> VisitOK(t)
      BY <2>1, <2>2, <2>3 DEF VisitOK
    <3> QED
      BY <2>1, <2>2, <2>3, <3>1 DEF SearchOK, Ended
  <2> QED
    BY <1>1, <2>4
<1> QED
  BY <1>1, <1>2, <1>3, <1>4, <1>5, <1>6 DEF Next

LEMMA SearchAlways ==
  ASSUME \A t, u \in Threads : t = u
  PROVE  Spec => []SearchInv
<1>1. Init => SearchInv
  BY TypeInvInit DEF Init, SearchInv, SearchOK, Ended
<1>2. SearchInv /\ [Next]_vars => SearchInv'
  BY SearchStep
<1> QED
  BY <1>1, <1>2, PTL DEF Spec

(* With one request at a time, whatever is mapped and configured, a find   *)
(* is answered with one of the candidates, and with absent only if there   *)
(* are none (VersionSetMapping.get, VersionSetMappingBDImpl.findMatch).    *)
THEOREM FindsAreCandidates ==
  ASSUME \A t, u \in Threads : t = u
  PROVE  Spec => []FindIsCandidate
<1>1. SearchInv => FindIsCandidate
  BY DEF SearchInv, SearchOK, FindIsCandidate, Candidates, Fallback, Ended, Decided
<1> QED
  BY <1>1, SearchAlways, PTL

(* With one request at a time and a configuration that lists generic       *)
(* combinations first, while only configured combinations are mapped, a    *)
(* find that gives any scope is answered from the most specific mapping    *)
(* that applies, and with absent only if none applies                      *)
(* (VersionSetMapping.get, VersionSetMappingBDImpl.findMatch).             *)
THEOREM FindsAreBest ==
  ASSUME \A t, u \in Threads : t = u, GenericFirst, {} \notin Queries
  PROVE  Spec => []FindIsBest
<1>1. SearchInv => FindIsBest
  <2> SUFFICES ASSUME SearchInv, KeysConfigured(Mapped), NEW t \in Threads,
                      Ended(t, "find", "ok") \/ Ended(t, "find", "absent")
               PROVE
                 LET query == request[t].key
                     best  == IF query \in Mapped THEN {query}
                              ELSE MostSpecific(Mapped, query)
                 IN  /\ Ended(t, "find", "ok") =>
                          \E key \in best : found[t] = mapping[key]
                     /\ Ended(t, "find", "absent") =>
                          Applicable(Mapped, query) = {}
    BY DEF FindIsBest
  <2> DEFINE query == request[t].key
  <2>1. query # {}
    <3>1. request[t] \in Requests \cup {NoRequest} /\ request[t].op = "find"
      BY DEF SearchInv, TypeInv, MappingTypeOK, Ended
    <3>2. request[t].key \in Queries
      BY <3>1 DEF Requests, NoRequest
    <3> QED
      BY <3>2
  <2>2. SearchOK(t)
    BY DEF SearchInv
  <2>3. CASE Ended(t, "find", "ok")
    <3>1. PICK key \in Candidates(Mapped, query) : found[t] = mapping[key]
      BY <2>2, <2>3 DEF SearchOK
    <3>2. Fallback(Mapped, query) = MostSpecific(Mapped, query)
      BY <2>1, FallbackIsMostSpecific
    <3> QED
      BY <2>3, <3>1, <3>2 DEF Candidates, Ended
  <2>4. CASE Ended(t, "find", "absent")
    <3>1. ASSUME NEW s \in Applicable(Mapped, query) PROVE FALSE
      <4>1. s \in Mapped
        BY DEF Applicable
      <4>2. PICK k \in 1 .. Len(Precedence) : KeysAreAt(s, k)
        BY <4>1 DEF KeysConfigured
      <4>3. k \in Reached(query)
        BY <2>1, <4>2, OwnEntryReached
      <4>4. s \in NewMatchesAt(Mapped, query, k)
        BY <2>1, <4>1, <4>2, <4>3, NewAtOwnEntry
      <4> QED
        BY <2>2, <2>4, <4>3, <4>4 DEF SearchOK, Decided
    <3> QED
      BY <2>4, <3>1 DEF Ended
  <2> QED
    BY <2>3, <2>4
<1> QED
  BY <1>1, SearchAlways, PTL

(***************************************************************************)
(* What is acknowledged is saved                                           *)
(*                                                                         *)
(* AckedIsSaved speaks of the file only.  It is kept by the next save      *)
(* because what clients know is also in the mapping in memory and in what  *)
(* other threads are about to write, and by a restart because the mapping  *)
(* is loaded from the file.                                                *)
(***************************************************************************)

Saving(t) == pc[t] \in {"write", "locked", "writing"}

(* A mapping that shows what clients know of a key, but for what AckedIs-  *)
(* Saved does not claim of Cassandra.                                      *)
Shows(m, key, reference) ==
  IF reference = NoReference
    THEN storage = "cassandra" \/ key \notin DOMAIN m
    ELSE \/ storage = "cassandra" /\ key = {}
         \/ key \in DOMAIN m /\ m[key] = reference

(* What the call of t has changed is in memory.                            *)
HasChanged(t) ==
  \/ /\ request[t].op = "set" /\ request[t].key \in DOMAIN mapping
     /\ mapping[request[t].key] = request[t].reference
  \/ request[t].op = "delete" /\ request[t].key \notin DOMAIN mapping

CallKnows(t) ==
  /\ pc[t] # "idle" => request[t] \in Requests
  /\ pc[t] = "put" => request[t].op = "set"
  /\ pc[t] \in {"lookup", "fetch", "scan", "visit"} => request[t].op \in {"find", "delete"}
  /\ pc[t] = "remove" => request[t].op = "delete"
  /\ pc[t] = "save" \/ Saving(t) => request[t].op \in {"set", "delete"}
  /\ alone[t] => Changing(t) /\ \A other \in Threads \ {t} : ~ Changing(other)
  /\ alone[t] /\ (pc[t] = "save" \/ Saving(t)) => HasChanged(t)
  /\ alone[t] /\ Saving(t) => snapshot[t] = mapping

ChangedIsUnknown ==
  \A t \in Threads, key \in MappingKeys :
    Changing(t) /\ request[t].key = key => acked[key] = Unknown

KeyOK(key) ==
  acked[key] # Unknown =>
    /\ Shows(mapping, key, acked[key])
    /\ \A t \in Threads : Saving(t) => Shows(snapshot[t], key, acked[key])
    /\ file \in Mappings \cup {NoFile} => Shows(Saved, key, acked[key])

AckInv ==
  /\ TypeInv
  /\ \A t \in Threads : CallKnows(t)
  /\ ChangedIsUnknown
  /\ \A key \in MappingKeys : KeyOK(key)

(* What a restart loads shows what the file shows.                         *)
LEMMA LoadedShows ==
  ASSUME NEW key \in MappingKeys, NEW reference, file \in Mappings \cup {NoFile},
         Shows(Saved, key, reference), NEW m \in Load(file)
  PROVE  Shows(m, key, reference)
<1>1. CASE storage = "cassandra" /\ file \in Mappings
  <2>1. m \in Parsed(file) /\ Saved = file
    BY <1>1, MappingConstantsAssumption DEF Load, Saved
  <2>2. CASE reference = NoReference \/ key = {}
    BY <1>1, <2>2 DEF Shows
  <2>3. CASE reference # NoReference /\ key # {}
    <3>1. key \in DOMAIN file /\ file[key] = reference
      BY <2>1, <2>3 DEF Shows
    <3>2. key \in DOMAIN m /\ m[key] = reference
      BY <1>1, <2>1, <2>3, <3>1, ParsedIsMapping
    <3> QED
      BY <2>3, <3>2 DEF Shows
  <2> QED
    BY <2>2, <2>3
<1>2. CASE ~ (storage = "cassandra" /\ file \in Mappings)
  <2>1. m = Saved
    BY <1>2, MappingConstantsAssumption DEF Load, Saved
  <2> QED
    BY <2>1
<1> QED
  BY <1>1, <1>2

(* A step of one thread.                                                   *)
OthersWait(t) ==
  /\ UNCHANGED storage
  /\ \A s \in Threads \ {t} :
       pc'[s] = pc[s] /\ request'[s] = request[s] /\ snapshot'[s] = snapshot[s]

LEMMA OneThreadSteps ==
  ASSUME TypeInv, NEW t \in Threads,
         Step(t) \/ Return(t) \/ \E r \in Requests : Invoke(t, r)
  PROVE  OthersWait(t)
<1> USE DEF TypeInv, MappingTypeOK, OthersWait, Goto, Answer
<1>1. CASE Return(t) \/ \E r \in Requests : Invoke(t, r)
  BY <1>1 DEF Return, Invoke
<1>2. CASE PutEntry(t) \/ LookUp(t) \/ Scan(t) \/ Visit(t) \/ RemoveEntry(t) \/ Serialize(t)
  BY <1>2 DEF PutEntry, LookUp, Scan, Visit, PassBy, RemoveEntry, Serialize
<1>3. CASE FetchEntry(t) \/ EndScan(t)
  <2>1. PICK reference : AfterSearch(t, reference)
    BY <1>3 DEF FetchEntry, EndScan
  <2>2. UNCHANGED snapshot
    BY <1>3 DEF FetchEntry, EndScan
  <2> QED
    BY <2>1, <2>2 DEF AfterSearch
<1>4. CASE \/ OpenAndLock(t) \/ LockIsHeld(t) \/ StartWriting(t) \/ FinishWriting(t)
           \/ PutMapping(t) \/ InsertRows(t) \/ IOFailure(t) \/ LockingFails(t)
  BY <1>4 DEF OpenAndLock, LockIsHeld, StartWriting, FinishWriting, PutMapping, InsertRows,
              IOFailure, LockingFails
<1> QED
  BY <1>1, <1>2, <1>3, <1>4 DEF Step

(* What the history records of it: a key becomes known only by an acknow-  *)
(* ledged change of it that was alone.                                     *)
LEMMA RecordStep ==
  ASSUME AckInv, NEW t \in Threads, OthersWait(t), Record, NEW key \in MappingKeys
  PROVE  \/ acked'[key] \in {acked[key], Unknown}
         \/ /\ alone[t] /\ Acknowledged(t) /\ request[t].key = key
            /\ acked'[key] = request[t].reference
<1>1. ASSUME NEW s \in Threads, Acknowledged(s) PROVE s = t
  BY <1>1 DEF Acknowledged, Changing, OthersWait
<1>2. ASSUME alone[t] PROVE (CHOOSE s \in Threads : alone[s]) = t
  <2>1. \A s \in Threads : alone[s] => s = t
    BY <1>2 DEF AckInv, CallKnows
  <2> QED
    BY <1>2, <2>1
<1> QED
  BY <1>1, <1>2 DEF Record

LEMMA RecordUnknown == ASSUME Record PROVE ChangedIsUnknown'
  BY DEF Record, ChangedIsUnknown

LEMMA RecordAlone ==
  ASSUME Record, NEW t \in Threads, alone'[t]
  PROVE  /\ Changing(t)' /\ \A other \in Threads \ {t} : ~ Changing(other)'
         /\ Changing(t) => alone[t]
  BY DEF Record

(* The threads that wait know what they knew: a thread is not alone when   *)
(* another one changes the mapping.                                        *)
LEMMA OthersKnow ==
  ASSUME AckInv, NEW t \in Threads, OthersWait(t), Record,
         mapping' = mapping \/ Changing(t),
         NEW s \in Threads \ {t}
  PROVE  CallKnows(s)'
<1>1. CallKnows(s) /\ pc'[s] = pc[s] /\ request'[s] = request[s] /\ snapshot'[s] = snapshot[s]
  BY DEF AckInv, OthersWait
<1>2. ASSUME alone'[s]
      PROVE  /\ Changing(s)' /\ \A other \in Threads \ {s} : ~ Changing(other)'
             /\ alone[s] /\ mapping' = mapping
  <2>1. Changing(s)' /\ Changing(s) => alone[s]
    BY <1>2, RecordAlone
  <2>2. alone[s]
    BY <1>1, <1>2, <2>1, RecordAlone DEF Changing
  <2>3. ~ Changing(t)
    BY <1>1, <2>2 DEF CallKnows
  <2> QED
    BY <1>2, <2>2, <2>3, RecordAlone
<1>3. alone'[s] => (HasChanged(s)' <=> HasChanged(s))
  BY <1>1, <1>2 DEF HasChanged
<1> QED
  BY <1>1, <1>2, <1>3 DEF CallKnows, Saving

(* A step that neither changes the mapping nor completes a file, and       *)
(* acknowledges nothing.                                                   *)
LEMMA QuietKeys ==
  ASSUME AckInv, NEW t \in Threads, OthersWait(t), Record,
         mapping' = mapping, file' = file \/ file' \in Threads \cup {Empty},
         Saving(t)' => Saving(t) /\ snapshot'[t] = snapshot[t],
         ~ Acknowledged(t),
         NEW key \in MappingKeys
  PROVE  KeyOK(key)'
<1> SUFFICES ASSUME acked'[key] # Unknown PROVE KeyOK(key)'
  BY DEF KeyOK
<1>1. acked'[key] = acked[key]
  BY RecordStep
<1>2. KeyOK(key) /\ storage' = storage
  BY DEF AckInv, OthersWait
<1>4. Shows(mapping, key, acked[key])'
  BY <1>1, <1>2 DEF KeyOK, Shows
<1>5. ASSUME NEW s \in Threads, Saving(s)' PROVE Shows(snapshot[s], key, acked[key])'
  <2>1. Saving(s) /\ snapshot'[s] = snapshot[s]
    BY <1>5 DEF OthersWait, Saving
  <2> QED
    BY <1>1, <1>2, <2>1 DEF KeyOK, Shows
<1>6. ASSUME file' \in Mappings \cup {NoFile} PROVE Shows(Saved, key, acked[key])'
  <2>1. file' = file
    BY <1>6, MappingConstantsAssumption
  <2> QED
    BY <1>1, <1>2, <1>6, <2>1 DEF KeyOK, Shows, Saved
<1> QED
  BY <1>4, <1>5, <1>6 DEF KeyOK

(* The steps of a search, and those that fail or only touch the lock.      *)
LEMMA QuietStep ==
  ASSUME AckInv, NEW t \in Threads, OthersWait(t), Record,
         \/ LookUp(t) \/ FetchEntry(t) \/ Scan(t) \/ Visit(t) \/ EndScan(t)
         \/ OpenAndLock(t) \/ LockIsHeld(t) \/ StartWriting(t)
         \/ IOFailure(t) \/ LockingFails(t)
  PROVE  /\ \A s \in Threads : CallKnows(s)'
         /\ \A key \in MappingKeys : KeyOK(key)'
<1> USE DEF AckInv, TypeInv, MappingTypeOK
<1>1. /\ pc[t] \in {"lookup", "fetch", "scan", "visit", "write", "locked"} \/ Saving(t)
      /\ request' = request /\ mapping' = mapping /\ snapshot' = snapshot
      /\ file' = file \/ file' \in Threads \cup {Empty}
      /\ Saving(t)' => Saving(t)
      /\ pc'[t] \in {"fetch", "scan", "visit", "locked", "writing", "remove", "done"}
      /\ pc'[t] \in {"fetch", "scan", "visit", "remove"} =>
           pc[t] \in {"lookup", "fetch", "scan", "visit"}
      /\ pc'[t] = "remove" => request[t].op = "delete"
      /\ pc'[t] = "done" /\ request[t].op \in {"set", "delete"} => reply'[t] # "ok"
  <2>1. CASE LookUp(t) \/ Scan(t) \/ Visit(t)
    BY <2>1 DEF LookUp, Scan, Visit, PassBy, Goto, Saving
  <2>2. CASE FetchEntry(t) \/ EndScan(t)
    <3>1. PICK reference : AfterSearch(t, reference)
      BY <2>2 DEF FetchEntry, EndScan
    <3>2. /\ pc[t] \in {"fetch", "scan"} /\ request[t].op \in {"find", "delete"}
          /\ UNCHANGED <<mapping, file, snapshot>>
      BY <2>2 DEF FetchEntry, EndScan, CallKnows
    <3> QED
      BY <3>1, <3>2 DEF AfterSearch, Goto, Answer, Saving
  <2>3. CASE OpenAndLock(t) \/ LockIsHeld(t) \/ StartWriting(t) \/ IOFailure(t) \/ LockingFails(t)
    BY <2>3
    DEF OpenAndLock, LockIsHeld, StartWriting, IOFailure, LockingFails, Created, Goto, Answer,
        Saving
  <2> QED
    BY <2>1, <2>2, <2>3
<1>2. ~ Acknowledged(t)
  BY <1>1 DEF Acknowledged, Changing
<1>3. \A key \in MappingKeys : KeyOK(key)'
  BY <1>1, <1>2, QuietKeys
<1>4. CallKnows(t)'
  <2>1. CallKnows(t) /\ (Changing(t)' => Changing(t))
    BY <1>1 DEF Changing, Saving
  <2>2. alone'[t] => alone[t]
    BY <2>1, RecordAlone
  <2>3. HasChanged(t)' <=> HasChanged(t)
    BY <1>1 DEF HasChanged
  <2>4. alone'[t] => Changing(t)' /\ \A other \in Threads \ {t} : ~ Changing(other)'
    BY RecordAlone
  <2> QED
    BY <1>1, <2>1, <2>2, <2>3, <2>4 DEF CallKnows, Saving
<1> QED
  BY <1>1, <1>3, <1>4, OthersKnow

(* The mapping in memory is changed at a key that clients do not know.     *)
LEMMA ChangeStep ==
  ASSUME AckInv, NEW t \in Threads, OthersWait(t), Record, PutEntry(t) \/ RemoveEntry(t)
  PROVE  /\ \A s \in Threads : CallKnows(s)'
         /\ \A key \in MappingKeys : KeyOK(key)'
<1> USE DEF AckInv, TypeInv, MappingTypeOK
<1>1. /\ pc[t] \in {"put", "remove"} /\ pc'[t] = "save"
      /\ UNCHANGED <<storage, file, request, snapshot>>
  BY DEF PutEntry, RemoveEntry, Goto
<1>2. CallKnows(t) /\ Changing(t)
  BY <1>1 DEF CallKnows, Changing
<1>3. HasChanged(t)'
  BY <1>1, <1>2 DEF PutEntry, RemoveEntry, HasChanged, CallKnows
<1>4. CallKnows(t)'
  BY <1>1, <1>2, <1>3, RecordAlone DEF CallKnows, Saving
<1>5. ASSUME NEW key \in MappingKeys, acked'[key] # Unknown PROVE KeyOK(key)'
  <2>1. acked'[key] = acked[key]
    BY <1>1, <1>5, RecordStep DEF Acknowledged
  <2>2. request[t].key # key
    BY <1>2, <1>5, <2>1 DEF ChangedIsUnknown
  <2>3. /\ key \in DOMAIN mapping' <=> key \in DOMAIN mapping
        /\ key \in DOMAIN mapping => mapping'[key] = mapping[key]
    BY <2>2 DEF PutEntry, RemoveEntry
  <2>4. Shows(mapping, key, acked[key])'
    BY <1>1, <1>5, <2>1, <2>3 DEF KeyOK, Shows
  <2>5. ASSUME NEW s \in Threads, Saving(s)' PROVE Shows(snapshot[s], key, acked[key])'
    <3>1. Saving(s)
      BY <1>1, <2>5 DEF OthersWait, Saving
    <3> QED
      BY <1>1, <1>5, <2>1, <3>1 DEF KeyOK, Shows
  <2>6. file' \in Mappings \cup {NoFile} => Shows(Saved, key, acked[key])'
    BY <1>1, <1>5, <2>1 DEF KeyOK, Shows, Saved
  <2> QED
    BY <2>4, <2>5, <2>6 DEF KeyOK
<1> QED
  BY <1>2, <1>4, <1>5, OthersKnow DEF KeyOK

LEMMA SerializeStep ==
  ASSUME AckInv, NEW t \in Threads, OthersWait(t), Record, Serialize(t)
  PROVE  /\ \A s \in Threads : CallKnows(s)'
         /\ \A key \in MappingKeys : KeyOK(key)'
<1> USE DEF AckInv, TypeInv, MappingTypeOK
<1>1. /\ pc[t] = "save" /\ pc'[t] = "write" /\ snapshot'[t] = mapping
      /\ UNCHANGED <<storage, mapping, file, request>>
  BY DEF Serialize, Goto
<1>2. CallKnows(t) /\ Changing(t)
  BY <1>1 DEF CallKnows, Changing
<1>3. CallKnows(t)'
  <2>1. HasChanged(t)' <=> HasChanged(t)
    BY <1>1 DEF HasChanged
  <2> QED
    BY <1>1, <1>2, <2>1, RecordAlone DEF CallKnows, Saving
<1>4. ASSUME NEW key \in MappingKeys, acked'[key] # Unknown PROVE KeyOK(key)'
  <2>1. acked'[key] = acked[key]
    BY <1>1, <1>4, RecordStep DEF Acknowledged
  <2>2. Shows(mapping, key, acked[key])'
    BY <1>1, <1>4, <2>1 DEF KeyOK, Shows
  <2>3. ASSUME NEW s \in Threads, Saving(s)' PROVE Shows(snapshot[s], key, acked[key])'
    <3>1. CASE s = t
      BY <1>1, <2>2, <3>1 DEF Shows
    <3>2. CASE s # t
      <4>1. Saving(s) /\ snapshot'[s] = snapshot[s]
        BY <2>3, <3>2 DEF OthersWait, Saving
      <4> QED
        BY <1>1, <1>4, <2>1, <4>1 DEF KeyOK, Shows
    <3> QED
      BY <3>1, <3>2
  <2>4. file' \in Mappings \cup {NoFile} => Shows(Saved, key, acked[key])'
    BY <1>1, <1>4, <2>1 DEF KeyOK, Shows, Saved
  <2> QED
    BY <2>2, <2>3, <2>4 DEF KeyOK
<1> QED
  BY <1>1, <1>3, <1>4, OthersKnow DEF KeyOK

(* What is saved shows what the serialized mapping does.                   *)
LEMMA SavedShows ==
  ASSUME TypeInv, NEW t \in Threads, FinishWriting(t) \/ PutMapping(t) \/ InsertRows(t),
         NEW key \in MappingKeys, NEW reference, Shows(snapshot[t], key, reference)
  PROVE  file' \in Mappings /\ Shows(file', key, reference)
<1>1. CASE FinishWriting(t) \/ PutMapping(t)
  BY <1>1 DEF FinishWriting, PutMapping, TypeInv, CallOK, Saving
<1>2. CASE InsertRows(t)
  <2>1. /\ storage = "cassandra"
        /\ file' = [text \in DOMAIN snapshot[t] \cup DOMAIN Saved |->
                      IF text \in DOMAIN snapshot[t] THEN snapshot[t][text] ELSE Saved[text]]
    BY <1>2 DEF InsertRows
  <2>2. file' \in Mappings
    BY <1>2, InsertedIsMapping
  <2> QED
    BY <2>1, <2>2 DEF Shows
<1> QED
  BY <1>1, <1>2

LEMMA SaveStep ==
  ASSUME AckInv, NEW t \in Threads, OthersWait(t), Record,
         FinishWriting(t) \/ PutMapping(t) \/ InsertRows(t)
  PROVE  /\ \A s \in Threads : CallKnows(s)'
         /\ \A key \in MappingKeys : KeyOK(key)'
<1> USE DEF AckInv, TypeInv, MappingTypeOK
<1>1. /\ Saving(t) /\ pc'[t] = "done"
      /\ UNCHANGED <<storage, mapping, request, snapshot>>
  BY DEF FinishWriting, PutMapping, InsertRows, Answer, Saving
<1>2. CallKnows(t) /\ Changing(t) /\ request[t] \in Requests
  BY <1>1 DEF CallKnows, Changing, Saving
<1>3. CallKnows(t)'
  <2>1. ~ Changing(t)'
    BY <1>1 DEF Changing
  <2> QED
    BY <1>1, <1>2, <2>1, RecordAlone DEF CallKnows, Saving
<1>4. ASSUME NEW key \in MappingKeys, acked'[key] # Unknown PROVE KeyOK(key)'
  <2>1. /\ Shows(mapping, key, acked'[key])
        /\ Shows(snapshot[t], key, acked'[key])
        /\ \A s \in Threads \ {t} : Saving(s) => Shows(snapshot[s], key, acked'[key])
    <3>1. CASE acked'[key] = acked[key]
      BY <1>1, <1>4, <3>1 DEF KeyOK
    <3>2. CASE acked'[key] # acked[key]
      <4>1. alone[t] /\ request[t].key = key /\ acked'[key] = request[t].reference
        BY <1>4, <3>2, RecordStep
      <4>2. HasChanged(t) /\ snapshot[t] = mapping
        BY <1>1, <4>1 DEF CallKnows
      <4>3. \A s \in Threads \ {t} : ~ Saving(s)
        BY <1>2, <4>1 DEF CallKnows, Changing, Saving
      <4>4. /\ request[t].op = "set" => request[t].reference # NoReference
            /\ request[t].op = "delete" => request[t].reference = NoReference
        BY <1>2, MappingConstantsAssumption DEF Requests
      <4>5. Shows(mapping, key, acked'[key])
        BY <4>1, <4>2, <4>4 DEF HasChanged, Shows
      <4> QED
        BY <4>2, <4>3, <4>5
    <3> QED
      BY <3>1, <3>2
  <2>2. file' \in Mappings /\ Shows(file', key, acked'[key])
    BY <2>1, SavedShows
  <2>3. Saved' = file'
    BY <2>2, MappingConstantsAssumption DEF Saved
  <2>4. ASSUME NEW s \in Threads, Saving(s)' PROVE Shows(snapshot[s], key, acked[key])'
    <3>1. s # t /\ Saving(s)
      BY <1>1, <2>4 DEF OthersWait, Saving
    <3> QED
      BY <1>1, <2>1, <3>1 DEF Shows
  <2> QED
    BY <1>1, <2>1, <2>2, <2>3, <2>4 DEF KeyOK, Shows
<1> QED
  BY <1>1, <1>3, <1>4, OthersKnow DEF KeyOK

(* A call begins or ends.                                                  *)
LEMMA CallStep ==
  ASSUME AckInv, NEW t \in Threads, OthersWait(t), Record,
         Return(t) \/ \E r \in Requests : Invoke(t, r)
  PROVE  /\ \A s \in Threads : CallKnows(s)'
         /\ \A key \in MappingKeys : KeyOK(key)'
<1> USE DEF AckInv, TypeInv, MappingTypeOK
<1>1. /\ UNCHANGED <<mapping, file>> /\ ~ Changing(t)
      /\ pc'[t] \in {"idle", "put", "lookup"}
      /\ pc'[t] # "idle" => request'[t] \in Requests
      /\ pc'[t] = "put" => request'[t].op = "set"
      /\ pc'[t] = "lookup" => request'[t].op \in {"find", "delete"}
  <2>1. CASE Return(t)
    BY <2>1 DEF Return, Changing
  <2>2. CASE \E r \in Requests : Invoke(t, r)
    BY <2>2 DEF Invoke, Changing, Requests
  <2> QED
    BY <2>1, <2>2
<1>2. CallKnows(t)'
  BY <1>1, RecordAlone DEF CallKnows, Saving
<1>3. ~ Acknowledged(t) /\ ~ Saving(t)'
  BY <1>1 DEF Acknowledged, Saving
<1>4. \A key \in MappingKeys : KeyOK(key)'
  BY <1>1, <1>3, QuietKeys
<1> QED
  BY <1>1, <1>2, <1>4, OthersKnow

(* A restart loads what was saved, or clients know nothing any more.       *)
LEMMA RestartStep ==
  ASSUME AckInv, Record, Restart
  PROVE  /\ \A t \in Threads : CallKnows(t)'
         /\ \A key \in MappingKeys : KeyOK(key)'
<1> USE DEF AckInv, TypeInv, MappingTypeOK
<1>1. /\ \A t \in Threads : pc'[t] = "idle" /\ ~ Changing(t)' /\ ~ Saving(t)'
      /\ UNCHANGED <<storage, file>>
  BY DEF Restart, Changing, Saving
<1>2. \A t \in Threads : CallKnows(t)'
  BY <1>1, RecordAlone DEF CallKnows, Saving
<1>3. ASSUME NEW key \in MappingKeys, acked'[key] # Unknown PROVE KeyOK(key)'
  <2>1. acked'[key] = acked[key] /\ ~ FileIsLost
    BY <1>1, <1>3 DEF Record, Acknowledged
  <2>2. file \in Mappings \cup {NoFile} /\ mapping' \in Load(file)
    BY <2>1, MappingConstantsAssumption DEF FileIsLost, Restart
  <2>3. Shows(Saved, key, acked[key])
    BY <1>3, <2>1, <2>2 DEF KeyOK
  <2>4. Shows(mapping', key, acked[key])
    BY <2>2, <2>3, LoadedShows
  <2>5. Saved' = Saved
    BY <1>1 DEF Saved
  <2> QED
    BY <1>1, <2>1, <2>3, <2>4, <2>5 DEF KeyOK, Shows
<1> QED
  BY <1>2, <1>3 DEF KeyOK

LEMMA AckInvStep == AckInv /\ [HNext]_hvars => AckInv'
<1> SUFFICES ASSUME AckInv, [HNext]_hvars PROVE AckInv'
  OBVIOUS
<1>1. TypeInv'
  BY TypeInvStep DEF AckInv, HNext, hvars
<1>2. ASSUME NEW t \in Threads, Record, Step(t) \/ Return(t) \/ \E r \in Requests : Invoke(t, r)
      PROVE  AckInv'
  <2>1. OthersWait(t)
    BY <1>2, OneThreadSteps DEF AckInv
  <2>2. ChangedIsUnknown'
    BY <1>2, RecordUnknown
  <2> QED
    BY <1>1, <1>2, <2>1, <2>2, QuietStep, ChangeStep, SerializeStep, SaveStep, CallStep
    DEF AckInv, Step
<1>3. CASE Restart /\ Record
  BY <1>1, <1>3, RestartStep, RecordUnknown DEF AckInv
<1>4. CASE UNCHANGED hvars
  BY <1>1, <1>4
  DEF AckInv, hvars, vars, CallKnows, HasChanged, ChangedIsUnknown, Changing, Saving, KeyOK,
      Shows, Saved
<1> QED
  BY <1>2, <1>3, <1>4 DEF HNext, Next

(* Whatever changes overlap, fail or die, what a client has changed alone  *)
(* and was acknowledged is what a restart loads, until the key is changed  *)
(* again: on every storage, but for deletions and for the empty set of     *)
(* scopes in Cassandra, and for a local file that is half written          *)
(* (VersionSetMappingBDImpl.setMapping, deleteMapping).                    *)
THEOREM AckedIsAlwaysSaved == HSpec => []AckedIsSaved
<1>1. HInit => AckInv
  <2> SUFFICES ASSUME HInit PROVE AckInv
    OBVIOUS
  <2>1. TypeInv
    BY TypeInvInit DEF HInit
  <2>2. ChangedIsUnknown /\ \A t \in Threads : CallKnows(t)
    BY DEF HInit, Init, ChangedIsUnknown, Changing, CallKnows, Saving
  <2>3. ASSUME NEW key \in MappingKeys PROVE KeyOK(key)
    BY DEF HInit, Init, KeyOK, Shows, Saved, Saving, EmptyMapping
  <2> QED
    BY <2>1, <2>2, <2>3 DEF AckInv
<1>2. AckInv => AckedIsSaved
  <2> SUFFICES ASSUME AckInv, file \notin Threads \cup {Empty}, NEW key \in MappingKeys,
                      acked[key] # Unknown, NEW saved \in Load(file)
               PROVE  IF acked[key] = NoReference
                        THEN storage = "cassandra" \/ key \notin DOMAIN saved
                        ELSE \/ storage = "cassandra" /\ key = {}
                             \/ key \in DOMAIN saved /\ saved[key] = acked[key]
    BY DEF AckedIsSaved
  <2>1. file \in Mappings \cup {NoFile}
    BY DEF AckInv, TypeInv, MappingTypeOK
  <2>2. Shows(Saved, key, acked[key])
    BY <2>1 DEF AckInv, KeyOK
  <2> QED
    BY <2>1, <2>2, LoadedShows DEF Shows
<1> QED
  BY <1>1, <1>2, AckInvStep, PTL DEF HSpec
=============================================================================
