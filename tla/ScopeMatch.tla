----------------------------- MODULE ScopeMatch -----------------------------
(***************************************************************************)
(* How a set of scopes finds the version set that is mapped to it, and the *)
(* value of a property: VersionSetMapping.get and ScopeUtils.getScopeValue,*)
(* with ScopePrecedenceConfiguration.                                      *)
(*                                                                         *)
(* A scope is a pair <<key, value>>, for instance <<"env", "dev">>.  Sets  *)
(* of scopes are mapped to version sets, and a query is a set of scopes    *)
(* too.  Precedence is the list of combinations of scope keys that mappings*)
(* are searched for, the most generic first.                               *)
(***************************************************************************)
EXTENDS Naturals, Sequences

CONSTANT Precedence   \* a sequence of sets of scope keys

ASSUME PrecedenceAssumption == Precedence \in Seq(SUBSET STRING)

ExtractScopeKeys(scopeSet) == {scope[1] : scope \in scopeSet}

SubScopeSet(scopeSet, keys) == {scope \in scopeSet : scope[1] \in keys}

(***************************************************************************)
(* The search                                                              *)
(***************************************************************************)

(* The entries of the configuration that the search does not skip.         *)
Reached(query) ==
  {i \in 1 .. Len(Precedence) :
     query # {} /\ Precedence[i] \subseteq ExtractScopeKeys(query)}

(* Mutant: a mapping matches if the query has its keys.                    *)
MatchesByKey(mapped, query, i) ==
  {scopeSet \in mapped : ExtractScopeKeys(scopeSet) \subseteq Precedence[i]}

(* The mapped sets of scopes that entry i of the configuration matches.    *)
MatchesAt(mapped, query, i) ==
  {scopeSet \in mapped : scopeSet \subseteq SubScopeSet(query, Precedence[i])}

(* Those of them that no earlier entry has matched.                        *)
NewMatchesAt(mapped, query, i) ==
  {scopeSet \in MatchesAt(mapped, query, i) :
     \A j \in Reached(query) :
       j < i => scopeSet \notin MatchesAt(mapped, query, j)}

(* A new match replaces the previous result, so the last entry with a new  *)
(* match decides; which of its new matches comes last is up to the order   *)
(* of the hash map.                                                        *)
Fallback(mapped, query) ==
  UNION {NewMatchesAt(mapped, query, i) :
           i \in {i \in Reached(query) :
                    \A j \in Reached(query) :
                      j > i => NewMatchesAt(mapped, query, j) = {}}}

(* The sets of scopes whose mapping a query can be answered with.          *)
Candidates(mapped, query) ==
  IF query \in mapped THEN {query} ELSE Fallback(mapped, query)

(***************************************************************************)
(* The value of a property (ScopeUtils.getScopeValue): a property gives    *)
(* values for sets of scopes, and a default.                               *)
(***************************************************************************)

(* The entries at which one is given for exactly the scopes of the query.  *)
ValuedAt(scoped, query) ==
  {i \in 1 .. Len(Precedence) :
     /\ Precedence[i] \subseteq ExtractScopeKeys(query)
     /\ SubScopeSet(query, Precedence[i]) \in scoped}

(* Those of them whose set of scopes no earlier entry had.                 *)
NewlyValuedAt(scoped, query) ==
  {i \in ValuedAt(scoped, query) :
     \A j \in ValuedAt(scoped, query) :
       j < i => SubScopeSet(query, Precedence[j]) # SubScopeSet(query, Precedence[i])}

(* The set of scopes whose value is taken, that of the last one; where     *)
(* there is none, the default is.                                          *)
ValueScopes(scoped, query) ==
  {SubScopeSet(query, Precedence[i]) :
     i \in {i \in NewlyValuedAt(scoped, query) :
              \A j \in NewlyValuedAt(scoped, query) : j <= i}}

(***************************************************************************)
(* What the search is for                                                  *)
(***************************************************************************)

(* The mappings that apply to a query: all their scopes are the query's.   *)
(* The one whose keys come last in the configuration is the most specific. *)
Applicable(mapped, query) == {scopeSet \in mapped : scopeSet \subseteq query}

KeysAreAt(scopeSet, i) ==
  i \in 1 .. Len(Precedence) /\ ExtractScopeKeys(scopeSet) = Precedence[i]

MostSpecific(mapped, query) ==
  {best \in Applicable(mapped, query) :
     \E i \in 1 .. Len(Precedence) :
       /\ KeysAreAt(best, i)
       /\ \A scopeSet \in Applicable(mapped, query), j \in 1 .. Len(Precedence) :
            KeysAreAt(scopeSet, j) => j <= i}

(* What a configuration must be like for the search to find it: no entry   *)
(* is contained in an earlier one, as from generic to specific.            *)
GenericFirst ==
  \A i, j \in 1 .. Len(Precedence) :
    i < j => ~ (Precedence[j] \subseteq Precedence[i])

(* Every mapped set of scopes has one of the configured combinations of    *)
(* keys.                                                                   *)
KeysConfigured(mapped) ==
  \A scopeSet \in mapped : \E i \in 1 .. Len(Precedence) : KeysAreAt(scopeSet, i)

(* A set of scopes gives a key one value.                                  *)
OneValuePerKey(scopeSet) ==
  \A a, b \in scopeSet : a[1] = b[1] => a = b
=============================================================================
