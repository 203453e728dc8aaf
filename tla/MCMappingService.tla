-------------------------- MODULE MCMappingService --------------------------
(* Small instances of the mapping service for TLC.                         *)
EXTENDS MappingService, FiniteSets, TLC

CONSTANTS t1, t2, r1, r2

Dev    == <<"env", "dev">>
Prod   == <<"env", "prod">>
East   == <<"region", "east">>
Blue   == <<"stack", "blue">>
Shop   == <<"application", "shop">>

(* The configuration in application.yml, without hostname.                 *)
DefaultPrecedence ==
  <<{"env"}, {"env", "region"}, {"env", "region", "stack"}, {"application"}>>

(* A shorter one, for concurrent calls.                                    *)
ShopPrecedence == <<{"application"}, {"application", "env"}>>

(* Keys of configured combinations, and keys of none: of a region without  *)
(* an env, and of a request that gives no scope at all.                    *)
SomeKeys == {{}, {Dev}, {East}, {Dev, East}, {Shop}}

(* A generic mapping and a more specific one.                              *)
NestedKeys == {{Shop}, {Shop, Dev}}

(* findMatch always adds the application to the query.                     *)
ShopQueries ==
  {{Shop}, {Shop, Dev}, {Shop, Dev, East}, {Shop, Prod, East},
   {Shop, Dev, East, Blue}, {Shop, East}}

Symmetry == Permutations(References) \cup Permutations(Threads)

(* Bound: at most two rows in the table.                                   *)
TwoRows == storage = "cassandra" => Cardinality(DOMAIN Saved) <= 2

(* One that finds a mapping of its very key, and one that finds others.    *)
NestedQueries == {{Shop}, {Shop, Dev, East}}

(* getScopeValue finds what the javadoc of the search means, whichever     *)
(* values a property has, also for combinations that are not configured.   *)
ASSUME ValuesAreMostSpecific ==
  \A scoped \in SUBSET (SomeKeys \cup {{Prod}}), query \in ShopQueries \cup {{}, {Dev, East}} :
    ValueScopes(scoped, query) = MostSpecific(scoped, query)
=============================================================================
