---------------------------- MODULE EntityService ---------------------------
(***************************************************************************)
(* The business delegate in front of a repository, with its cache:         *)
(* PropertyGroupBDImpl and VersionSetBDImpl.  Their methods are the same   *)
(* but for what a delete evicts from the cache (EvictAll).                 *)
(*                                                                         *)
(* The threads and the repository are those of FlatFileRepository.  A      *)
(* thread in a method of the delegate goes through stages; at some of them *)
(* it is inside a repository call, whose steps are the repository's own.   *)
(* Cache lookups, puts and evictions are separate steps: the annotations   *)
(* @Cacheable and @CacheEvict act before and after the method they wrap,   *)
(* and nothing makes the method and the cache access one atomic step.      *)
(***************************************************************************)
EXTENDS FlatFileRepository

CONSTANTS
  Ops,       \* the methods that clients call
  EvictAll,  \* TRUE: a delete evicts all entries; FALSE: only its own key
  CacheKey,  \* the key of a read: of (name, version), or of (name, 0), the latest
  Expiry,    \* TRUE if cache entries expire (cache.expiration.minutes > 0)
  NoEntry    \* nothing cached under a key

ASSUME ServiceConstantsAssumption ==
  /\ Ops \subseteq {"create", "update", "read", "readVersion", "versions",
                    "delete", "deleteVersion"}
  /\ EvictAll \in BOOLEAN
  /\ Expiry \in BOOLEAN
  /\ DOMAIN CacheKey = Names \X (0 .. MaxVersion)

Keys     == {CacheKey[a] : a \in Names \X (0 .. MaxVersion)}
Entities == [name : Names, version : Versions, content : Contents]
Optional == Entities \cup {Absent}     \* what a method returns or caches

ASSUME NotEntitiesAssumption == Absent \notin Entities /\ NoEntry \notin Optional

VARIABLES
  cache,    \* the cache of the delegate
  stage,    \* stage[t]: where thread t is in the delegate
  call,     \* call[t]: the method of the delegate t is in
  result,   \* result[t]: the Optional t is about to cache or to return
  outcome   \* outcome[t]: how the call to the delegate ended

serviceVars == <<cache, stage, call, result, outcome>>
allVars     == <<vars, serviceVars>>

KeyOf(r) == CacheKey[<<r.name, r.version>>]

LatestKey(r) == CacheKey[<<r.name, 0>>]

EntityOf(r) == [name |-> r.name, version |-> r.version, content |-> r.content]

GotoStage(t, label, value) ==
  /\ stage' = [stage EXCEPT ![t] = label]
  /\ result' = [result EXCEPT ![t] = value]
  /\ UNCHANGED <<call, outcome>>

Finish(t, how, value) ==
  /\ stage' = [stage EXCEPT ![t] = "done"]
  /\ result' = [result EXCEPT ![t] = value]
  /\ outcome' = [outcome EXCEPT ![t] = how]
  /\ UNCHANGED call

(***************************************************************************)
(* A call to the delegate begins                                           *)
(***************************************************************************)

Begin(t, r, label) ==
  /\ stage[t] = "idle"
  /\ r.op \in Ops
  /\ call' = [call EXCEPT ![t] = r]
  /\ stage' = [stage EXCEPT ![t] = label]

(* create, delete and versions go straight to the repository.              *)
CallRepository(t, r) ==
  /\ r.op \in {"create", "delete", "deleteVersion", "versions"}
  /\ Begin(t, r, "repository")
  /\ Invoke(t, r)
  /\ UNCHANGED <<cache, result, outcome>>

(* update first reads the latest version, past the cache.                  *)
ReadLast(t, r) ==
  /\ r.op = "update"
  /\ Begin(t, r, "last")
  /\ Invoke(t, [op |-> "read", name |-> r.name, version |-> 0, content |-> Absent])
  /\ UNCHANGED <<cache, result, outcome>>

(* A read whose key is cached is answered from the cache, an absent entity *)
(* too.                                                                    *)
ReadCached(t, r) ==
  /\ r.op \in {"read", "readVersion"}
  /\ cache[KeyOf(r)] # NoEntry
  /\ Begin(t, r, "done")
  /\ result' = [result EXCEPT ![t] = cache[KeyOf(r)]]
  /\ outcome' = [outcome EXCEPT ![t] =
                   IF cache[KeyOf(r)] = Absent THEN "absent" ELSE "ok"]
  /\ UNCHANGED <<vars, cache>>

ReadUncached(t, r) ==
  /\ r.op \in {"read", "readVersion"}
  /\ cache[KeyOf(r)] = NoEntry
  /\ Begin(t, r, "repository")
  /\ Invoke(t, r)
  /\ UNCHANGED <<cache, result, outcome>>

(***************************************************************************)
(* A repository call of the delegate ends                                  *)
(***************************************************************************)

(* update: the new version must be higher than the latest.                 *)
CompareVersions(t) ==
  /\ stage[t] = "last"
  /\ Return(t)
  /\ CASE reply[t] = "ok" /\ call[t].version > latest[t] ->
            GotoStage(t, "update", result[t])
       [] reply[t] = "ok" /\ call[t].version <= latest[t] ->
            Finish(t, "conflict", Absent)
       [] OTHER -> Finish(t, reply[t], Absent)
  /\ UNCHANGED cache

CallUpdate(t) ==
  /\ stage[t] = "update"
  /\ Invoke(t, call[t])
  /\ GotoStage(t, "repository", result[t])
  /\ UNCHANGED cache

(* What the repository returned: the entity written or read, or absent.    *)
Returned(t) ==
  IF reply[t] = "absent" THEN Absent
  ELSE IF call[t].op \in {"create", "update"} THEN EntityOf(call[t])
  ELSE [name |-> call[t].name, version |-> ReadTarget(t)[2], content |-> found[t]]

AfterCall(op) ==
  CASE op \in {"create", "update"}        -> "putLatest"
    [] op \in {"read", "readVersion"}     -> "putRead"
    [] op \in {"delete", "deleteVersion"} -> "evict"

(* Mutant: the cache is updated in a finally block.                        *)
EndCallInFinally(t) ==
  /\ stage[t] = "repository"
  /\ Return(t)
  /\ IF call[t].op # "versions"
       THEN GotoStage(t, AfterCall(call[t].op), Returned(t))
       ELSE Finish(t, reply[t], Absent)
  /\ UNCHANGED cache

(* An exception passes through: nothing is cached and nothing is evicted.  *)
EndRepositoryCall(t) ==
  /\ stage[t] = "repository"
  /\ Return(t)
  /\ IF reply[t] \in {"ok", "absent"} /\ call[t].op # "versions"
       THEN GotoStage(t, AfterCall(call[t].op), Returned(t))
       ELSE Finish(t, reply[t], Absent)
  /\ UNCHANGED cache

(***************************************************************************)
(* The cache                                                               *)
(***************************************************************************)

Answered(t) == IF result[t] = Absent THEN "absent" ELSE "ok"

(* Mutant: the content is cached instead of the entity.                    *)
PutLatestContent(t) ==
  /\ stage[t] = "putLatest"
  /\ cache' = [cache EXCEPT ![LatestKey(call[t])] = call[t].content]
  /\ GotoStage(t, "putVersion", result[t])
  /\ UNCHANGED vars

(* create and update cache what they wrote as the latest of the name and   *)
(* under its own version.                                                  *)
PutLatest(t) ==
  /\ stage[t] = "putLatest"
  /\ cache' = [cache EXCEPT ![LatestKey(call[t])] = result[t]]
  /\ GotoStage(t, "putVersion", result[t])
  /\ UNCHANGED vars

PutVersion(t) ==
  /\ stage[t] = "putVersion"
  /\ cache' = [cache EXCEPT ![KeyOf(call[t])] = result[t]]
  /\ Finish(t, Answered(t), result[t])
  /\ UNCHANGED vars

(* A read that missed the cache fills it.                                  *)
PutRead(t) ==
  /\ stage[t] = "putRead"
  /\ cache' = [cache EXCEPT ![KeyOf(call[t])] = result[t]]
  /\ Finish(t, Answered(t), result[t])
  /\ UNCHANGED vars

(* Mutant: VersionSetBDImpl without allEntries.                            *)
EvictOwnKey(t) ==
  /\ stage[t] = "evict"
  /\ cache' = [cache EXCEPT ![KeyOf(call[t])] = NoEntry]
  /\ Finish(t, Answered(t), result[t])
  /\ UNCHANGED vars

(* A delete that returned evicts: PropertyGroupBDImpl the key it was       *)
(* called with, VersionSetBDImpl every key.                                *)
Evict(t) ==
  /\ stage[t] = "evict"
  /\ cache' = [k \in Keys |->
       IF EvictAll \/ k = KeyOf(call[t]) THEN NoEntry ELSE cache[k]]
  /\ Finish(t, Answered(t), result[t])
  /\ UNCHANGED vars

(* Mutant: only absent entries expire.                                     *)
ExpireAbsent(k) ==
  /\ Expiry
  /\ cache[k] = Absent
  /\ cache' = [cache EXCEPT ![k] = NoEntry]
  /\ UNCHANGED <<vars, stage, call, result, outcome>>

(* An entry that was written long enough ago is gone.                      *)
Expire(k) ==
  /\ Expiry
  /\ cache[k] # NoEntry
  /\ cache' = [cache EXCEPT ![k] = NoEntry]
  /\ UNCHANGED <<vars, stage, call, result, outcome>>

(***************************************************************************)
(* The call is answered; the server restarts                               *)
(***************************************************************************)

Respond(t) ==
  /\ stage[t] = "done"
  /\ stage'   = [stage EXCEPT ![t] = "idle"]
  /\ call'    = [call EXCEPT ![t] = NoRequest]
  /\ result'  = [result EXCEPT ![t] = Absent]
  /\ outcome' = [outcome EXCEPT ![t] = "none"]
  /\ UNCHANGED <<vars, cache>>

(* The cache lives in the server process.                                  *)
ServiceRestart ==
  /\ Restart
  /\ cache'   = [k \in Keys |-> NoEntry]
  /\ stage'   = [t \in Threads |-> "idle"]
  /\ call'    = [t \in Threads |-> NoRequest]
  /\ result'  = [t \in Threads |-> Absent]
  /\ outcome' = [t \in Threads |-> "none"]

(***************************************************************************)
(* The specification                                                       *)
(***************************************************************************)

ServiceInit ==
  /\ Init
  /\ cache   = [k \in Keys |-> NoEntry]
  /\ stage   = [t \in Threads |-> "idle"]
  /\ call    = [t \in Threads |-> NoRequest]
  /\ result  = [t \in Threads |-> Absent]
  /\ outcome = [t \in Threads |-> "none"]

RepositoryStep(t) == Step(t) /\ UNCHANGED serviceVars

Progress(t) ==
  \/ RepositoryStep(t)
  \/ CompareVersions(t)
  \/ CallUpdate(t)
  \/ EndRepositoryCall(t)
  \/ PutLatest(t)
  \/ PutVersion(t)
  \/ PutRead(t)
  \/ Evict(t)
  \/ Respond(t)

Receive(t, r) ==
  \/ CallRepository(t, r)
  \/ ReadLast(t, r)
  \/ ReadCached(t, r)
  \/ ReadUncached(t, r)

ServiceNext ==
  \/ \E t \in Threads, r \in Requests : Receive(t, r)
  \/ \E t \in Threads : Progress(t)
  \/ \E k \in Keys : Expire(k)
  \/ ServiceRestart

ServiceSpec == ServiceInit /\ [][ServiceNext]_allVars

(* A thread that has received a request is scheduled until it has answered *)
(* it; an entry of a cache that expires does expire.                       *)
FairServiceSpec ==
  /\ ServiceSpec
  /\ \A t \in Threads : WF_allVars(Progress(t))
  /\ \A k \in Keys : WF_allVars(Expire(k))

(***************************************************************************)
(* Type correctness                                                        *)
(***************************************************************************)

Stages == {"idle", "last", "update", "repository", "putLatest", "putVersion",
           "putRead", "evict", "done"}

ServiceTypeOK ==
  /\ TypeOK
  /\ cache   \in [Keys -> Optional \cup {NoEntry}]
  /\ stage   \in [Threads -> Stages]
  /\ call    \in [Threads -> Requests \cup {NoRequest}]
  /\ result  \in [Threads -> Optional]
  /\ outcome \in [Threads -> Outcomes]

(***************************************************************************)
(* Safety                                                                  *)
(***************************************************************************)

(* What makes caching of versions sound although nothing invalidates it:   *)
(* while nothing is deleted, every entity the cache holds is stored, with  *)
(* that content, under that name and version (PropertyGroupBDImpl and      *)
(* VersionSetBDImpl, over a repository that never overwrites).             *)
CachedIsStored ==
  \A k \in Keys :
    cache[k] \in Entities =>
      files[<<cache[k].name, cache[k].version>>] = cache[k].content

(* With one request at a time the cache tells the truth between requests:  *)
(* a cached entity is stored, the cached latest is the highest complete    *)
(* version, and what is cached as absent is (VersionSetBDImpl, which       *)
(* evicts everything on a delete).                                         *)
Coherent(n, v) ==
  LET e == cache[CacheKey[<<n, v>>]]
      complete == {w \in Versions : files[<<n, w>>] \in Contents}
  IN  /\ e = Absent => (IF v = 0 THEN complete = {} ELSE v \notin complete)
      /\ e \in Entities =>
           /\ e.name = n
           /\ IF v = 0 THEN \A w \in complete : w <= e.version ELSE e.version = v
           /\ files[<<n, e.version>>] = e.content

CacheIsCoherent ==
  (\A t \in Threads : stage[t] = "idle") =>
    \A n \in Names, v \in 0 .. MaxVersion : Coherent(n, v)

(***************************************************************************)
(* Liveness                                                                *)
(***************************************************************************)

(* A version that has been deleted for good is served for a while at most: *)
(* from some time on the cache holds no entity of it.                      *)
DeletedFadesFromCache ==
  \A f \in Files :
    <>[](files[f] = Absent) =>
      <>[](\A k \in Keys : cache[k] \in Entities =>
             <<cache[k].name, cache[k].version>> # f)
=============================================================================
