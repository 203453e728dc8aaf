------------------------ MODULE EntityServiceProofs ------------------------
(***************************************************************************)
(* Proofs about EntityService, for any number of threads, names, versions  *)
(* and contents, and for any cache keys, colliding ones included.          *)
(***************************************************************************)
EXTENDS EntityService, FlatFileRepositoryProofs

(***************************************************************************)
(* The delegates use the repository as its specification allows            *)
(***************************************************************************)

LEMMA ReadLastRequest ==
  ASSUME NEW r \in Requests
  PROVE  [op |-> "read", name |-> r.name, version |-> 0, content |-> Absent] \in Requests
  BY RequestFields DEF Requests, NameRequests

LEMMA ReceiveUsesRepository ==
  ASSUME NEW t \in Threads, NEW r \in Requests, Receive(t, r)
  PROVE  [Next]_vars
<1>1. CASE CallRepository(t, r) \/ ReadUncached(t, r)
  BY <1>1 DEF CallRepository, ReadUncached, Next
<1>2. CASE ReadLast(t, r)
  BY <1>2, ReadLastRequest DEF ReadLast, Next
<1>3. CASE ReadCached(t, r)
  BY <1>3 DEF ReadCached
<1> QED
  BY <1>1, <1>2, <1>3 DEF Receive

LEMMA ProgressUsesRepository ==
  ASSUME NEW t \in Threads, Progress(t),
         stage[t] = "update" => call[t] \in Requests
  PROVE  [Next]_vars
<1>1. CASE RepositoryStep(t)
  BY <1>1 DEF RepositoryStep, Next
<1>2. CASE CompareVersions(t) \/ EndRepositoryCall(t)
  BY <1>2 DEF CompareVersions, EndRepositoryCall, Next
<1>3. CASE CallUpdate(t)
  BY <1>3 DEF CallUpdate, Next
<1>4. CASE PutLatest(t) \/ PutVersion(t) \/ PutRead(t) \/ Evict(t) \/ Respond(t)
  BY <1>4 DEF PutLatest, PutVersion, PutRead, Evict, Respond
<1> QED
  BY <1>1, <1>2, <1>3, <1>4 DEF Progress

(***************************************************************************)
(* What a repository call knows: the version it reads, and, once it has    *)
(* read it, its content.                                                   *)
(***************************************************************************)

ReadingOps == {"read", "readVersion", "delete", "deleteVersion"}

KnowledgeOK ==
  \A t \in Threads :
    /\ pc[t] \in {"read", "open", "remove", "unlink", "unlinkGone"} =>
         ReadTarget(t)[2] \in Versions
    /\ pc[t] \in {"remove", "unlink", "unlinkGone"} => found[t] \in Contents
    /\ pc[t] = "done" /\ reply[t] = "ok" /\ request[t].op \in ReadingOps =>
         ReadTarget(t)[2] \in Versions /\ found[t] \in Contents

(* A storage call changes the local variables of its own thread only.      *)
LEMMA StepLocal ==
  ASSUME IInv, NEW t \in Threads, Step(t), NEW u \in Threads \ {t}
  PROVE  /\ pc'[u] = pc[u] /\ request'[u] = request[u]
         /\ latest'[u] = latest[u] /\ found'[u] = found[u] /\ reply'[u] = reply[u]
<1>1. request' = request /\ pc'[u] = pc[u]
  BY StepMoves
<1>2. latest'[u] = latest[u] /\ found'[u] = found[u]
  BY DEF IInv, TypeOK, Step, CheckName, NothingListed, ListVersions, PickLatest,
         ReadMissing, SeeFile, ReadUnreadable, ReadComplete, WriteConflict,
         CreateNewFile, FillFile, SeeNoObject, PutObject, ListForDelete, DeleteListed,
         DeleteVersion, LookForObject, DeleteObject, IOFailure
<1>3. (\E label : Goto(t, label)) \/ (\E out : Answer(t, out))
  BY DEF Step, CheckName, NothingListed, ListVersions, PickLatest, ReadMissing,
         SeeFile, ReadUnreadable, ReadComplete, WriteConflict, CreateNewFile,
         FillFile, SeeNoObject, PutObject, ListForDelete, DeleteListed, DeleteVersion,
         LookForObject, DeleteObject, IOFailure
<1>4. reply'[u] = reply[u]
  BY <1>3 DEF Goto, Answer, IInv, TypeOK
<1> QED
  BY <1>1, <1>2, <1>4

(* What a step of thread t must leave true of t.                           *)
Knows(t) ==
  /\ pc[t] \in {"read", "open", "remove", "unlink", "unlinkGone"} =>
       ReadTarget(t)[2] \in Versions
  /\ pc[t] \in {"remove", "unlink", "unlinkGone"} => found[t] \in Contents
  /\ pc[t] = "done" /\ reply[t] = "ok" /\ request[t].op \in ReadingOps =>
       ReadTarget(t)[2] \in Versions /\ found[t] \in Contents

LEMMA StepKnows ==
  ASSUME IInv, KnowledgeOK, NEW t \in Threads, Step(t)
  PROVE  Knows(t)'
<1> USE DEF IInv, TypeOK
<1>1. /\ request' = request /\ Knows(t)
      /\ request[t].version \in 0 .. MaxVersion
  BY StepMoves, RequestFields DEF KnowledgeOK, Knows, RequestOK
<1>2. CASE \E out \in {"absent", "conflict", "error"} : Answer(t, out)
  BY <1>2 DEF Answer, Knows
<1>3. CASE \E label \in {"write", "fill", "put", "list"} : Goto(t, label)
  BY <1>3 DEF Goto, Knows
<1>4. CASE ListVersions(t)
  BY <1>4 DEF ListVersions, Answer, Knows, ReadingOps
<1>5. CASE PickLatest(t)
  <2>1. latest'[t] \in Versions /\ pc'[t] = "read"
    BY <1>5, ListedAreFiles DEF PickLatest, Goto, Files
  <2> QED
    BY <1>1, <2>1 DEF Knows, ReadTarget, Versions
<1>6. CASE SeeFile(t)
  BY <1>1, <1>6 DEF SeeFile, Goto, Knows, ReadTarget
<1>7. CASE ReadComplete(t)
  <2>1. pc'[t] \in {"write", "remove", "done"} /\ found'[t] \in Contents
    BY <1>7 DEF ReadComplete, Answer, Goto, AfterRead
  <2>2. ReadTarget(t)' = ReadTarget(t) /\ ReadTarget(t)[2] \in Versions
    BY <1>1, <1>7 DEF ReadComplete, ReadTarget, Knows
  <2> QED
    BY <2>1, <2>2 DEF Knows
<1>8. CASE FillFile(t) \/ PutObject(t)
  <2>1. pc'[t] = "done" /\ request[t].op \in {"create", "update"}
    BY <1>8 DEF FillFile, PutObject, Answer, RequestOK, Writing
  <2> QED
    BY <1>1, <2>1 DEF Knows, ReadingOps
<1>9. CASE DeleteListed(t) \/ DeleteVersion(t) \/ LookForObject(t) \/ DeleteObject(t)
  <2>1. /\ pc[t] \in {"remove", "unlink", "unlinkGone"}
        /\ UNCHANGED <<latest, found>>
    BY <1>9 DEF DeleteListed, DeleteVersion, LookForObject, DeleteObject
  <2>2. ReadTarget(t)' = ReadTarget(t)
    BY <1>1, <2>1 DEF ReadTarget
  <2> QED
    BY <1>1, <2>1, <2>2 DEF Knows
<1> QED
  BY <1>2, <1>3, <1>4, <1>5, <1>6, <1>7, <1>8, <1>9
  DEF Step, CheckName, NothingListed, ReadMissing, ReadUnreadable, WriteConflict,
      CreateNewFile, SeeNoObject, ListForDelete, IOFailure

LEMMA StepKnowledge ==
  ASSUME IInv, KnowledgeOK, NEW t \in Threads, Step(t)
  PROVE  KnowledgeOK'
<1> SUFFICES ASSUME NEW u \in Threads PROVE Knows(u)'
  BY DEF KnowledgeOK, Knows
<1>1. CASE u = t
  BY <1>1, StepKnows
<1>2. CASE u # t
  <2>1. Knows(u)
    BY DEF KnowledgeOK, Knows
  <2> QED
    BY <1>2, <2>1, StepLocal DEF Knows, ReadTarget
<1> QED
  BY <1>1, <1>2

LEMMA InvokeKnowledge ==
  ASSUME IInv, KnowledgeOK, NEW t \in Threads, NEW r \in Requests, Invoke(t, r)
  PROVE  KnowledgeOK'
<1>1. r.op \in {"create", "update", "readVersion", "deleteVersion", "read",
               "versions", "delete"}
  BY RequestFields
<1>2. FirstCall(r.op) = "read" => r.version \in Versions /\ r.op # "update"
  BY <1>1 DEF FirstCall, Requests, WriteRequests, PointRequests, NameRequests
<1>3. FirstCall(r.op) \in {"exists", "list", "listAll", "read"}
  BY <1>1 DEF FirstCall
<1> QED
  BY <1>2, <1>3 DEF Invoke, KnowledgeOK, ReadTarget, IInv, TypeOK, Versions

LEMMA ReturnKnowledge ==
  ASSUME IInv, KnowledgeOK, NEW t \in Threads, Return(t)
  PROVE  KnowledgeOK'
  BY DEF Return, KnowledgeOK, ReadTarget, IInv, TypeOK

(***************************************************************************)
(* The delegate and its repository call                                    *)
(***************************************************************************)

InRepository == {"last", "repository"}

CallOK ==
  \A t \in Threads :
    /\ stage[t] \in InRepository <=> pc[t] # "idle"
    /\ stage[t] # "idle" => call[t] \in Requests /\ call[t].op \in Ops
    /\ stage[t] = "repository" => request[t] = call[t]
    /\ stage[t] \in {"last", "update"} => call[t].op = "update"
    /\ stage[t] = "last" => request[t].op = "read"
    /\ stage[t] \in {"putLatest", "putVersion"} => call[t].op \in {"create", "update"}
    /\ stage[t] = "putRead" => call[t].op \in {"read", "readVersion"}
    /\ stage[t] = "evict" => call[t].op \in {"delete", "deleteVersion"}

SInv == ServiceTypeOK /\ RequestOK /\ KnowledgeOK /\ CallOK

LEMMA SInvIInv ==
  ASSUME SInv
  PROVE  IInv /\ KnowledgeOK
  BY DEF SInv, IInv, ServiceTypeOK

LEMMA KeysOfRequests ==
  ASSUME NEW r \in Requests
  PROVE  KeyOf(r) \in Keys /\ LatestKey(r) \in Keys
<1>1. r.name \in Names /\ r.version \in 0 .. MaxVersion /\ 0 \in 0 .. MaxVersion
  BY RequestFields, ConstantsAssumption
<1> QED
  BY <1>1 DEF KeyOf, LatestKey, Keys

(* What a repository call that ends leaves to be cached or returned.       *)
LEMMA ReturnedOptional ==
  ASSUME SInv, NEW t \in Threads, stage[t] = "repository", pc[t] = "done",
         reply[t] \in {"ok", "absent"}, call[t].op # "versions"
  PROVE  Returned(t) \in Optional
<1>1. call[t] \in Requests /\ request[t] = call[t]
  BY DEF SInv, CallOK
<1>2. CASE reply[t] = "absent"
  <2>1. Returned(t) = Absent
    BY <1>2 DEF Returned
  <2> QED
    BY <2>1 DEF Optional
<1>3. CASE reply[t] = "ok" /\ call[t].op \in {"create", "update"}
  <2>1. Returned(t) = EntityOf(call[t])
    BY <1>3 DEF Returned
  <2>2. EntityOf(call[t]) \in Entities
    BY <1>1, <1>3, RequestFields DEF EntityOf, Entities
  <2> QED
    BY <2>1, <2>2 DEF Optional
<1>4. CASE reply[t] = "ok" /\ call[t].op \notin {"create", "update"}
  <2>1. Returned(t) = [name |-> call[t].name, version |-> ReadTarget(t)[2],
                       content |-> found[t]]
    BY <1>4 DEF Returned
  <2>2. call[t].op \in ReadingOps
    BY <1>1, <1>4, RequestFields DEF ReadingOps
  <2>3. ReadTarget(t)[2] \in Versions /\ found[t] \in Contents
    BY <1>1, <1>4, <2>2 DEF SInv, KnowledgeOK
  <2>4. call[t].name \in Names
    BY <1>1, RequestFields
  <2> QED
    BY <2>1, <2>3, <2>4 DEF Optional, Entities
<1> QED
  BY <1>2, <1>3, <1>4

LEMMA AfterCallStage ==
  ASSUME NEW r \in Requests, r.op # "versions"
  PROVE  /\ AfterCall(r.op) \in {"putLatest", "putRead", "evict"}
         /\ AfterCall(r.op) = "putLatest" => r.op \in {"create", "update"}
         /\ AfterCall(r.op) = "putRead" => r.op \in {"read", "readVersion"}
         /\ AfterCall(r.op) = "evict" => r.op \in {"delete", "deleteVersion"}
  BY RequestFields DEF AfterCall

LEMMA InitSInv == ServiceInit => SInv
<1> SUFFICES ASSUME ServiceInit PROVE SInv
  OBVIOUS
<1>1. IInv
  BY InitIInv DEF ServiceInit
<1>2. ServiceTypeOK
  BY <1>1 DEF IInv, ServiceInit, ServiceTypeOK, Stages, Optional, Outcomes
<1>3. KnowledgeOK /\ CallOK
  BY DEF ServiceInit, Init, KnowledgeOK, CallOK, InRepository
<1> QED
  BY <1>1, <1>2, <1>3 DEF SInv, IInv

LEMMA ReceiveSInv ==
  ASSUME SInv, NEW t \in Threads, NEW r \in Requests, Receive(t, r)
  PROVE  SInv'
<1> USE DEF SInv, ServiceTypeOK
<1>1. IInv /\ KnowledgeOK
  BY SInvIInv
<1>2. CASE CallRepository(t, r) \/ ReadUncached(t, r)
  <2>1. Invoke(t, r) /\ UNCHANGED <<cache, result, outcome>>
    BY <1>2 DEF CallRepository, ReadUncached
  <2>2. IInv' /\ KnowledgeOK'
    BY <1>1, <2>1, InvokeIInv, InvokeKnowledge
  <2>3. Begin(t, r, "repository")
    BY <1>2 DEF CallRepository, ReadUncached
  <2>4. stage' \in [Threads -> Stages] /\ call' \in [Threads -> Requests \cup {NoRequest}]
    BY <2>3 DEF Begin, Stages
  <2>5. pc'[t] # "idle" /\ request'[t] = r /\ \A u \in Threads \ {t} :
          pc'[u] = pc[u] /\ request'[u] = request[u]
    <3>1. r.op \in {"create", "update", "readVersion", "deleteVersion", "read",
                    "versions", "delete"}
      BY RequestFields
    <3>2. FirstCall(r.op) # "idle"
      BY <3>1 DEF FirstCall
    <3> QED
      BY <1>1, <2>1, <3>2 DEF Invoke, TypeOK
  <2>6. CallOK'
    BY <2>3, <2>5 DEF Begin, CallOK, InRepository
  <2> QED
    BY <2>1, <2>2, <2>4, <2>6 DEF IInv
<1>3. CASE ReadLast(t, r)
  <2> DEFINE q == [op |-> "read", name |-> r.name, version |-> 0, content |-> Absent]
  <2>1. Invoke(t, q) /\ UNCHANGED <<cache, result, outcome>> /\ q \in Requests
    BY <1>3, ReadLastRequest DEF ReadLast
  <2>2. IInv' /\ KnowledgeOK'
    BY <1>1, <2>1, InvokeIInv, InvokeKnowledge
  <2>3. Begin(t, r, "last") /\ r.op = "update"
    BY <1>3 DEF ReadLast
  <2>4. stage' \in [Threads -> Stages] /\ call' \in [Threads -> Requests \cup {NoRequest}]
    BY <2>3 DEF Begin, Stages
  <2>5. pc'[t] = "list" /\ request'[t] = q /\ \A u \in Threads \ {t} :
          pc'[u] = pc[u] /\ request'[u] = request[u]
    <3>1. FirstCall(q.op) = "list"
      BY DEF FirstCall
    <3> QED
      BY <1>1, <2>1, <3>1 DEF Invoke, TypeOK
  <2>6. CallOK'
    BY <2>3, <2>5 DEF Begin, CallOK, InRepository
  <2> QED
    BY <2>1, <2>2, <2>4, <2>6 DEF IInv
<1>4. CASE ReadCached(t, r)
  <2>1. UNCHANGED vars /\ Begin(t, r, "done")
    BY <1>4 DEF ReadCached
  <2>2. cache[KeyOf(r)] \in Optional
    BY <1>4, KeysOfRequests DEF ReadCached
  <2>3. /\ TypeOK' /\ RequestOK' /\ KnowledgeOK'
        /\ stage' \in [Threads -> Stages]
        /\ call' \in [Threads -> Requests \cup {NoRequest}]
    BY <1>1, <2>1 DEF vars, TypeOK, RequestOK, KnowledgeOK, ReadTarget, Begin, Stages
  <2>4. result' \in [Threads -> Optional] /\ outcome' \in [Threads -> Outcomes]
    BY <1>4, <2>2 DEF ReadCached, Outcomes
  <2>5. CallOK'
    BY <2>1 DEF vars, Begin, CallOK, InRepository
  <2> QED
    BY <1>4, <2>3, <2>4, <2>5 DEF ReadCached
<1> QED
  BY <1>2, <1>3, <1>4 DEF Receive

(* A step of the delegate alone, from one of its stages to another.        *)
LEMMA DelegateStep ==
  ASSUME SInv, NEW t \in Threads, pc[t] = "idle" \/ Return(t),
         UNCHANGED vars \/ Return(t), UNCHANGED call,
         NEW label \in Stages \ (InRepository \cup {"idle"}),
         stage' = [stage EXCEPT ![t] = label], stage[t] # "idle",
         label = "update" => call[t].op = "update",
         label \in {"putLatest", "putVersion"} => call[t].op \in {"create", "update"},
         label = "putRead" => call[t].op \in {"read", "readVersion"},
         label = "evict" => call[t].op \in {"delete", "deleteVersion"}
  PROVE  /\ IInv' /\ KnowledgeOK' /\ CallOK'
         /\ stage' \in [Threads -> Stages] /\ call' = call
<1> USE DEF SInv, ServiceTypeOK
<1>1. IInv' /\ KnowledgeOK'
  <2>1. CASE Return(t)
    BY <2>1, SInvIInv, ReturnIInv, ReturnKnowledge
  <2>2. CASE UNCHANGED vars
    BY <2>2 DEF vars, IInv, TypeOK, RequestOK, KnowledgeOK, ReadTarget
  <2> QED
    BY <2>1, <2>2
<1>2. /\ pc'[t] = "idle"
      /\ \A u \in Threads \ {t} : pc'[u] = pc[u] /\ request'[u] = request[u]
  BY DEF Return, vars, TypeOK
<1>3. CallOK'
  BY <1>2 DEF CallOK, InRepository
<1> QED
  BY <1>1, <1>3

LEMMA CompareVersionsSInv ==
  ASSUME SInv, NEW t \in Threads, CompareVersions(t)
  PROVE  SInv'
<1> USE DEF SInv, ServiceTypeOK
<1>1. stage[t] = "last" /\ Return(t) /\ UNCHANGED cache /\ call[t].op = "update"
  BY DEF CompareVersions, CallOK
<1>2. \/ GotoStage(t, "update", result[t])
      \/ \E how \in Outcomes : Finish(t, how, Absent)
  <2>0. call[t].version \in Nat /\ latest[t] \in Nat
    BY <1>1, RequestFields, ConstantsAssumption DEF CallOK, TypeOK
  <2>1. CASE reply[t] = "ok" /\ call[t].version > latest[t]
    <3>1. ~ (call[t].version <= latest[t])
      BY <2>0, <2>1
    <3> QED
      BY <2>1, <3>1 DEF CompareVersions
  <2>2. CASE reply[t] = "ok" /\ ~ (call[t].version > latest[t])
    <3>2. call[t].version <= latest[t]
      BY <2>0, <2>2
    <3>3. Finish(t, "conflict", Absent)
      BY <2>2, <3>2 DEF CompareVersions
    <3> QED
      BY <3>3 DEF Outcomes
  <2>3. CASE reply[t] # "ok"
    <3>1. Finish(t, reply[t], Absent)
      BY <2>3 DEF CompareVersions
    <3> QED
      BY <3>1 DEF TypeOK
  <2> QED
    BY <2>1, <2>2, <2>3
<1>3. \E label \in {"update", "done"} : stage' = [stage EXCEPT ![t] = label]
  BY <1>2 DEF GotoStage, Finish
<1>4. UNCHANGED call
  BY <1>2 DEF GotoStage, Finish
<1>5. /\ IInv' /\ KnowledgeOK' /\ CallOK'
      /\ stage' \in [Threads -> Stages] /\ call' = call
  BY <1>1, <1>3, <1>4, DelegateStep DEF Stages, InRepository
<1>6. result' \in [Threads -> Optional] /\ outcome' \in [Threads -> Outcomes]
  BY <1>2 DEF GotoStage, Finish, Optional
<1> QED
  BY <1>1, <1>5, <1>6 DEF IInv

LEMMA EndRepositoryCallSInv ==
  ASSUME SInv, NEW t \in Threads, EndRepositoryCall(t)
  PROVE  SInv'
<1> USE DEF SInv, ServiceTypeOK
<1>1. /\ stage[t] = "repository" /\ Return(t) /\ UNCHANGED cache /\ pc[t] = "done"
      /\ call[t] \in Requests
  BY DEF EndRepositoryCall, CallOK, Return
<1>2. CASE reply[t] \in {"ok", "absent"} /\ call[t].op # "versions"
  <2>1. GotoStage(t, AfterCall(call[t].op), Returned(t))
    BY <1>2 DEF EndRepositoryCall
  <2>2. Returned(t) \in Optional
    BY <1>1, <1>2, ReturnedOptional
  <2>3. /\ IInv' /\ KnowledgeOK' /\ CallOK'
        /\ stage' \in [Threads -> Stages] /\ call' = call
    BY <1>1, <1>2, <2>1, AfterCallStage, DelegateStep DEF GotoStage, Stages, InRepository
  <2> QED
    BY <1>1, <2>1, <2>2, <2>3 DEF GotoStage, IInv
<1>3. CASE ~ (reply[t] \in {"ok", "absent"} /\ call[t].op # "versions")
  <2>1. Finish(t, reply[t], Absent)
    BY <1>3 DEF EndRepositoryCall
  <2>2. /\ IInv' /\ KnowledgeOK' /\ CallOK'
        /\ stage' \in [Threads -> Stages] /\ call' = call
    BY <1>1, <2>1, DelegateStep DEF Finish, Stages, InRepository
  <2> QED
    BY <1>1, <2>1, <2>2 DEF Finish, IInv, TypeOK, Optional
<1> QED
  BY <1>2, <1>3

LEMMA CacheStepSInv ==
  ASSUME SInv, NEW t \in Threads,
         PutLatest(t) \/ PutVersion(t) \/ PutRead(t) \/ Evict(t)
  PROVE  SInv'
<1> USE DEF SInv, ServiceTypeOK
<1>1. /\ stage[t] \in {"putLatest", "putVersion", "putRead", "evict"}
      /\ UNCHANGED vars /\ call[t] \in Requests /\ pc[t] = "idle"
  BY DEF PutLatest, PutVersion, PutRead, Evict, CallOK, InRepository
<1>2. KeyOf(call[t]) \in Keys /\ LatestKey(call[t]) \in Keys
  BY <1>1, KeysOfRequests
<1>3. cache' \in [Keys -> Optional \cup {NoEntry}]
  BY <1>2 DEF PutLatest, PutVersion, PutRead, Evict
<1>4. \/ GotoStage(t, "putVersion", result[t]) /\ stage[t] = "putLatest"
      \/ Finish(t, Answered(t), result[t])
  BY DEF PutLatest, PutVersion, PutRead, Evict
<1>5. /\ UNCHANGED call
      /\ result' \in [Threads -> Optional] /\ outcome' \in [Threads -> Outcomes]
  BY <1>4 DEF GotoStage, Finish, Answered, Outcomes
<1>6. /\ IInv' /\ KnowledgeOK' /\ CallOK'
      /\ stage' \in [Threads -> Stages] /\ call' = call
  <2>1. CASE GotoStage(t, "putVersion", result[t]) /\ stage[t] = "putLatest"
    <3>1. call[t].op \in {"create", "update"}
      BY <2>1 DEF CallOK
    <3> QED
      BY <1>1, <2>1, <3>1, DelegateStep DEF GotoStage, Stages, InRepository
  <2>2. CASE Finish(t, Answered(t), result[t])
    BY <1>1, <2>2, DelegateStep DEF Finish, Stages, InRepository
  <2> QED
    BY <1>4, <2>1, <2>2
<1> QED
  BY <1>3, <1>5, <1>6 DEF IInv

LEMMA ProgressSInv ==
  ASSUME SInv, NEW t \in Threads, Progress(t)
  PROVE  SInv'
<1> USE DEF SInv, ServiceTypeOK
<1>1. CASE RepositoryStep(t)
  <2>1. Step(t) /\ UNCHANGED serviceVars
    BY <1>1 DEF RepositoryStep
  <2>2. IInv' /\ KnowledgeOK'
    BY <2>1, SInvIInv, StepIInv, StepKnowledge
  <2>3. /\ request' = request /\ pc[t] # "idle" /\ pc'[t] # "idle"
        /\ \A u \in Threads \ {t} : pc'[u] = pc[u]
    BY <2>1, SInvIInv, StepMoves
  <2>4. CallOK'
    BY <2>1, <2>3 DEF serviceVars, CallOK
  <2> QED
    BY <2>1, <2>2, <2>4 DEF serviceVars, IInv
<1>2. CASE CompareVersions(t)
  BY <1>2, CompareVersionsSInv
<1>3. CASE CallUpdate(t)
  <2>1. /\ stage[t] = "update" /\ Invoke(t, call[t]) /\ UNCHANGED cache
        /\ GotoStage(t, "repository", result[t]) /\ call[t] \in Requests
        /\ call[t].op = "update"
    BY <1>3 DEF CallUpdate, CallOK
  <2>2. IInv' /\ KnowledgeOK'
    BY <2>1, SInvIInv, InvokeIInv, InvokeKnowledge
  <2>3. pc'[t] = "list" /\ request'[t] = call[t] /\ \A u \in Threads \ {t} :
          pc'[u] = pc[u] /\ request'[u] = request[u]
    <3>1. FirstCall(call[t].op) = "list"
      BY <2>1 DEF FirstCall
    <3> QED
      BY <2>1, <3>1 DEF Invoke, TypeOK
  <2>4. CallOK'
    BY <2>1, <2>3 DEF GotoStage, CallOK, InRepository
  <2> QED
    BY <2>1, <2>2, <2>4 DEF GotoStage, IInv, Stages
<1>4. CASE EndRepositoryCall(t)
  BY <1>4, EndRepositoryCallSInv
<1>5. CASE PutLatest(t) \/ PutVersion(t) \/ PutRead(t) \/ Evict(t)
  BY <1>5, CacheStepSInv
<1>6. CASE Respond(t)
  <2>1. IInv' /\ KnowledgeOK'
    BY <1>6, SInvIInv DEF Respond, vars, IInv, TypeOK, RequestOK, KnowledgeOK, ReadTarget
  <2>2. CallOK'
    BY <1>6 DEF Respond, vars, CallOK, InRepository
  <2> QED
    BY <1>6, <2>1, <2>2 DEF Respond, IInv, Stages, Optional, Outcomes
<1> QED
  BY <1>1, <1>2, <1>3, <1>4, <1>5, <1>6 DEF Progress

LEMMA NextSInv == SInv /\ [ServiceNext]_allVars => SInv'
<1> SUFFICES ASSUME SInv, [ServiceNext]_allVars PROVE SInv'
  OBVIOUS
<1>1. CASE \E k \in Keys : Expire(k)
  BY <1>1 DEF Expire, vars, SInv, ServiceTypeOK, TypeOK, RequestOK, KnowledgeOK,
              ReadTarget, CallOK
<1>2. CASE ServiceRestart
  <2>1. IInv'
    BY <1>2, SInvIInv, RestartIInv DEF ServiceRestart
  <2>2. KnowledgeOK' /\ CallOK'
    BY <1>2 DEF ServiceRestart, Restart, KnowledgeOK, CallOK, InRepository
  <2> QED
    BY <1>2, <2>1, <2>2
    DEF ServiceRestart, SInv, IInv, ServiceTypeOK, Stages, Optional, Outcomes
<1>3. CASE UNCHANGED allVars
  BY <1>3 DEF allVars, vars, serviceVars, SInv, ServiceTypeOK, TypeOK, RequestOK,
              KnowledgeOK, ReadTarget, CallOK
<1> QED
  BY <1>1, <1>2, <1>3, ReceiveSInv, ProgressSInv DEF ServiceNext

LEMMA ServiceSpecSInv == ServiceSpec => []SInv
  BY InitSInv, NextSInv, PTL DEF ServiceSpec

(* The delegates and their cache are type correct: what is cached or       *)
(* returned is an entity, or absent, also after a delete whose entity      *)
(* others deleted, and a call that ends is one that was begun              *)
(* (PropertyGroupBDImpl, VersionSetBDImpl).                                *)
THEOREM ServiceTypeCorrect == ServiceSpec => []ServiceTypeOK
  BY ServiceSpecSInv, PTL DEF SInv

(***************************************************************************)
(* What the repository guarantees holds under the delegates                *)
(***************************************************************************)

LEMMA ServiceUsesRepository ==
  ASSUME SInv, [ServiceNext]_allVars
  PROVE  [Next]_vars
<1>1. CASE \E t \in Threads : Progress(t)
  BY <1>1, ProgressUsesRepository DEF SInv, CallOK
<1>2. CASE \E k \in Keys : Expire(k)
  BY <1>2 DEF Expire
<1>3. CASE ServiceRestart
  BY <1>3 DEF ServiceRestart, Next
<1>4. CASE UNCHANGED allVars
  BY <1>4 DEF allVars
<1> QED
  BY <1>1, <1>2, <1>3, <1>4, ReceiveUsesRepository DEF ServiceNext

(* The delegates call the repository as its specification allows: one call *)
(* per thread at a time, which is waited for.  What is proved of the       *)
(* repository therefore holds below the delegates, too                     *)
(* (PropertyGroupBDImpl, VersionSetBDImpl).                                *)
THEOREM ServiceImplementsRepository == ServiceSpec => Spec
<1>1. ServiceInit => Init
  BY DEF ServiceInit
<1>2. SInv /\ [ServiceNext]_allVars => [Next]_vars
  BY ServiceUsesRepository
<1> QED
  BY <1>1, <1>2, ServiceSpecSInv, PTL DEF ServiceSpec, Spec

(* Under the delegates, too, a delete removes files of its own name only,  *)
(* if no name is a prefix of another (VersionSetBDImpl.delete).            *)
THEOREM ServiceDeletesOwnFilesOnly ==
  ASSUME \A p \in StartsWith : p[1] = p[2]
  PROVE  ServiceSpec => DeletesOwnFilesOnly
  BY ServiceImplementsRepository, PrefixFreeDeletesOwnFilesOnly

(* And so the whole stack, from the delegates with their cache down to the *)
(* storage, implements the store of immutable versions, where no file is   *)
(* written over (PropertyGroupBDImpl over BaseFlatFileRepository).         *)
THEOREM ServiceImplementsStore ==
  ASSUME NoRace
  PROVE  ServiceSpec => ImplementsStore
  BY ServiceImplementsRepository, RepositoryImplementsStore

(***************************************************************************)
(* Without deletes, what is cached is stored                               *)
(***************************************************************************)

NoDeletes == Ops \cap {"delete", "deleteVersion"} = {}

(* What a repository call has written or read is in its file.              *)
StoredOK ==
  \A t \in Threads :
    /\ pc[t] = "fill" => files[WriteTarget(t)] = t
    /\ pc[t] = "done" /\ reply[t] = "ok" /\ request[t].op \in {"create", "update"} =>
         files[WriteTarget(t)] = request[t].content
    /\ pc[t] = "done" /\ reply[t] = "ok" /\ request[t].op \in {"read", "readVersion"} =>
         files[ReadTarget(t)] = found[t]

IsStored(e) ==
  e \in Entities => files[<<e.name, e.version>>] = e.content

CInv ==
  /\ SInv
  /\ StoredOK
  /\ \A k \in Keys : IsStored(cache[k])
  /\ \A t \in Threads : IsStored(result[t])

LEMMA NoDeleteIsRunning ==
  ASSUME NoDeletes, SInv, NEW t \in Threads
  PROVE  /\ pc[t] # "idle" => request[t].op \notin {"delete", "deleteVersion"}
         /\ pc[t] \notin Removing
         /\ stage[t] # "evict"
<1>1. pc[t] # "idle" => request[t].op \notin {"delete", "deleteVersion"}
  BY DEF SInv, CallOK, InRepository, NoDeletes
<1>2. pc[t] \notin Removing
  BY <1>1 DEF SInv, RequestOK, Removing
<1>3. stage[t] # "evict"
  BY DEF SInv, CallOK, NoDeletes
<1> QED
  BY <1>1, <1>2, <1>3

(* A storage call leaves complete files, and those others write, alone.    *)
LEMMA StepKeepsFiles ==
  ASSUME PutOK, NoDeletes, SInv, NEW t \in Threads, Step(t), NEW f \in Files
  PROVE  \/ files'[f] = files[f]
         \/ f = WriteTarget(t) /\ files[f] \in {Absent, t}
<1>1. CASE UNCHANGED files
  BY <1>1
<1>2. CASE CreateNewFile(t) \/ FillFile(t)
  BY <1>2 DEF CreateNewFile, FillFile, SInv, ServiceTypeOK, TypeOK
<1>3. ~ DeleteListed(t) /\ ~ DeleteVersion(t) /\ ~ DeleteObject(t)
  BY NoDeleteIsRunning DEF DeleteListed, DeleteVersion, DeleteObject, Removing
<1>4. CASE PutObject(t)
  BY <1>4 DEF PutObject, PutOK, SInv, ServiceTypeOK, TypeOK
<1> QED
  BY <1>1, <1>2, <1>3, <1>4
  DEF Step, CheckName, NothingListed, ListVersions, PickLatest, ReadMissing,
      SeeFile, ReadUnreadable, ReadComplete, WriteConflict, SeeNoObject,
      ListForDelete, LookForObject, IOFailure

LEMMA ContentsStay ==
  ASSUME PutOK, NoDeletes, SInv, NEW t \in Threads, Step(t), NEW f \in Files,
         files[f] \in Contents
  PROVE  files'[f] = files[f]
  BY StepKeepsFiles, ConstantsAssumption

LEMMA StepStored ==
  ASSUME PutOK, NoDeletes, SInv, StoredOK, NEW t \in Threads, Step(t)
  PROVE  StoredOK'
<1>0. IInv /\ KnowledgeOK /\ IInv'
  BY SInvIInv, StepIInv
<1>1. /\ request' = request /\ request[t] \in Requests
      /\ request[t].op \notin {"delete", "deleteVersion"}
  BY <1>0, StepMoves, NoDeleteIsRunning DEF IInv, RequestOK
<1>2. ASSUME NEW u \in Threads, pc[u] # "idle", request[u].op \in {"create", "update"}
      PROVE  WriteTarget(u) \in Files /\ request[u].content \in Contents
  BY <1>0, <1>2, RequestFields DEF IInv, RequestOK, WriteTarget, Files
<1>3. ASSUME NEW u \in Threads, u # t
      PROVE  /\ pc'[u] = "fill" => files'[WriteTarget(u)'] = u
             /\ pc'[u] = "done" /\ reply'[u] = "ok" /\ request'[u].op \in {"create", "update"} =>
                  files'[WriteTarget(u)'] = request'[u].content
             /\ pc'[u] = "done" /\ reply'[u] = "ok" /\ request'[u].op \in {"read", "readVersion"} =>
                  files'[ReadTarget(u)'] = found'[u]
  <2>1. /\ pc'[u] = pc[u] /\ latest'[u] = latest[u] /\ found'[u] = found[u]
        /\ reply'[u] = reply[u]
    BY <1>0, <1>3, StepLocal
  <2>2. WriteTarget(u)' = WriteTarget(u) /\ ReadTarget(u)' = ReadTarget(u)
    BY <1>1, <2>1 DEF WriteTarget, ReadTarget
  <2>3. ASSUME pc[u] = "fill" PROVE files'[WriteTarget(u)] = u
    <3>1. WriteTarget(u) \in Files /\ files[WriteTarget(u)] = u
      BY <1>0, <1>2, <2>3 DEF IInv, RequestOK, Writing, StoredOK
    <3> QED
      BY <1>3, <3>1, StepKeepsFiles, ConstantsAssumption
  <2>4. ASSUME pc[u] = "done", reply[u] = "ok", request[u].op \in {"create", "update"}
        PROVE  files'[WriteTarget(u)] = request[u].content
    BY <1>2, <2>4, ContentsStay DEF StoredOK
  <2>5. ASSUME pc[u] = "done", reply[u] = "ok", request[u].op \in {"read", "readVersion"}
        PROVE  files'[ReadTarget(u)] = found[u]
    <3>1. ReadTarget(u)[2] \in Versions /\ found[u] \in Contents
      BY <1>0, <2>5 DEF KnowledgeOK, ReadingOps
    <3>2. request[u].name \in Names
      BY <1>0, <2>5, RequestFields DEF IInv, RequestOK
    <3>3. ReadTarget(u) \in Files
      BY <3>1, <3>2 DEF ReadTarget, Files
    <3> QED
      BY <2>5, <3>1, <3>3, ContentsStay DEF StoredOK
  <2> QED
    BY <1>1, <2>1, <2>2, <2>3, <2>4, <2>5
<1>4. /\ pc'[t] = "fill" => files'[WriteTarget(t)'] = t
      /\ pc'[t] = "done" /\ reply'[t] = "ok" /\ request'[t].op \in {"create", "update"} =>
           files'[WriteTarget(t)'] = request'[t].content
      /\ pc'[t] = "done" /\ reply'[t] = "ok" /\ request'[t].op \in {"read", "readVersion"} =>
           files'[ReadTarget(t)'] = found'[t]
  <2> USE DEF IInv, TypeOK
  <2>1. WriteTarget(t)' = WriteTarget(t)
    BY <1>1 DEF WriteTarget
  <2>2. CASE \E out \in {"absent", "conflict", "error"} : Answer(t, out)
    BY <1>0, <2>2 DEF Answer
  <2>3. CASE \E label \in {"read", "open", "write", "list", "put", "unlink", "unlinkGone"} : Goto(t, label)
    BY <1>0, <2>3 DEF Goto
  <2>4. CASE CreateNewFile(t)
    <3>1. WriteTarget(t) \in Files /\ pc'[t] = "fill"
      BY <1>0, <1>2, <2>4 DEF CreateNewFile, Goto, RequestOK, Writing
    <3> QED
      BY <1>0, <2>1, <2>4, <3>1 DEF CreateNewFile
  <2>5. CASE FillFile(t)
    <3>1. /\ WriteTarget(t) \in Files /\ pc'[t] = "done"
          /\ request[t].op \in {"create", "update"}
      BY <1>0, <1>2, <2>5 DEF FillFile, Answer, RequestOK, Writing
    <3>2. files[WriteTarget(t)] = t
      BY <2>5 DEF FillFile, StoredOK
    <3>3. files'[WriteTarget(t)] = request[t].content
      BY <1>0, <2>5, <3>1, <3>2 DEF FillFile
    <3> QED
      BY <1>1, <2>1, <3>1, <3>3
  <2>6. CASE ListVersions(t)
    BY <1>0, <1>1, <2>6 DEF ListVersions, Answer
  <2>7. CASE ReadComplete(t)
    <3>1. /\ ReadTarget(t)' = ReadTarget(t) /\ files' = files
          /\ found'[t] = files[ReadTarget(t)]
      BY <1>0, <1>1, <2>7 DEF ReadComplete, ReadTarget
    <3>2. CASE request[t].op \in {"read", "readVersion"}
      BY <1>0, <1>1, <2>7, <3>1, <3>2 DEF ReadComplete, Answer
    <3>3. CASE request[t].op \notin {"read", "readVersion"}
      <4>1. pc'[t] \in {"write", "remove"}
        BY <1>0, <2>7, <3>3 DEF ReadComplete, Goto, AfterRead
      <4> QED
        BY <4>1
    <3> QED
      BY <3>2, <3>3
  <2>8. ~ DeleteListed(t) /\ ~ DeleteVersion(t) /\ ~ DeleteObject(t)
    BY <1>0, NoDeleteIsRunning DEF DeleteListed, DeleteVersion, DeleteObject, Removing
  <2>9. CASE PutObject(t)
    <3>1. /\ WriteTarget(t) \in Files /\ pc'[t] = "done"
          /\ request[t].op \in {"create", "update"}
      BY <1>0, <1>2, <2>9 DEF PutObject, Answer, RequestOK, Writing
    <3>2. files'[WriteTarget(t)] = request[t].content
      BY <1>0, <2>9, <3>1 DEF PutObject
    <3> QED
      BY <1>1, <2>1, <3>1, <3>2
  <2> QED
    BY <2>2, <2>3, <2>4, <2>5, <2>6, <2>7, <2>8, <2>9
    DEF Step, CheckName, NothingListed, PickLatest, ReadMissing, SeeFile,
        ReadUnreadable, WriteConflict, SeeNoObject, ListForDelete, LookForObject,
        IOFailure
<1> QED
  BY <1>3, <1>4 DEF StoredOK

(* What a successful repository call returns is stored.                    *)
LEMMA ReturnedIsStored ==
  ASSUME NoDeletes, SInv, StoredOK, NEW t \in Threads, stage[t] = "repository",
         pc[t] = "done", reply[t] \in {"ok", "absent"}, call[t].op # "versions"
  PROVE  IsStored(Returned(t))
<1>1. /\ request[t] = call[t] /\ call[t] \in Requests
      /\ call[t].op \notin {"delete", "deleteVersion"}
  BY DEF SInv, CallOK, NoDeletes
<1>2. CASE reply[t] = "absent"
  BY <1>2, NotEntitiesAssumption DEF Returned, IsStored
<1>3. CASE reply[t] = "ok" /\ call[t].op \in {"create", "update"}
  BY <1>1, <1>3 DEF Returned, EntityOf, IsStored, StoredOK, WriteTarget
<1>4. CASE reply[t] = "ok" /\ call[t].op \notin {"create", "update"}
  <2>1. call[t].op \in {"read", "readVersion"}
    BY <1>1, <1>4, RequestFields
  <2>2. files[ReadTarget(t)] = found[t]
    BY <1>1, <1>4, <2>1 DEF StoredOK
  <2>3. ReadTarget(t) = <<call[t].name, ReadTarget(t)[2]>>
    BY <1>1 DEF ReadTarget
  <2> QED
    BY <1>4, <2>1, <2>2, <2>3 DEF Returned, IsStored
<1> QED
  BY <1>2, <1>3, <1>4

(* A step of the service that changes no file keeps what is known of them. *)
LEMMA UnchangedStored ==
  ASSUME CInv, UNCHANGED vars,
         \A k \in Keys : cache'[k] \in {NoEntry, cache[k]} \/ \E t \in Threads : cache'[k] = result[t],
         \A t \in Threads : \/ result'[t] \in {Absent, result[t]}
                            \/ \E k \in Keys : result'[t] = cache[k]
  PROVE  /\ StoredOK'
         /\ \A k \in Keys : IsStored(cache[k])'
         /\ \A t \in Threads : IsStored(result[t])'
<1>1. StoredOK'
  BY DEF CInv, StoredOK, vars, WriteTarget, ReadTarget
<1>2. IsStored(NoEntry) /\ IsStored(Absent)
  BY NotEntitiesAssumption DEF IsStored, Optional
<1>3. ASSUME NEW e, IsStored(e) PROVE e \in Entities => files'[<<e.name, e.version>>] = e.content
  BY <1>3 DEF IsStored, vars
<1>4. ASSUME NEW k \in Keys PROVE IsStored(cache[k])'
  <2>1. IsStored(cache'[k])
    BY <1>2 DEF CInv
  <2> QED
    BY <1>3, <2>1 DEF IsStored
<1>5. ASSUME NEW t \in Threads PROVE IsStored(result[t])'
  <2>1. IsStored(result'[t])
    BY <1>2 DEF CInv
  <2> QED
    BY <1>3, <2>1 DEF IsStored
<1> QED
  BY <1>1, <1>4, <1>5

(* So does one that begins or ends a repository call.                      *)
LEMMA CallBoundaryStored ==
  ASSUME CInv, UNCHANGED <<files, cache>>, NEW t \in Threads,
         (\E r \in Requests : Invoke(t, r)) \/ Return(t),
         \A u \in Threads : IsStored(result'[u])
  PROVE  /\ StoredOK'
         /\ \A k \in Keys : IsStored(cache[k])'
         /\ \A u \in Threads : IsStored(result[u])'
<1>1. StoredOK'
  <2> USE DEF CInv, SInv, ServiceTypeOK, TypeOK
  <2>1. pc'[t] \notin {"fill", "done"}
    <3>1. ASSUME NEW r \in Requests, Invoke(t, r) PROVE pc'[t] \notin {"fill", "done"}
      <4>1. r.op \in {"create", "update", "readVersion", "deleteVersion", "read",
                      "versions", "delete"}
        BY RequestFields
      <4>2. FirstCall(r.op) \notin {"fill", "done"}
        BY <4>1 DEF FirstCall
      <4> QED
        BY <3>1, <4>2 DEF Invoke
    <3>2. ASSUME Return(t) PROVE pc'[t] = "idle"
      BY <3>2 DEF Return
    <3> QED
      BY <3>1, <3>2
  <2>2. ASSUME NEW u \in Threads, u # t
        PROVE  /\ pc'[u] = pc[u] /\ request'[u] = request[u] /\ reply'[u] = reply[u]
               /\ found'[u] = found[u] /\ latest'[u] = latest[u]
    BY <2>2 DEF Invoke, Return
  <2> QED
    BY <2>1, <2>2 DEF StoredOK, WriteTarget, ReadTarget
<1>2. ASSUME NEW k \in Keys PROVE IsStored(cache[k])'
  BY <1>2 DEF CInv, IsStored
<1>3. ASSUME NEW u \in Threads PROVE IsStored(result[u])'
  <2>1. IsStored(result'[u])
    BY <1>3
  <2> QED
    BY <2>1 DEF IsStored
<1> QED
  BY <1>1, <1>2, <1>3

LEMMA ReceiveCInv ==
  ASSUME CInv, NEW t \in Threads, NEW r \in Requests, Receive(t, r)
  PROVE  CInv'
<1>1. SInv'
  BY ReceiveSInv DEF CInv
<1>2. CASE CallRepository(t, r) \/ ReadUncached(t, r) \/ ReadLast(t, r)
  <2>1. /\ \E q \in Requests : Invoke(t, q)
        /\ UNCHANGED <<cache, result>>
    BY <1>2, ReadLastRequest DEF CallRepository, ReadUncached, ReadLast
  <2>2. UNCHANGED files
    BY <2>1 DEF Invoke
  <2>3. \A u \in Threads : IsStored(result'[u])
    BY <2>1 DEF CInv
  <2> QED
    BY <1>1, <2>1, <2>2, <2>3, CallBoundaryStored DEF CInv
<1>3. CASE ReadCached(t, r)
  <2>1. UNCHANGED vars /\ cache' = cache
    BY <1>3 DEF ReadCached
  <2>2. KeyOf(r) \in Keys /\ result' = [result EXCEPT ![t] = cache[KeyOf(r)]]
    BY <1>3, KeysOfRequests DEF ReadCached
  <2>3. \A u \in Threads : result'[u] = result[u] \/ \E k \in Keys : result'[u] = cache[k]
    BY <2>2 DEF CInv, SInv, ServiceTypeOK
  <2> QED
    BY <1>1, <2>1, <2>3, UnchangedStored DEF CInv
<1> QED
  BY <1>2, <1>3 DEF Receive

LEMMA ProgressCInv ==
  ASSUME PutOK, NoDeletes, CInv, NEW t \in Threads, Progress(t)
  PROVE  CInv'
<1>1. SInv' /\ SInv /\ StoredOK /\ result \in [Threads -> Optional]
      /\ cache \in [Keys -> Optional \cup {NoEntry}]
  BY ProgressSInv DEF CInv, SInv, ServiceTypeOK
<1>2. CASE RepositoryStep(t)
  <2>1. Step(t) /\ UNCHANGED serviceVars
    BY <1>2 DEF RepositoryStep
  <2>2. StoredOK'
    BY <1>1, <2>1, StepStored
  <2>3. ASSUME NEW e, IsStored(e)
        PROVE  e \in Entities => files'[<<e.name, e.version>>] = e.content
    <3>1. SUFFICES ASSUME e \in Entities PROVE files'[<<e.name, e.version>>] = e.content
      OBVIOUS
    <3>2. <<e.name, e.version>> \in Files /\ e.content \in Contents
      BY <3>1 DEF Entities, Files
    <3>3. files[<<e.name, e.version>>] = e.content
      BY <2>3, <3>1 DEF IsStored
    <3> QED
      BY <1>1, <2>1, <3>2, <3>3, ContentsStay
  <2>4. cache' = cache /\ result' = result
    BY <2>1 DEF serviceVars
  <2>5. ASSUME NEW k \in Keys PROVE IsStored(cache[k])'
    BY <2>3, <2>4 DEF CInv, IsStored
  <2>6. ASSUME NEW u \in Threads PROVE IsStored(result[u])'
    BY <2>3, <2>4 DEF CInv, IsStored
  <2> QED
    BY <1>1, <2>2, <2>5, <2>6 DEF CInv
<1>3. CASE CompareVersions(t) \/ CallUpdate(t)
  <2>1. (\E r \in Requests : Invoke(t, r)) \/ Return(t)
    BY <1>1, <1>3 DEF CompareVersions, CallUpdate, SInv, CallOK
  <2>2. UNCHANGED <<files, cache>>
    BY <1>3, <2>1 DEF CompareVersions, CallUpdate, Invoke, Return
  <2>3. result' = [result EXCEPT ![t] = result[t]] \/ result' = [result EXCEPT ![t] = Absent]
    <3>1. CASE CallUpdate(t)
      BY <3>1 DEF CallUpdate, GotoStage
    <3>2. CASE CompareVersions(t)
      <4>0. call[t].version \in Nat /\ latest[t] \in Nat
        BY <1>1, <3>2, RequestFields, ConstantsAssumption
        DEF CompareVersions, SInv, ServiceTypeOK, CallOK, TypeOK
      <4>1. CASE reply[t] = "ok" /\ call[t].version > latest[t]
        <5>1. ~ (call[t].version <= latest[t])
          BY <4>0, <4>1
        <5>2. GotoStage(t, "update", result[t])
          BY <3>2, <4>1, <5>1 DEF CompareVersions
        <5> QED
          BY <5>2 DEF GotoStage
      <4>2. CASE reply[t] = "ok" /\ ~ (call[t].version > latest[t])
        <5>1. call[t].version <= latest[t]
          BY <4>0, <4>2
        <5>2. Finish(t, "conflict", Absent)
          BY <3>2, <4>2, <5>1 DEF CompareVersions
        <5> QED
          BY <5>2 DEF Finish
      <4>3. CASE reply[t] # "ok"
        <5>1. Finish(t, reply[t], Absent)
          BY <3>2, <4>3 DEF CompareVersions
        <5> QED
          BY <5>1 DEF Finish
      <4> QED
        BY <4>1, <4>2, <4>3
    <3> QED
      BY <1>3, <3>1, <3>2
  <2>4. \A u \in Threads : IsStored(result'[u])
    BY <1>1, <2>3, NotEntitiesAssumption DEF CInv, IsStored
  <2> QED
    BY <1>1, <2>1, <2>2, <2>4, CallBoundaryStored DEF CInv
<1>4. CASE EndRepositoryCall(t)
  <2>1. Return(t) /\ UNCHANGED <<files, cache>> /\ stage[t] = "repository" /\ pc[t] = "done"
    BY <1>4 DEF EndRepositoryCall, Return
  <2>2. \A u \in Threads : IsStored(result'[u])
    <3>1. CASE reply[t] \in {"ok", "absent"} /\ call[t].op # "versions"
      <4>1. result' = [result EXCEPT ![t] = Returned(t)]
        BY <1>4, <3>1 DEF EndRepositoryCall, GotoStage
      <4>2. IsStored(Returned(t))
        BY <1>1, <2>1, <3>1, ReturnedIsStored
      <4> QED
        BY <1>1, <4>1, <4>2 DEF CInv
    <3>2. CASE ~ (reply[t] \in {"ok", "absent"} /\ call[t].op # "versions")
      <4>1. result' = [result EXCEPT ![t] = Absent]
        BY <1>4, <3>2 DEF EndRepositoryCall, Finish
      <4> QED
        BY <1>1, <4>1, NotEntitiesAssumption DEF CInv, IsStored
    <3> QED
      BY <3>1, <3>2
  <2> QED
    BY <1>1, <2>1, <2>2, CallBoundaryStored DEF CInv
<1>5. CASE PutLatest(t) \/ PutVersion(t) \/ PutRead(t) \/ Respond(t)
  <2>1. UNCHANGED vars
    BY <1>5 DEF PutLatest, PutVersion, PutRead, Respond
  <2>2. \A k \in Keys : cache'[k] \in {cache[k], result[t]}
    BY <1>1, <1>5 DEF PutLatest, PutVersion, PutRead, Respond
  <2>3. \A u \in Threads : result'[u] \in {Absent, result[u]}
    BY <1>1, <1>5 DEF PutLatest, PutVersion, PutRead, Respond, GotoStage, Finish
  <2> QED
    BY <1>1, <2>1, <2>2, <2>3, UnchangedStored DEF CInv
<1>6. ~ Evict(t)
  BY <1>1, NoDeleteIsRunning DEF Evict
<1> QED
  BY <1>2, <1>3, <1>4, <1>5, <1>6 DEF Progress

LEMMA NextCInv ==
  ASSUME PutOK, NoDeletes, CInv, [ServiceNext]_allVars
  PROVE  CInv'
<1>1. SInv' /\ cache \in [Keys -> Optional \cup {NoEntry}]
  BY NextSInv DEF CInv, SInv, ServiceTypeOK
<1>2. CASE \E k \in Keys : Expire(k)
  <2>1. /\ UNCHANGED vars /\ result' = result
        /\ \A k \in Keys : cache'[k] \in {NoEntry, cache[k]}
    BY <1>1, <1>2 DEF Expire
  <2> QED
    BY <1>1, <2>1, UnchangedStored DEF CInv
<1>3. CASE ServiceRestart
  <2>1. StoredOK'
    BY <1>3 DEF ServiceRestart, Restart, StoredOK
  <2>2. /\ \A k \in Keys : IsStored(cache[k])'
        /\ \A t \in Threads : IsStored(result[t])'
    BY <1>3, NotEntitiesAssumption DEF ServiceRestart, IsStored, Optional
  <2> QED
    BY <1>1, <2>1, <2>2 DEF CInv
<1>4. CASE UNCHANGED allVars
  BY <1>1, <1>4, UnchangedStored DEF CInv, allVars, serviceVars
<1> QED
  BY <1>2, <1>3, <1>4, ReceiveCInv, ProgressCInv DEF ServiceNext

LEMMA InitCInv == ServiceInit => CInv
<1> SUFFICES ASSUME ServiceInit PROVE CInv
  OBVIOUS
<1>1. StoredOK
  BY DEF ServiceInit, Init, StoredOK
<1>2. /\ \A k \in Keys : IsStored(cache[k])
      /\ \A t \in Threads : IsStored(result[t])
  BY NotEntitiesAssumption DEF ServiceInit, IsStored, Optional
<1> QED
  BY <1>1, <1>2, InitSInv DEF CInv

(* While nothing is deleted, the cache needs no invalidation: every entity *)
(* in it is stored with that content, on the local storage however calls,  *)
(* failures, expiry and restarts interleave, on S3 as long as requests do  *)
(* not overlap, and also where cache keys collide (PropertyGroupBDImpl,    *)
(* VersionSetBDImpl).                                                      *)
THEOREM CachedEntitiesAreStored ==
  ASSUME NoRace, NoDeletes
  PROVE  ServiceSpec => []CachedIsStored
<1>1. CInv /\ PutOK /\ [ServiceNext]_allVars => CInv' /\ PutOK'
  BY NextCInv, PutStep, ServiceUsesRepository, SInvIInv DEF CInv
<1>2. CInv => CachedIsStored
  BY DEF CInv, IsStored, CachedIsStored
<1>3. ServiceInit => PutOK
  BY DEF ServiceInit, Init, PutOK
<1> QED
  BY <1>1, <1>2, <1>3, InitCInv, PTL DEF ServiceSpec

(***************************************************************************)
(* One request at a time: the cache tells the truth                        *)
(*                                                                         *)
(* CacheIsCoherent says nothing of the states inside a call, so it is not  *)
(* inductive.  CohInv says for every state which keys the running call may *)
(* have left stale (Stale), and what the call has seen of the files, until *)
(* it has put that into the cache (Sees, HoldsTruth).                      *)
(***************************************************************************)

NoPrefixes == \A p \in StartsWith : p[1] = p[2]

DistinctCacheKeys ==
  \A a, b \in Names \X (0 .. MaxVersion) : CacheKey[a] = CacheKey[b] => a = b

CompleteIn(fs, n) == {w \in Versions : fs[<<n, w>>] \in Contents}

(* What is cached for a name and a version agrees with the files.          *)
Agrees(fs, n, v, e) ==
  /\ e = Absent => (IF v = 0 THEN CompleteIn(fs, n) = {} ELSE v \notin CompleteIn(fs, n))
  /\ e \in Entities =>
       /\ e.name = n
       /\ IF v = 0 THEN \A w \in CompleteIn(fs, n) : w <= e.version ELSE e.version = v
       /\ fs[<<n, e.version>>] = e.content

IsHighest(fs, n, v) == \A w \in CompleteIn(fs, n) : w <= v

(* An update is of a name that exists, to a higher version.                *)
IsNewVersion(r) ==
  CompleteIn(files, r.name) # {} /\ \A w \in CompleteIn(files, r.name) : w < r.version

SeesToRead(t) ==
  /\ pc[t] \in {"read", "open"} /\ request[t].op \in {"read", "update"} =>
       files[<<request[t].name, latest[t]>>] # Absent
  /\ pc[t] \in {"read", "open"} /\ request[t].op = "read" =>
       IsHighest(files, request[t].name, latest[t])
  /\ pc[t] \in {"open", "remove"} /\ request[t].op = "deleteVersion" =>
       files[ReadTarget(t)] # Absent
  /\ pc[t] # "unlinkGone"

SeesToWrite(t) ==
  /\ pc[t] = "fill" => files[WriteTarget(t)] = t
  /\ pc[t] \in {"write", "fill", "put"} /\ request[t].op = "create" =>
       CompleteIn(files, request[t].name) = {}
  /\ pc[t] \notin {"idle", "done"} /\ request[t].op = "update" => IsNewVersion(request[t])

HasWritten(t) ==
  pc[t] = "done" /\ request[t].op \in {"create", "update"} =>
    /\ reply[t] # "absent"
    /\ reply[t] = "ok" =>
         /\ files[WriteTarget(t)] = request[t].content
         /\ IsHighest(files, request[t].name, request[t].version)

HasRead(t) ==
  /\ pc[t] = "done" /\ request[t].op = "read" =>
       /\ reply[t] = "absent" => CompleteIn(files, request[t].name) = {}
       /\ reply[t] = "ok" => IsHighest(files, request[t].name, latest[t])
  /\ pc[t] = "done" /\ request[t].op = "readVersion" /\ reply[t] = "absent" =>
       files[ReadTarget(t)] \notin Contents
  /\ pc[t] = "done" /\ request[t].op \in {"read", "readVersion"} /\ reply[t] = "ok" =>
       files[ReadTarget(t)] = found[t]

Sees(t) == SeesToRead(t) /\ SeesToWrite(t) /\ HasWritten(t) /\ HasRead(t)

HoldsTruth(t) ==
  /\ stage[t] = "last" => request[t].name = call[t].name /\ request[t].version = 0
  /\ stage[t] = "update" => IsNewVersion(call[t])
  /\ stage[t] = "putLatest" => Agrees(files, call[t].name, 0, result[t])
  /\ stage[t] \in {"putRead", "putLatest", "putVersion"} =>
       Agrees(files, call[t].name, call[t].version, result[t])

HasEnded(t) == pc[t] = "done" /\ reply[t] = "ok"

(* The call of t may have made what is cached for n and v untrue.          *)
Stale(t, n, v) ==
  \/ stage[t] = "evict"
  \/ /\ stage[t] = "repository" /\ call[t].op \in {"delete", "deleteVersion"}
     /\ pc[t] \in {"remove", "unlink"} \/ HasEnded(t)
  \/ /\ \/ stage[t] = "putLatest"
        \/ stage[t] = "repository" /\ call[t].op \in {"create", "update"} /\ HasEnded(t)
     /\ n = call[t].name /\ v \in {0, call[t].version}
  \/ stage[t] = "putVersion" /\ n = call[t].name /\ v = call[t].version

CachedOK(n, v) ==
  (\A t \in Threads : ~ Stale(t, n, v)) => Agrees(files, n, v, cache[CacheKey[<<n, v>>]])

CohInv ==
  /\ SInv
  /\ \A t \in Threads : Sees(t) /\ HoldsTruth(t)
  /\ \A n \in Names, v \in 0 .. MaxVersion : CachedOK(n, v)

(* A name that lists nothing has no complete version.                      *)
LEMMA NothingListedNothingComplete ==
  ASSUME OnePage, NEW n \in Names, ListedFor(n) = {}
  PROVE  CompleteIn(files, n) = {}
<1> SUFFICES ASSUME NEW w \in CompleteIn(files, n) PROVE FALSE
  OBVIOUS
<1>1. <<n, w>> \in Files /\ files[<<n, w>>] # Absent
  BY ConstantsAssumption DEF CompleteIn, Files
<1> QED
  BY <1>1, ListingIsComplete, ConstantsAssumption

(* The version picked as the latest exists, and no complete one is higher. *)
LEMMA PickedIsHighest ==
  ASSUME OnePage, NoPrefixes, SInv, NEW t \in Threads, PickLatest(t)
  PROVE  /\ files[<<request[t].name, latest'[t]>>] # Absent
         /\ IsHighest(files, request[t].name, latest'[t])
<1> DEFINE n == request[t].name
<1>1. n \in Names /\ latest \in [Threads -> 0 .. MaxVersion]
  BY RequestFields DEF SInv, RequestOK, PickLatest, ServiceTypeOK, TypeOK
<1>2. PICK f \in ListedFor(n) :
        (\A g \in ListedFor(n) : g[2] <= f[2]) /\ latest'[t] = f[2]
  BY <1>1 DEF PickLatest
<1>3. f \in Files /\ f[1] = n /\ files[f] # Absent
  BY <1>2, ListedAreFiles DEF NoPrefixes, ListedFor, FirstPage
<1>4. f = <<n, latest'[t]>>
  BY <1>2, <1>3 DEF Files
<1>5. ASSUME NEW w \in CompleteIn(files, n) PROVE w <= latest'[t]
  <2>1. <<n, w>> \in Files /\ files[<<n, w>>] # Absent
    BY <1>1, <1>5, ConstantsAssumption DEF CompleteIn, Files
  <2>2. <<n, w>> \in ListedFor(n)
    BY <1>1, <2>1, ListingIsComplete, ConstantsAssumption
  <2> QED
    BY <1>2, <2>2
<1> QED
  BY <1>3, <1>4, <1>5 DEF IsHighest

(* A storage call that fails or refuses leaves nothing to be seen.         *)
LEMMA RefusalSees ==
  ASSUME SInv, NEW t \in Threads, NEW out \in {"conflict", "error"}, Answer(t, out)
  PROVE  Sees(t)'
<1>1. pc'[t] = "done" /\ reply'[t] = out
  BY DEF Answer, SInv, ServiceTypeOK, TypeOK
<1> QED
  BY <1>1 DEF Sees, SeesToRead, SeesToWrite, HasWritten, HasRead

LEMMA ListingSees ==
  ASSUME OnePage, NoPrefixes, SInv, NEW t \in Threads, Sees(t),
         CheckName(t) \/ NothingListed(t) \/ ListVersions(t) \/ PickLatest(t)
           \/ ListForDelete(t)
  PROVE  Sees(t)'
<1> USE DEF SInv, ServiceTypeOK
<1>1. /\ files' = files /\ request' = request /\ request[t].name \in Names
      /\ pc \in [Threads -> Labels] /\ reply \in [Threads -> Outcomes]
  BY RequestFields
  DEF CheckName, NothingListed, ListVersions, PickLatest, ListForDelete, Goto, Answer,
      RequestOK, TypeOK
<1>2. CASE CheckName(t)
  <2>1. CASE ListedFor(request[t].name) # {}
    <3>1. Answer(t, "conflict")
      BY <1>2, <2>1 DEF CheckName
    <3> QED
      BY <3>1, RefusalSees
  <2>2. CASE ListedFor(request[t].name) = {}
    <3>1. CompleteIn(files, request[t].name) = {}
      BY <1>1, <2>2, NothingListedNothingComplete
    <3>2. pc'[t] = "write" /\ request[t].op \in {"create", "update"} /\ pc[t] = "exists"
      BY <1>1, <1>2, <2>2 DEF CheckName, Goto, RequestOK, Writing
    <3> QED
      BY <1>1, <3>1, <3>2
      DEF Sees, SeesToRead, SeesToWrite, HasWritten, HasRead, IsNewVersion
  <2> QED
    BY <2>1, <2>2
<1>3. CASE NothingListed(t)
  <2>1. CompleteIn(files, request[t].name) = {} /\ pc[t] = "list"
    BY <1>1, <1>3, NothingListedNothingComplete DEF NothingListed
  <2>2. request[t].op \notin {"create", "update"}
    BY <2>1 DEF RequestOK, Sees, SeesToWrite, IsNewVersion
  <2>3. pc'[t] = "done" /\ reply'[t] \in {"absent", "error"}
    BY <1>1, <1>3 DEF NothingListed, Answer
  <2>4. request[t].op = "readVersion" => files'[ReadTarget(t)'] \notin Contents
    <3>1. SUFFICES ASSUME request[t].op = "readVersion"
                   PROVE  files'[ReadTarget(t)'] \notin Contents
      OBVIOUS
    <3>2. request[t].version \in Versions
      BY <2>1, <3>1 DEF RequestOK, Requests, WriteRequests, PointRequests, NameRequests
    <3>3. ReadTarget(t)' = <<request[t].name, request[t].version>>
      BY <1>1, <3>1, <3>2 DEF ReadTarget, Versions
    <3> QED
      BY <1>1, <2>1, <3>2, <3>3 DEF CompleteIn
  <2> QED
    BY <1>1, <2>1, <2>2, <2>3, <2>4 DEF Sees, SeesToRead, SeesToWrite, HasWritten, HasRead
<1>4. CASE ListVersions(t)
  <2>1. pc'[t] = "done" /\ request[t].op = "versions"
    BY <1>1, <1>4 DEF ListVersions, Answer
  <2> QED
    BY <1>1, <2>1 DEF Sees, SeesToRead, SeesToWrite, HasWritten, HasRead
<1>5. CASE PickLatest(t)
  <2>1. pc[t] = "list" /\ pc'[t] = "read"
    BY <1>1, <1>5 DEF PickLatest, Goto
  <2> QED
    BY <1>1, <1>5, <2>1, PickedIsHighest
    DEF Sees, SeesToRead, SeesToWrite, HasWritten, HasRead, IsNewVersion
<1>6. CASE ListForDelete(t)
  <2>1. pc'[t] \in {"list", "done"} /\ request[t].op \in {"delete", "deleteVersion"}
    BY <1>1, <1>6 DEF ListForDelete, Goto, Answer, RequestOK, Removing
  <2> QED
    BY <1>1, <2>1 DEF Sees, SeesToRead, SeesToWrite, HasWritten, HasRead
<1> QED
  BY <1>2, <1>3, <1>4, <1>5, <1>6

LEMMA ReadingSees ==
  ASSUME SInv, NEW t \in Threads, Sees(t),
         ReadMissing(t) \/ SeeFile(t) \/ ReadUnreadable(t) \/ ReadComplete(t)
  PROVE  Sees(t)'
<1> USE DEF SInv, ServiceTypeOK
<1>1. /\ files' = files /\ request' = request /\ latest' = latest
      /\ ReadTarget(t)' = ReadTarget(t)
      /\ pc[t] \in {"read", "open"} /\ request[t].op \notin {"create", "versions"}
      /\ pc \in [Threads -> Labels] /\ reply \in [Threads -> Outcomes]
  BY DEF ReadMissing, SeeFile, ReadUnreadable, ReadComplete, Goto, Answer, ReadTarget,
         RequestOK, TypeOK
<1>2. request[t].op \in {"read", "update"} =>
        ReadTarget(t) = <<request[t].name, latest[t]>>
  BY <1>1 DEF RequestOK, Requests, WriteRequests, PointRequests, NameRequests, ReadTarget
<1>3. CASE ReadMissing(t)
  <2>1. request[t].op \notin {"read", "update"}
    BY <1>1, <1>2, <1>3 DEF ReadMissing, Sees, SeesToRead
  <2>2. pc'[t] = "done" /\ reply'[t] \in {"absent", "error"}
        /\ files[ReadTarget(t)] \notin Contents
    BY <1>1, <1>3, ConstantsAssumption DEF ReadMissing, Answer
  <2> QED
    BY <1>1, <2>1, <2>2 DEF Sees, SeesToRead, SeesToWrite, HasWritten, HasRead
<1>4. CASE SeeFile(t)
  <2>1. pc'[t] = "open" /\ pc[t] = "read" /\ files[ReadTarget(t)] # Absent
    BY <1>1, <1>4 DEF SeeFile, Goto
  <2> QED
    BY <1>1, <2>1 DEF Sees, SeesToRead, SeesToWrite, HasWritten, HasRead, IsNewVersion
<1>5. CASE ReadUnreadable(t)
  BY <1>5, RefusalSees DEF ReadUnreadable
<1>6. CASE ReadComplete(t)
  <2>1. pc[t] = "open" /\ found'[t] = files[ReadTarget(t)]
    BY <1>6 DEF ReadComplete, TypeOK
  <2>2. CASE request[t].op \in {"read", "readVersion"}
    <3>1. pc'[t] = "done" /\ reply'[t] = "ok"
      BY <1>1, <1>6, <2>2 DEF ReadComplete, Answer
    <3> QED
      BY <1>1, <2>1, <2>2, <3>1
      DEF Sees, SeesToRead, SeesToWrite, HasWritten, HasRead
  <2>3. CASE request[t].op \notin {"read", "readVersion"}
    <3>1. pc'[t] = AfterRead(request[t].op)
      BY <1>1, <1>6, <2>3 DEF ReadComplete, Goto
    <3>2. pc'[t] \in {"write", "remove"}
      BY <3>1 DEF AfterRead
    <3> QED
      BY <1>1, <2>1, <3>2
      DEF Sees, SeesToRead, SeesToWrite, HasWritten, HasRead, IsNewVersion
  <2> QED
    BY <2>2, <2>3
<1> QED
  BY <1>3, <1>4, <1>5, <1>6

(* A file that is written becomes complete, and no other does.             *)
LEMMA WriteCompletes ==
  ASSUME TypeOK, NEW r, r.name \in Names, r.version \in Versions, NEW x \in FileStates,
         files' = [files EXCEPT ![<<r.name, r.version>>] = x]
  PROVE  /\ files'[<<r.name, r.version>>] = x
         /\ \A f \in Files : f # <<r.name, r.version>> => files'[f] = files[f]
         /\ x \notin Contents /\ files[<<r.name, r.version>>] \notin Contents =>
              \A n \in Names : CompleteIn(files', n) = CompleteIn(files, n)
         /\ CompleteIn(files', r.name) \subseteq CompleteIn(files, r.name) \cup {r.version}
<1>1. <<r.name, r.version>> \in Files
  BY DEF Files
<1>2. /\ files'[<<r.name, r.version>>] = x
      /\ \A f \in Files : f # <<r.name, r.version>> => files'[f] = files[f]
  BY <1>1 DEF TypeOK
<1>3. ASSUME NEW n \in Names, NEW w \in Versions, <<n, w>> # <<r.name, r.version>>
      PROVE  files'[<<n, w>>] = files[<<n, w>>]
  BY <1>2, <1>3 DEF Files
<1> QED
  BY <1>2, <1>3 DEF CompleteIn

LEMMA WritingSees ==
  ASSUME "io" \notin Faults, SInv, NEW t \in Threads, Sees(t),
         WriteConflict(t) \/ CreateNewFile(t) \/ FillFile(t) \/ SeeNoObject(t)
           \/ PutObject(t)
  PROVE  Sees(t)'
<1> USE DEF SInv, ServiceTypeOK
<1> DEFINE r == request[t]
<1>1. /\ request' = request /\ WriteTarget(t) = <<r.name, r.version>>
      /\ WriteTarget(t)' = WriteTarget(t)
      /\ pc[t] \in {"write", "fill", "put"} /\ r.op \in {"create", "update"}
      /\ pc \in [Threads -> Labels] /\ reply \in [Threads -> Outcomes]
  BY DEF WriteConflict, CreateNewFile, FillFile, SeeNoObject, PutObject, Goto, Answer,
         WriteTarget, RequestOK, Writing, TypeOK
<1>2. r.name \in Names /\ r.version \in Versions /\ r.content \in Contents
  BY <1>1, RequestFields DEF RequestOK
<1>3. CASE WriteConflict(t)
  BY <1>3, RefusalSees DEF WriteConflict
<1>4. CASE CreateNewFile(t)
  <2>1. /\ pc'[t] = "fill" /\ pc[t] = "write"
        /\ files' = [files EXCEPT ![<<r.name, r.version>>] = t]
        /\ files[<<r.name, r.version>>] \notin Contents /\ t \notin Contents
        /\ t \in FileStates
    BY <1>1, <1>4, ConstantsAssumption DEF CreateNewFile, Goto, FileStates
  <2>2. /\ files'[<<r.name, r.version>>] = t
        /\ CompleteIn(files', r.name) = CompleteIn(files, r.name)
    BY <1>2, <2>1, WriteCompletes
  <2> QED
    BY <1>1, <2>1, <2>2
    DEF Sees, SeesToRead, SeesToWrite, HasWritten, HasRead, IsNewVersion
<1>5. CASE SeeNoObject(t)
  <2>1. pc'[t] = "put" /\ files' = files /\ pc[t] = "write"
    BY <1>1, <1>5 DEF SeeNoObject, Goto
  <2> QED
    BY <1>1, <2>1
    DEF Sees, SeesToRead, SeesToWrite, HasWritten, HasRead, IsNewVersion
<1>6. CASE FillFile(t) \/ PutObject(t)
  <2>1. /\ pc'[t] = "done" /\ reply'[t] = "ok" /\ pc[t] \in {"fill", "put"}
        /\ files' = [files EXCEPT ![<<r.name, r.version>>] = r.content]
    <3>1. CASE FillFile(t)
      <4>1. files[<<r.name, r.version>>] = t
        BY <1>1, <3>1 DEF FillFile, Sees, SeesToWrite
      <4> QED
        BY <1>1, <3>1, <4>1 DEF FillFile, Answer
    <3>2. CASE PutObject(t)
      BY <1>1, <3>2 DEF PutObject, Answer, OutcomesOf
    <3> QED
      BY <1>6, <3>1, <3>2
  <2>2. /\ files'[<<r.name, r.version>>] = r.content
        /\ CompleteIn(files', r.name) \subseteq CompleteIn(files, r.name) \cup {r.version}
    BY <1>2, <2>1, WriteCompletes DEF FileStates
  <2>3. \A w \in CompleteIn(files, r.name) : w <= r.version
    BY <1>1, <1>2, <2>1 DEF Sees, SeesToWrite, IsNewVersion, CompleteIn, Versions
  <2>4. IsHighest(files', r.name, r.version)
    BY <1>2, <2>2, <2>3 DEF IsHighest, Versions
  <2> QED
    BY <1>1, <2>1, <2>2, <2>4 DEF Sees, SeesToRead, SeesToWrite, HasWritten, HasRead
<1> QED
  BY <1>3, <1>4, <1>5, <1>6

LEMMA RemovingSees ==
  ASSUME SInv, NEW t \in Threads, Sees(t),
         DeleteListed(t) \/ DeleteVersion(t) \/ LookForObject(t) \/ DeleteObject(t)
  PROVE  Sees(t)'
<1> USE DEF SInv, ServiceTypeOK
<1>1. /\ request' = request /\ request[t].op \in {"delete", "deleteVersion"}
      /\ pc \in [Threads -> Labels]
  BY DEF DeleteListed, DeleteVersion, LookForObject, DeleteObject, Goto, Answer,
         RequestOK, Removing, TypeOK
<1>2. /\ pc'[t] \in {"remove", "unlink", "done"}
      /\ pc'[t] = "remove" => request[t].op = "delete"
  <2>1. CASE DeleteListed(t)
    BY <1>1, <2>1 DEF DeleteListed, Goto, Answer
  <2>2. CASE DeleteVersion(t) \/ DeleteObject(t)
    BY <1>1, <2>2 DEF DeleteVersion, DeleteObject, Answer
  <2>3. CASE LookForObject(t)
    BY <1>1, <2>3 DEF LookForObject, Goto, Sees, SeesToRead
  <2> QED
    BY <2>1, <2>2, <2>3
<1> QED
  BY <1>1, <1>2 DEF Sees, SeesToRead, SeesToWrite, HasWritten, HasRead

LEMMA StepSees ==
  ASSUME OnePage, NoPrefixes, "io" \notin Faults, SInv, NEW t \in Threads, Sees(t), Step(t)
  PROVE  Sees(t)'
<1>1. ~ IOFailure(t)
  BY DEF IOFailure
<1> QED
  BY <1>1, ListingSees, ReadingSees, WritingSees, RemovingSees DEF Step

(***************************************************************************)
(* What a storage call does to the cached keys that it leaves valid        *)
(***************************************************************************)

(* What is cached for a version depends on the file of that version, what  *)
(* is cached as the latest on all files of the name.                       *)
LEMMA AgreementDepends ==
  ASSUME NEW n \in Names, NEW v \in 0 .. MaxVersion, NEW e, NEW fs, NEW gs,
         Agrees(fs, n, v, e),
         v = 0 => CompleteIn(gs, n) = CompleteIn(fs, n),
         v # 0 => (v \in CompleteIn(gs, n) <=> v \in CompleteIn(fs, n)),
         \A w \in Versions : v \in {0, w} /\ fs[<<n, w>>] \in Contents =>
           gs[<<n, w>>] = fs[<<n, w>>]
  PROVE  Agrees(gs, n, v, e)
<1>1. e = Absent =>
        IF v = 0 THEN CompleteIn(gs, n) = {} ELSE v \notin CompleteIn(gs, n)
  BY DEF Agrees
<1>2. ASSUME e \in Entities
      PROVE  /\ e.name = n
             /\ IF v = 0 THEN \A w \in CompleteIn(gs, n) : w <= e.version ELSE e.version = v
             /\ gs[<<n, e.version>>] = e.content
  BY <1>2 DEF Agrees, Entities
<1> QED
  BY <1>1, <1>2 DEF Agrees

(* Before a storage call nothing is stale, unless a delete is removing.    *)
LEMMA FreshBeforeStep ==
  ASSUME OneAtATime, SInv, NEW t \in Threads, pc[t] \notin {"idle", "done", "remove", "unlink"},
         \A n \in Names, v \in 0 .. MaxVersion : CachedOK(n, v)
  PROVE  \A n \in Names, v \in 0 .. MaxVersion : Agrees(files, n, v, cache[CacheKey[<<n, v>>]])
<1>1. stage[t] \in {"last", "repository"}
  BY DEF SInv, CallOK, InRepository
<1>2. ASSUME NEW n \in Names, NEW v \in 0 .. MaxVersion
      PROVE  \A u \in Threads : ~ Stale(u, n, v)
  <2>1. ~ Stale(t, n, v)
    BY <1>1 DEF Stale, HasEnded
  <2> QED
    BY <2>1 DEF OneAtATime
<1> QED
  BY <1>2 DEF CachedOK

(* A request that writes or removes is the delegate's own call.            *)
LEMMA ChangingCall ==
  ASSUME SInv, NEW t \in Threads, pc[t] # "idle", request[t].op # "read"
  PROVE  stage[t] = "repository" /\ request[t] = call[t]
  BY DEF SInv, CallOK, InRepository

(* A delete leaves everything stale from its first removal on.             *)
LEMMA RemovalMakesStale ==
  ASSUME "io" \notin Faults, SInv, NEW t \in Threads, Sees(t), UNCHANGED serviceVars,
         DeleteListed(t) \/ DeleteVersion(t) \/ LookForObject(t) \/ DeleteObject(t),
         NEW n, NEW v
  PROVE  Stale(t, n, v)'
<1> USE DEF SInv, ServiceTypeOK
<1>1. /\ pc[t] \in {"remove", "unlink"} /\ request[t].op \in {"delete", "deleteVersion"}
      /\ pc \in [Threads -> Labels] /\ reply \in [Threads -> Outcomes]
  BY DEF DeleteListed, DeleteVersion, LookForObject, DeleteObject, RequestOK, Removing,
         TypeOK, Sees, SeesToRead
<1>2. pc'[t] \in {"remove", "unlink"} \/ (pc'[t] = "done" /\ reply'[t] = "ok")
  <2>1. CASE DeleteListed(t)
    BY <1>1, <2>1 DEF DeleteListed, Goto, Answer, OutcomesOf
  <2>2. CASE DeleteVersion(t)
    BY <1>1, <2>2 DEF DeleteVersion, Answer, Sees, SeesToRead
  <2>3. CASE LookForObject(t)
    BY <1>1, <2>3 DEF LookForObject, Goto, Sees, SeesToRead
  <2>4. CASE DeleteObject(t)
    BY <1>1, <2>4 DEF DeleteObject, Answer, OutcomesOf
  <2> QED
    BY <2>1, <2>2, <2>3, <2>4
<1>3. stage[t] = "repository" /\ request[t] = call[t]
  BY <1>1, ChangingCall
<1> QED
  BY <1>1, <1>2, <1>3 DEF Stale, HasEnded, serviceVars

(* A write that takes effect leaves the latest and its own version stale,  *)
(* and what is cached for others valid.                                    *)
LEMMA WriteKeepsOthers ==
  ASSUME SInv, NEW t \in Threads, Sees(t), UNCHANGED serviceVars,
         "io" \notin Faults, FillFile(t) \/ PutObject(t),
         NEW n \in Names, NEW v \in 0 .. MaxVersion, NEW e, Agrees(files, n, v, e),
         ~ Stale(t, n, v)'
  PROVE  Agrees(files', n, v, e)
<1> USE DEF SInv, ServiceTypeOK
<1> DEFINE r == request[t]
<1>1. /\ pc[t] \in {"fill", "put"} /\ r.op \in {"create", "update"}
      /\ pc \in [Threads -> Labels] /\ reply \in [Threads -> Outcomes]
      /\ WriteTarget(t) = <<r.name, r.version>>
  BY DEF FillFile, PutObject, RequestOK, Writing, TypeOK, WriteTarget
<1>2. r.name \in Names /\ r.version \in Versions /\ r.content \in Contents
  BY <1>1, RequestFields DEF RequestOK
<1>3. /\ pc'[t] = "done" /\ reply'[t] = "ok"
      /\ files' = [files EXCEPT ![<<r.name, r.version>>] = r.content]
  <2>1. CASE FillFile(t)
    <3>1. files[<<r.name, r.version>>] = t
      BY <1>1, <2>1 DEF FillFile, Sees, SeesToWrite
    <3> QED
      BY <1>1, <2>1, <3>1 DEF FillFile, Answer
  <2>2. CASE PutObject(t)
    BY <1>1, <2>2 DEF PutObject, Answer, OutcomesOf
  <2> QED
    BY <2>1, <2>2
<1>4. stage[t] = "repository" /\ r = call[t]
  BY <1>1, ChangingCall
<1>5. ~ (n = r.name /\ v \in {0, r.version})
  BY <1>1, <1>3, <1>4 DEF Stale, HasEnded, serviceVars
<1>6. \A f \in Files : f # <<r.name, r.version>> => files'[f] = files[f]
  BY <1>2, <1>3, WriteCompletes DEF FileStates
<1>7. ASSUME NEW w \in Versions, v \in {0, w} PROVE files'[<<n, w>>] = files[<<n, w>>]
  BY <1>5, <1>6, <1>7 DEF Files
<1>8. /\ v = 0 => CompleteIn(files', n) = CompleteIn(files, n)
      /\ v # 0 => (v \in CompleteIn(files', n) <=> v \in CompleteIn(files, n))
  BY <1>7 DEF CompleteIn
<1> QED
  BY <1>7, <1>8, AgreementDepends

LEMMA StepCohInv ==
  ASSUME OneAtATime, OnePage, NoPrefixes, "io" \notin Faults,
         CohInv, NEW t \in Threads, Step(t), UNCHANGED serviceVars
  PROVE  /\ Sees(t)' /\ HoldsTruth(t)'
         /\ \A n \in Names, v \in 0 .. MaxVersion : CachedOK(n, v)'
<1>1. SInv /\ Sees(t) /\ HoldsTruth(t)
  BY DEF CohInv
<1>2. Sees(t)'
  BY <1>1, StepSees
<1>3. HoldsTruth(t)'
  <2>1. stage[t] \in {"last", "repository"} /\ request' = request
    BY <1>1, SInvIInv, StepMoves DEF SInv, CallOK, InRepository
  <2> QED
    BY <1>1, <2>1 DEF HoldsTruth, serviceVars
<1>4. ASSUME NEW n \in Names, NEW v \in 0 .. MaxVersion, ~ Stale(t, n, v)'
      PROVE  Agrees(files', n, v, cache[CacheKey[<<n, v>>]])
  <2>1. pc[t] \notin {"idle", "done"}
    <3>1. pc[t] # "idle"
      BY <1>1, SInvIInv, StepMoves
    <3>2. pc[t] # "done"
      BY DEF Step, CheckName, NothingListed, ListVersions, PickLatest, ReadMissing,
             SeeFile, ReadUnreadable, ReadComplete, WriteConflict, CreateNewFile,
             FillFile, SeeNoObject, PutObject, ListForDelete, DeleteListed, DeleteVersion,
             LookForObject, DeleteObject, IOFailure, StorageCalls
    <3> QED
      BY <3>1, <3>2
  <2>2. ~ DeleteListed(t) /\ ~ DeleteVersion(t) /\ ~ LookForObject(t) /\ ~ DeleteObject(t)
    BY <1>1, <1>4, RemovalMakesStale
  <2>3. pc[t] \notin {"remove", "unlink"}
    BY <1>1, <2>2
    DEF Step, CheckName, NothingListed, ListVersions, PickLatest, ReadMissing,
        SeeFile, ReadUnreadable, ReadComplete, WriteConflict, CreateNewFile,
        FillFile, SeeNoObject, PutObject, ListForDelete, IOFailure
  <2>4. Agrees(files, n, v, cache[CacheKey[<<n, v>>]])
    BY <1>1, <2>1, <2>3, FreshBeforeStep DEF CohInv
  <2>5. CASE FillFile(t) \/ PutObject(t)
    BY <1>1, <1>4, <2>4, <2>5, WriteKeepsOthers
  <2>6. CASE CreateNewFile(t)
    <3>1. WriteTarget(t) \in Files /\ t \notin Contents
      BY <1>1, <2>6, RequestFields, ConstantsAssumption
      DEF CreateNewFile, SInv, RequestOK, Writing, WriteTarget, Files
    <3>2. /\ files' = [files EXCEPT ![WriteTarget(t)] = t]
          /\ files[WriteTarget(t)] \notin Contents
          /\ files \in [Files -> FileStates]
      BY <1>1, <2>6, ConstantsAssumption DEF CreateNewFile, SInv, ServiceTypeOK, TypeOK
    <3>3. \A f \in Files : /\ files'[f] \in Contents <=> files[f] \in Contents
                           /\ files[f] \in Contents => files'[f] = files[f]
      BY <3>1, <3>2
    <3>4. ASSUME NEW w \in Versions
          PROVE  /\ files'[<<n, w>>] \in Contents <=> files[<<n, w>>] \in Contents
                 /\ files[<<n, w>>] \in Contents => files'[<<n, w>>] = files[<<n, w>>]
      BY <3>3 DEF Files
    <3>5. CompleteIn(files', n) = CompleteIn(files, n)
      BY <3>4 DEF CompleteIn
    <3> QED
      BY <2>4, <3>4, <3>5, AgreementDepends
  <2>7. CASE UNCHANGED files
    BY <2>4, <2>7
  <2> QED
    BY <2>2, <2>5, <2>6, <2>7
    DEF Step, CheckName, NothingListed, ListVersions, PickLatest, ReadMissing,
        SeeFile, ReadUnreadable, ReadComplete, WriteConflict, SeeNoObject,
        ListForDelete, IOFailure
<1>5. ASSUME NEW n \in Names, NEW v \in 0 .. MaxVersion PROVE CachedOK(n, v)'
  <2>1. ~ Stale(t, n, v)' => Agrees(files', n, v, cache'[CacheKey[<<n, v>>]])
    BY <1>4 DEF serviceVars
  <2> QED
    BY <2>1 DEF CachedOK
<1> QED
  BY <1>2, <1>3, <1>5

(***************************************************************************)
(* What the delegate does outside of the repository                        *)
(***************************************************************************)

LEMMA NoEntryAgrees ==
  ASSUME NEW fs, NEW n, NEW v
  PROVE  Agrees(fs, n, v, NoEntry)
  BY NotEntitiesAssumption DEF Agrees, Optional

(* A step that changes no file: every key it leaves valid was valid and is *)
(* kept, or is given what agrees with the files.                           *)
LEMMA CachedOKKept ==
  ASSUME OneAtATime, CohInv, NEW t \in Threads, UNCHANGED files,
         \A n \in Names, v \in 0 .. MaxVersion :
           ~ Stale(t, n, v)' =>
             LET k == CacheKey[<<n, v>>]
             IN  \/ ~ Stale(t, n, v) /\ cache'[k] = cache[k]
                 \/ Agrees(files, n, v, cache'[k])
  PROVE  \A n \in Names, v \in 0 .. MaxVersion : CachedOK(n, v)'
<1> SUFFICES ASSUME NEW n \in Names, NEW v \in 0 .. MaxVersion, ~ Stale(t, n, v)'
             PROVE  Agrees(files', n, v, cache'[CacheKey[<<n, v>>]])
  BY DEF CachedOK
<1>1. ~ Stale(t, n, v) => Agrees(files, n, v, cache[CacheKey[<<n, v>>]])
  BY DEF CohInv, CachedOK, OneAtATime
<1> QED
  BY <1>1

(* A repository call that begins has seen nothing of the files yet.        *)
LEMMA InvokeSees ==
  ASSUME SInv, NEW t \in Threads, NEW r \in Requests, Invoke(t, r),
         r.op = "update" => IsNewVersion(r)
  PROVE  /\ Sees(t)' /\ files' = files /\ request'[t] = r
         /\ pc'[t] \in {"exists", "list", "listAll", "read"}
<1>1. r.op \in {"create", "update", "readVersion", "deleteVersion", "read",
               "versions", "delete"}
  BY RequestFields
<1>2. /\ FirstCall(r.op) \in {"exists", "list", "listAll", "read"}
      /\ FirstCall(r.op) = "read" => r.op \in {"readVersion", "deleteVersion"}
  BY <1>1 DEF FirstCall
<1>3. pc'[t] = FirstCall(r.op) /\ request'[t] = r /\ files' = files
  BY DEF Invoke, SInv, ServiceTypeOK, TypeOK
<1> QED
  BY <1>2, <1>3 DEF Sees, SeesToRead, SeesToWrite, HasWritten, HasRead, IsNewVersion

LEMMA IdleSees ==
  ASSUME NEW t \in Threads, pc'[t] = "idle"
  PROVE  Sees(t)'
  BY DEF Sees, SeesToRead, SeesToWrite, HasWritten, HasRead

LEMMA ReceiveCohInv ==
  ASSUME OneAtATime, CohInv, NEW t \in Threads, NEW r \in Requests, Receive(t, r)
  PROVE  CohInv'
<1> USE DEF SInv, ServiceTypeOK
<1>1. SInv /\ SInv' /\ CallOK
  BY ReceiveSInv DEF CohInv
<1>2. stage[t] = "idle" /\ pc[t] = "idle"
  BY <1>1 DEF Receive, CallRepository, ReadLast, ReadCached, ReadUncached, Begin,
              CallOK, InRepository
<1>3. /\ \E label \in {"repository", "last", "done"} : stage'[t] = label
      /\ call'[t] = r /\ UNCHANGED <<files, cache>>
  BY <1>1 DEF Receive, CallRepository, ReadLast, ReadCached, ReadUncached, Begin,
              vars, Invoke
<1>4. Sees(t)' /\ HoldsTruth(t)'
  <2>1. CASE CallRepository(t, r) \/ ReadUncached(t, r)
    <3>1. Invoke(t, r) /\ r.op # "update" /\ stage'[t] = "repository"
      BY <1>1, <2>1 DEF CallRepository, ReadUncached, Begin
    <3> QED
      BY <1>1, <3>1, InvokeSees DEF HoldsTruth
  <2>2. CASE ReadLast(t, r)
    <3> DEFINE q == [op |-> "read", name |-> r.name, version |-> 0, content |-> Absent]
    <3>1. Invoke(t, q) /\ q \in Requests /\ q.op # "update" /\ stage'[t] = "last"
      BY <1>1, <2>2, ReadLastRequest DEF ReadLast, Begin
    <3>2. Sees(t)' /\ request'[t] = q
      BY <1>1, <3>1, InvokeSees
    <3> QED
      BY <1>3, <3>1, <3>2 DEF HoldsTruth
  <2>3. CASE ReadCached(t, r)
    <3>1. pc'[t] = "idle" /\ stage'[t] = "done"
      BY <1>1, <1>2, <2>3 DEF ReadCached, Begin, vars
    <3> QED
      BY <3>1, IdleSees DEF HoldsTruth
  <2> QED
    BY <2>1, <2>2, <2>3 DEF Receive
<1>5. \A n \in Names, v \in 0 .. MaxVersion : ~ Stale(t, n, v)
  BY <1>2 DEF Stale
<1>6. \A n \in Names, v \in 0 .. MaxVersion : CachedOK(n, v)'
  BY <1>3, <1>5, CachedOKKept
<1> QED
  BY <1>1, <1>4, <1>6 DEF CohInv, OneAtATime

(* An update that goes on is of a name that exists, to a higher version.   *)
LEMMA CompareVersionsCohInv ==
  ASSUME OneAtATime, CohInv, NEW t \in Threads, CompareVersions(t)
  PROVE  CohInv'
<1> USE DEF SInv, ServiceTypeOK
<1>1. /\ SInv /\ SInv' /\ Sees(t) /\ HoldsTruth(t)
      /\ stage[t] = "last" /\ Return(t) /\ UNCHANGED <<files, cache>> /\ pc[t] = "done"
      /\ request[t] \in Requests /\ request[t].op = "read" /\ call[t].op = "update"
      /\ call[t] \in Requests
  BY CompareVersionsSInv DEF CohInv, CompareVersions, Return, CallOK, RequestOK
<1>2. /\ pc'[t] = "idle" /\ call' = call
      /\ \/ stage'[t] = "done"
         \/ stage'[t] = "update" /\ reply[t] = "ok" /\ call[t].version > latest[t]
  <2>1. call[t].version \in Nat /\ latest[t] \in Nat
    BY <1>1, RequestFields, ConstantsAssumption DEF TypeOK
  <2>2. CASE reply[t] = "ok" /\ call[t].version > latest[t]
    <3>1. ~ (call[t].version <= latest[t])
      BY <2>1, <2>2
    <3>2. GotoStage(t, "update", result[t])
      BY <2>2, <3>1 DEF CompareVersions
    <3> QED
      BY <1>1, <2>2, <3>2 DEF GotoStage, Return, TypeOK
  <2>3. CASE reply[t] = "ok" /\ ~ (call[t].version > latest[t])
    <3>1. call[t].version <= latest[t]
      BY <2>1, <2>3
    <3>2. Finish(t, "conflict", Absent)
      BY <2>3, <3>1 DEF CompareVersions
    <3> QED
      BY <1>1, <3>2 DEF Finish, Return, TypeOK
  <2>4. CASE reply[t] # "ok"
    <3>1. Finish(t, reply[t], Absent)
      BY <2>4 DEF CompareVersions
    <3> QED
      BY <1>1, <3>1 DEF Finish, Return, TypeOK
  <2> QED
    BY <2>2, <2>3, <2>4
<1>3. Sees(t)'
  BY <1>2, IdleSees
<1>4. HoldsTruth(t)'
  <2>1. CASE stage'[t] = "done"
    BY <2>1 DEF HoldsTruth
  <2>2. CASE stage'[t] = "update" /\ reply[t] = "ok" /\ call[t].version > latest[t]
    <3>1. /\ request[t].name = call[t].name /\ request[t].version = 0
          /\ call[t].name \in Names
      BY <1>1, RequestFields DEF HoldsTruth
    <3>2. ReadTarget(t) = <<call[t].name, latest[t]>>
      BY <3>1 DEF ReadTarget
    <3>3. /\ files[<<call[t].name, latest[t]>>] \in Contents /\ latest[t] \in Versions
          /\ IsHighest(files, call[t].name, latest[t])
      BY <1>1, <2>2, <3>1, <3>2 DEF Sees, HasRead, KnowledgeOK, ReadingOps
    <3>4. IsNewVersion(call[t])
      <4>1. latest[t] \in CompleteIn(files, call[t].name)
        BY <3>3 DEF CompleteIn
      <4>2. ASSUME NEW w \in CompleteIn(files, call[t].name) PROVE w < call[t].version
        <5>1. w <= latest[t] /\ w \in Nat /\ latest[t] \in Nat /\ call[t].version \in Nat
          BY <1>1, <3>3, RequestFields, ConstantsAssumption
          DEF IsHighest, CompleteIn, Versions
        <5> QED
          BY <2>2, <5>1
      <4> QED
        BY <4>1, <4>2 DEF IsNewVersion
    <3> QED
      BY <1>1, <1>2, <2>2, <3>4 DEF HoldsTruth, IsNewVersion
  <2> QED
    BY <1>2, <2>1, <2>2
<1>5. \A n \in Names, v \in 0 .. MaxVersion : ~ Stale(t, n, v)
  BY <1>1 DEF Stale
<1>6. \A n \in Names, v \in 0 .. MaxVersion : CachedOK(n, v)'
  BY <1>1, <1>5, CachedOKKept
<1> QED
  BY <1>1, <1>3, <1>4, <1>6 DEF CohInv, OneAtATime

LEMMA CallUpdateCohInv ==
  ASSUME OneAtATime, CohInv, NEW t \in Threads, CallUpdate(t)
  PROVE  CohInv'
<1> USE DEF SInv, ServiceTypeOK
<1>1. SInv /\ HoldsTruth(t) /\ call[t] \in Requests /\ stage[t] = "update"
  BY DEF CohInv, CallUpdate, CallOK
<1>2. SInv'
  BY <1>1, ProgressSInv DEF Progress
<1>3. Invoke(t, call[t]) /\ IsNewVersion(call[t]) /\ stage'[t] = "repository" /\ cache' = cache
  BY <1>1 DEF CallUpdate, GotoStage, HoldsTruth
<1>4. Sees(t)' /\ files' = files
  BY <1>1, <1>3, InvokeSees
<1>5. HoldsTruth(t)'
  BY <1>3 DEF HoldsTruth
<1>6. \A n \in Names, v \in 0 .. MaxVersion : ~ Stale(t, n, v)
  BY <1>1 DEF Stale
<1>7. \A n \in Names, v \in 0 .. MaxVersion : CachedOK(n, v)'
  BY <1>3, <1>4, <1>6, CachedOKKept
<1> QED
  BY <1>2, <1>4, <1>5, <1>7 DEF CohInv, OneAtATime

(* What a repository call returned agrees with the files.                  *)
LEMMA ReturnedAgrees ==
  ASSUME SInv, NEW t \in Threads, Sees(t), stage[t] = "repository", pc[t] = "done",
         reply[t] \in {"ok", "absent"}
  PROVE  /\ call[t].op \in {"create", "update", "read", "readVersion"} =>
              Agrees(files, call[t].name, call[t].version, Returned(t))
         /\ call[t].op \in {"create", "update"} =>
              /\ reply[t] = "ok"
              /\ Agrees(files, call[t].name, 0, Returned(t))
<1> DEFINE r == call[t]
<1>1. r \in Requests /\ request[t] = r /\ r.name \in Names /\ KnowledgeOK
  BY RequestFields DEF SInv, CallOK
<1>2. CASE r.op \in {"create", "update"}
  <2>1. reply[t] = "ok" /\ Returned(t) = EntityOf(r)
    BY <1>1, <1>2 DEF Sees, HasWritten, Returned
  <2>2. /\ r.version \in Versions /\ r.version # 0
        /\ Returned(t) = [name |-> r.name, version |-> r.version, content |-> r.content]
        /\ Returned(t) # Absent
    <3>1. r.version \in Versions /\ EntityOf(r) \in Entities
      BY <1>1, <1>2, RequestFields DEF EntityOf, Entities
    <3> QED
      BY <2>1, <3>1, NotEntitiesAssumption DEF EntityOf, Versions
  <2>3. files[<<r.name, r.version>>] = r.content /\ IsHighest(files, r.name, r.version)
    BY <1>1, <1>2, <2>1 DEF Sees, HasWritten, WriteTarget
  <2> QED
    BY <1>2, <2>1, <2>2, <2>3 DEF Agrees, IsHighest
<1>3. CASE r.op \in {"read", "readVersion"}
  <2>1. /\ r.op = "read" => r.version = 0 /\ ReadTarget(t) = <<r.name, latest[t]>>
        /\ r.op = "readVersion" =>
             /\ r.version \in Versions /\ r.version # 0
             /\ ReadTarget(t) = <<r.name, r.version>>
    BY <1>1 DEF Requests, WriteRequests, PointRequests, NameRequests, ReadTarget, Versions
  <2>2. CASE reply[t] = "absent"
    <3>1. Returned(t) = Absent
      BY <2>2 DEF Returned
    <3>2. /\ r.op = "read" => CompleteIn(files, r.name) = {}
          /\ r.op = "readVersion" => r.version \notin CompleteIn(files, r.name)
      BY <1>1, <2>1, <2>2 DEF Sees, HasRead, CompleteIn
    <3> QED
      BY <1>3, <2>1, <3>1, <3>2, NotEntitiesAssumption DEF Agrees
  <2>3. CASE reply[t] = "ok"
    <3>1. /\ ReadTarget(t)[2] \in Versions /\ found[t] \in Contents
          /\ files[ReadTarget(t)] = found[t]
          /\ r.op = "read" => IsHighest(files, r.name, latest[t])
      BY <1>1, <1>3, <2>3 DEF KnowledgeOK, ReadingOps, Sees, HasRead
    <3>2. Returned(t) = [name |-> r.name, version |-> ReadTarget(t)[2], content |-> found[t]]
      BY <1>3, <2>3 DEF Returned
    <3>3. Returned(t) # Absent
      BY <1>1, <3>1, <3>2, NotEntitiesAssumption DEF Entities
    <3> QED
      BY <1>3, <2>1, <3>1, <3>2, <3>3 DEF Agrees, IsHighest
  <2> QED
    BY <2>2, <2>3
<1> QED
  BY <1>2, <1>3

LEMMA EndRepositoryCallCohInv ==
  ASSUME OneAtATime, CohInv, NEW t \in Threads, EndRepositoryCall(t)
  PROVE  CohInv'
<1> USE DEF SInv, ServiceTypeOK
<1>1. /\ SInv /\ SInv' /\ Sees(t)
      /\ stage[t] = "repository" /\ Return(t) /\ UNCHANGED <<files, cache>> /\ pc[t] = "done"
      /\ call[t] \in Requests
  BY EndRepositoryCallSInv DEF CohInv, EndRepositoryCall, Return, CallOK
<1>2. pc'[t] = "idle"
  BY <1>1 DEF Return, TypeOK
<1>3. Sees(t)'
  BY <1>2, IdleSees
<1>4. CASE reply[t] \in {"ok", "absent"} /\ call[t].op # "versions"
  <2>1. GotoStage(t, AfterCall(call[t].op), Returned(t))
    BY <1>4 DEF EndRepositoryCall
  <2>2. /\ stage'[t] = AfterCall(call[t].op) /\ result'[t] = Returned(t)
        /\ call' = call
    BY <1>1, <2>1 DEF GotoStage
  <2>3. HoldsTruth(t)'
    BY <1>1, <1>4, <2>2, AfterCallStage, ReturnedAgrees DEF HoldsTruth
  <2>4. ASSUME NEW n \in Names, NEW v \in 0 .. MaxVersion, Stale(t, n, v)
        PROVE  Stale(t, n, v)'
    <3>1. CASE call[t].op \in {"delete", "deleteVersion"}
      <4>1. stage'[t] = "evict"
        BY <2>2, <3>1 DEF AfterCall
      <4> QED
        BY <4>1 DEF Stale
    <3>2. CASE call[t].op \in {"create", "update"}
      <4>1. stage'[t] = "putLatest"
        BY <2>2, <3>2 DEF AfterCall
      <4> QED
        BY <1>1, <2>2, <2>4, <3>2, <4>1 DEF Stale
    <3>3. CASE call[t].op \notin {"create", "update", "delete", "deleteVersion"}
      BY <1>1, <2>4, <3>3 DEF Stale
    <3> QED
      BY <3>1, <3>2, <3>3
  <2>5. \A n \in Names, v \in 0 .. MaxVersion : CachedOK(n, v)'
    BY <1>1, <2>4, CachedOKKept
  <2> QED
    BY <1>1, <1>3, <2>3, <2>5 DEF CohInv, OneAtATime
<1>5. CASE ~ (reply[t] \in {"ok", "absent"} /\ call[t].op # "versions")
  <2>1. stage'[t] = "done"
    BY <1>1, <1>5 DEF EndRepositoryCall, Finish
  <2>2. HoldsTruth(t)'
    BY <2>1 DEF HoldsTruth
  <2>3. \A n \in Names, v \in 0 .. MaxVersion : ~ Stale(t, n, v)
    BY <1>1, <1>5 DEF Stale, HasEnded
  <2>4. \A n \in Names, v \in 0 .. MaxVersion : CachedOK(n, v)'
    BY <1>1, <2>3, CachedOKKept
  <2> QED
    BY <1>1, <1>3, <2>2, <2>4 DEF CohInv, OneAtATime
<1> QED
  BY <1>4, <1>5

(***************************************************************************)
(* What the delegate does to the cache                                     *)
(***************************************************************************)

LEMMA CacheStepCohInv ==
  ASSUME OneAtATime, DistinctCacheKeys, EvictAll, CohInv, NEW t \in Threads,
         PutLatest(t) \/ PutVersion(t) \/ PutRead(t) \/ Evict(t)
  PROVE  CohInv'
<1> USE DEF SInv, ServiceTypeOK
<1> DEFINE r == call[t]
<1>1. /\ SInv /\ HoldsTruth(t)
      /\ stage[t] \in {"putLatest", "putVersion", "putRead", "evict"}
      /\ UNCHANGED vars /\ r \in Requests /\ pc[t] = "idle"
      /\ cache \in [Keys -> Optional \cup {NoEntry}]
  BY DEF CohInv, PutLatest, PutVersion, PutRead, Evict, CallOK, InRepository
<1>2. SInv'
  BY <1>1, CacheStepSInv
<1>3. /\ call' = call /\ pc'[t] = "idle" /\ files' = files
      /\ r.name \in Names /\ r.version \in 0 .. MaxVersion /\ 0 \in 0 .. MaxVersion
      /\ stage[t] = "putLatest" => stage'[t] = "putVersion" /\ result'[t] = result[t]
      /\ stage[t] # "putLatest" => stage'[t] = "done"
  BY <1>1, RequestFields, ConstantsAssumption
  DEF PutLatest, PutVersion, PutRead, Evict, GotoStage, Finish, vars
<1>4. Sees(t)'
  BY <1>3, IdleSees
<1>5. HoldsTruth(t)'
  BY <1>1, <1>3 DEF HoldsTruth
<1>6. ASSUME NEW n \in Names, NEW v \in 0 .. MaxVersion
      PROVE  CacheKey[<<n, v>>] \in Keys
  BY DEF Keys
<1>7. ASSUME NEW n \in Names, NEW v \in 0 .. MaxVersion, NEW m \in Names,
             NEW w \in 0 .. MaxVersion, <<n, v>> # <<m, w>>
      PROVE  CacheKey[<<n, v>>] # CacheKey[<<m, w>>]
  BY <1>7 DEF DistinctCacheKeys
<1>8. ASSUME NEW n \in Names, NEW v \in 0 .. MaxVersion, ~ Stale(t, n, v)'
      PROVE  \/ ~ Stale(t, n, v) /\ cache'[CacheKey[<<n, v>>]] = cache[CacheKey[<<n, v>>]]
             \/ Agrees(files, n, v, cache'[CacheKey[<<n, v>>]])
  <2>1. CASE PutLatest(t)
    <3>1. /\ stage[t] = "putLatest" /\ LatestKey(r) = CacheKey[<<r.name, 0>>]
          /\ cache' = [cache EXCEPT ![CacheKey[<<r.name, 0>>]] = result[t]]
          /\ ~ (n = r.name /\ v = r.version)
      BY <1>3, <1>8, <2>1 DEF PutLatest, LatestKey, Stale
    <3>2. CASE n = r.name /\ v = 0
      BY <1>1, <1>6, <3>1, <3>2 DEF HoldsTruth
    <3>3. CASE ~ (n = r.name /\ v = 0)
      <4>1. cache'[CacheKey[<<n, v>>]] = cache[CacheKey[<<n, v>>]]
        BY <1>1, <1>3, <1>6, <1>7, <3>1, <3>3
      <4> QED
        BY <3>1, <3>3, <4>1 DEF Stale
    <3> QED
      BY <3>2, <3>3
  <2>2. CASE PutVersion(t) \/ PutRead(t)
    <3>1. /\ stage[t] \in {"putVersion", "putRead"}
          /\ cache' = [cache EXCEPT ![CacheKey[<<r.name, r.version>>]] = result[t]]
      BY <2>2 DEF PutVersion, PutRead, KeyOf
    <3>2. CASE n = r.name /\ v = r.version
      BY <1>1, <1>6, <3>1, <3>2 DEF HoldsTruth
    <3>3. CASE ~ (n = r.name /\ v = r.version)
      <4>1. cache'[CacheKey[<<n, v>>]] = cache[CacheKey[<<n, v>>]]
        BY <1>1, <1>3, <1>6, <1>7, <3>1, <3>3
      <4> QED
        BY <3>1, <3>3, <4>1 DEF Stale
    <3> QED
      BY <3>2, <3>3
  <2>3. CASE Evict(t)
    <3>1. cache'[CacheKey[<<n, v>>]] = NoEntry
      BY <1>6, <2>3 DEF Evict
    <3> QED
      BY <3>1, NoEntryAgrees
  <2> QED
    BY <2>1, <2>2, <2>3
<1>9. \A n \in Names, v \in 0 .. MaxVersion : CachedOK(n, v)'
  BY <1>3, <1>8, CachedOKKept
<1> QED
  BY <1>2, <1>4, <1>5, <1>9 DEF CohInv, OneAtATime

LEMMA RespondCohInv ==
  ASSUME OneAtATime, CohInv, NEW t \in Threads, Respond(t)
  PROVE  CohInv'
<1>1. SInv /\ SInv' /\ stage[t] = "done" /\ pc[t] = "idle"
  BY ProgressSInv DEF CohInv, Progress, Respond, SInv, CallOK, InRepository
<1>2. stage'[t] = "idle" /\ pc'[t] = "idle" /\ UNCHANGED <<files, cache>>
  BY <1>1 DEF Respond, vars, SInv, ServiceTypeOK
<1>3. Sees(t)' /\ HoldsTruth(t)'
  BY <1>2, IdleSees DEF HoldsTruth
<1>4. \A n \in Names, v \in 0 .. MaxVersion : ~ Stale(t, n, v)
  BY <1>1 DEF Stale
<1>5. \A n \in Names, v \in 0 .. MaxVersion : CachedOK(n, v)'
  BY <1>2, <1>4, CachedOKKept
<1> QED
  BY <1>1, <1>3, <1>5 DEF CohInv, OneAtATime

(* An entry that expires, and a server that restarts with an empty cache.  *)
LEMMA ExpireCohInv ==
  ASSUME CohInv, NEW k \in Keys, Expire(k)
  PROVE  CohInv'
<1>1. SInv /\ SInv' /\ UNCHANGED vars /\ UNCHANGED <<stage, call, result>>
  BY NextSInv DEF CohInv, Expire, ServiceNext
<1>2. ASSUME NEW t \in Threads PROVE Sees(t)' /\ HoldsTruth(t)'
  BY <1>1 DEF CohInv, vars, Sees, SeesToRead, SeesToWrite, HasWritten, HasRead, HoldsTruth,
              IsNewVersion, ReadTarget, WriteTarget
<1>3. ASSUME NEW n \in Names, NEW v \in 0 .. MaxVersion PROVE CachedOK(n, v)'
  <2>1. cache'[CacheKey[<<n, v>>]] \in {cache[CacheKey[<<n, v>>]], NoEntry}
    BY <1>1 DEF Expire, SInv, ServiceTypeOK, Keys
  <2>2. ASSUME NEW t \in Threads PROVE Stale(t, n, v)' <=> Stale(t, n, v)
    BY <1>1 DEF Stale, HasEnded, vars
  <2> QED
    BY <1>1, <2>1, <2>2, NoEntryAgrees DEF CohInv, CachedOK, vars
<1> QED
  BY <1>1, <1>2, <1>3 DEF CohInv

LEMMA RestartCohInv ==
  ASSUME CohInv, ServiceRestart
  PROVE  CohInv'
<1>1. SInv'
  BY NextSInv DEF CohInv, ServiceNext
<1>2. ASSUME NEW t \in Threads PROVE Sees(t)' /\ HoldsTruth(t)'
  <2>1. pc'[t] = "idle" /\ stage'[t] = "idle"
    BY DEF ServiceRestart, Restart
  <2> QED
    BY <2>1, IdleSees DEF HoldsTruth
<1>3. ASSUME NEW n \in Names, NEW v \in 0 .. MaxVersion PROVE CachedOK(n, v)'
  <2>1. cache'[CacheKey[<<n, v>>]] = NoEntry
    BY DEF ServiceRestart, Keys
  <2> QED
    BY <2>1, NoEntryAgrees DEF CachedOK
<1> QED
  BY <1>1, <1>2, <1>3 DEF CohInv

LEMMA NextCohInv ==
  ASSUME OneAtATime, OnePage, NoPrefixes, DistinctCacheKeys, EvictAll, "io" \notin Faults,
         CohInv, [ServiceNext]_allVars
  PROVE  CohInv'
<1>1. ASSUME NEW t \in Threads, RepositoryStep(t) PROVE CohInv'
  <2>1. Step(t) /\ UNCHANGED serviceVars /\ SInv'
    BY <1>1, ProgressSInv DEF RepositoryStep, CohInv, Progress
  <2>2. /\ Sees(t)' /\ HoldsTruth(t)'
        /\ \A n \in Names, v \in 0 .. MaxVersion : CachedOK(n, v)'
    BY <2>1, StepCohInv
  <2> QED
    BY <2>1, <2>2 DEF CohInv, OneAtATime
<1>2. ASSUME NEW t \in Threads, Progress(t) PROVE CohInv'
  BY <1>1, <1>2, CompareVersionsCohInv, CallUpdateCohInv, EndRepositoryCallCohInv,
     CacheStepCohInv, RespondCohInv DEF Progress
<1>3. CASE UNCHANGED allVars
  <2>1. SInv' /\ UNCHANGED <<vars, serviceVars>>
    BY <1>3, NextSInv DEF CohInv, allVars
  <2>2. ASSUME NEW t \in Threads PROVE Sees(t)' /\ HoldsTruth(t)'
    BY <2>1 DEF CohInv, vars, serviceVars, Sees, SeesToRead, SeesToWrite, HasWritten, HasRead,
                HoldsTruth, IsNewVersion, ReadTarget, WriteTarget
  <2>3. ASSUME NEW n \in Names, NEW v \in 0 .. MaxVersion PROVE CachedOK(n, v)'
    <3>1. ASSUME NEW t \in Threads PROVE Stale(t, n, v)' <=> Stale(t, n, v)
      BY <2>1 DEF Stale, HasEnded, vars, serviceVars
    <3> QED
      BY <2>1, <3>1 DEF CohInv, CachedOK, vars, serviceVars
  <2> QED
    BY <2>1, <2>2, <2>3 DEF CohInv
<1> QED
  BY <1>2, <1>3, ReceiveCohInv, ExpireCohInv, RestartCohInv DEF ServiceNext

LEMMA InitCohInv == ServiceInit => CohInv
<1> SUFFICES ASSUME ServiceInit PROVE CohInv
  OBVIOUS
<1>1. ASSUME NEW t \in Threads PROVE Sees(t) /\ HoldsTruth(t)
  BY DEF ServiceInit, Init, Sees, SeesToRead, SeesToWrite, HasWritten, HasRead, HoldsTruth
<1>2. ASSUME NEW n \in Names, NEW v \in 0 .. MaxVersion PROVE CachedOK(n, v)
  <2>1. cache[CacheKey[<<n, v>>]] = NoEntry
    BY DEF ServiceInit, Keys
  <2> QED
    BY <2>1, NoEntryAgrees DEF CachedOK
<1> QED
  BY <1>1, <1>2, InitSInv DEF CohInv

(* With one request at a time, a delegate that evicts everything on a      *)
(* delete keeps its cache true: between requests a cached entity is        *)
(* stored, the cached latest is the highest complete version, and what is  *)
(* cached as absent is, also after a restart in the middle of a call.      *)
(* Keys must be distinct, names no prefixes of each other, listings        *)
(* complete, and the storage must not fail: a delete that fails half-way   *)
(* evicts nothing (VersionSetBDImpl).                                      *)
THEOREM CacheStaysCoherent ==
  ASSUME OneAtATime, OnePage, NoPrefixes, DistinctCacheKeys, EvictAll, "io" \notin Faults
  PROVE  ServiceSpec => []CacheIsCoherent
<1>1. CohInv => CacheIsCoherent
  <2>1. ASSUME CohInv, \A t \in Threads : stage[t] = "idle",
               NEW n \in Names, NEW v \in 0 .. MaxVersion
        PROVE  Coherent(n, v)
    <3>1. \A t \in Threads : ~ Stale(t, n, v)
      BY <2>1 DEF Stale
    <3>2. Agrees(files, n, v, cache[CacheKey[<<n, v>>]])
      BY <2>1, <3>1 DEF CohInv, CachedOK
    <3> QED
      BY <3>2 DEF Coherent, Agrees, CompleteIn
  <2> QED
    BY <2>1 DEF CacheIsCoherent
<1>2. CohInv /\ [ServiceNext]_allVars => CohInv'
  BY NextCohInv
<1> QED
  BY <1>1, <1>2, InitCohInv, PTL DEF ServiceSpec
=============================================================================
