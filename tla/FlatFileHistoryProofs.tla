------------------------ MODULE FlatFileHistoryProofs ------------------------
(***************************************************************************)
(* What the repository guarantees to its callers, for any number of        *)
(* threads, names, versions and contents: the properties of                *)
(* FlatFileHistory, from what a thread knows in the middle of its call.    *)
(***************************************************************************)
EXTENDS FlatFileHistory, FlatFileRepositoryProofs

(***************************************************************************)
(* What a thread knows at each of its steps                                *)
(***************************************************************************)

Succeeded(t) == pc[t] = "done" /\ reply[t] = "ok"

Kept(t) == {f \in kept[t] : f[1] = request[t].name}

(* A create that has looked for the name knows it is new.                  *)
CreateKnows(t) ==
  request[t].op = "create" /\ (pc[t] \in {"write", "fill", "put"} \/ Succeeded(t)) =>
    Kept(t) = {}

(* A read that has picked a version knows none is higher.                  *)
ReadKnows(t) ==
  request[t].op = "read" /\ (pc[t] \in {"read", "open"} \/ Succeeded(t)) =>
    \A f \in Kept(t) : f[2] <= latest[t]

VersionsKnow(t) ==
  request[t].op = "versions" /\ Succeeded(t) => Kept(t) \subseteq listed[t]

(* A delete has what it has yet to delete on its list.                     *)
DeleteKnows(t) ==
  request[t].op = "delete" =>
    /\ pc[t] \in {"list", "read", "open", "remove"} => Kept(t) \subseteq listed[t]
    /\ Succeeded(t) => Kept(t) = {}

PointKnows(t) ==
  request[t].op = "deleteVersion" /\ Succeeded(t) => WriteTarget(t) \notin kept[t]

Knows(t) ==
  CreateKnows(t) /\ ReadKnows(t) /\ VersionsKnow(t) /\ DeleteKnows(t) /\ PointKnows(t)

HTypeOK ==
  /\ kept \in [Threads -> SUBSET Files]
  /\ removed \in [Threads -> SUBSET Files]
  /\ \A t \in Threads : kept[t] \subseteq Present

HInv == IInv /\ HTypeOK /\ \A t \in Threads : Knows(t)

(***************************************************************************)
(* The history                                                             *)
(***************************************************************************)

LEMMA HTypeInit == HInit => HTypeOK
  BY DEF HInit, HTypeOK

LEMMA HTypeStep ==
  ASSUME HTypeOK, Record
  PROVE  HTypeOK'
<1>1. Present \subseteq Files /\ Present' \subseteq Files
  BY DEF Present
<1> QED
  BY <1>1 DEF HTypeOK, Record

(* In the middle of a call what is kept only shrinks, by what is removed.  *)
LEMMA RecordInCall ==
  ASSUME NEW t \in Threads, Record, pc[t] # "idle", pc'[t] # "idle"
  PROVE  /\ kept'[t] = Present' \cap kept[t]
         /\ removed'[t] = removed[t] \cup (Present \ Present')
  BY DEF Record

(* A call that did not succeed knows nothing.                              *)
LEMMA FailureKnows ==
  ASSUME NEW t \in Threads, pc[t] \in {"idle", "done"}, ~ Succeeded(t)
  PROVE  Knows(t)
  BY DEF Knows, CreateKnows, ReadKnows, VersionsKnow, DeleteKnows, PointKnows

(* What a thread knows stays true while it does nothing.                   *)
LEMMA OthersKnow ==
  ASSUME NEW t \in Threads, Knows(t), kept'[t] \subseteq kept[t],
         pc'[t] = pc[t], request'[t] = request[t], listed'[t] = listed[t],
         latest'[t] = latest[t], reply'[t] = reply[t]
  PROVE  Knows(t)'
<1>1. Kept(t)' \subseteq Kept(t) /\ (Succeeded(t)' <=> Succeeded(t))
  BY DEF Kept, Succeeded
<1>2. CreateKnows(t)' /\ ReadKnows(t)' /\ VersionsKnow(t)' /\ DeleteKnows(t)'
  BY <1>1 DEF Knows, CreateKnows, ReadKnows, VersionsKnow, DeleteKnows
<1>3. PointKnows(t)'
  BY <1>1 DEF Knows, PointKnows, WriteTarget
<1> QED
  BY <1>2, <1>3 DEF Knows

(* A storage call changes its own thread's variables only.                 *)
LEMMA StepIsLocal ==
  ASSUME IInv, NEW t \in Threads, Step(t), NEW u \in Threads \ {t}
  PROVE  /\ pc'[u] = pc[u] /\ request'[u] = request[u] /\ reply'[u] = reply[u]
         /\ listed'[u] = listed[u] /\ latest'[u] = latest[u]
<1>1. (\E label : Goto(t, label)) \/ (\E out : Answer(t, out))
  BY DEF Step, CheckName, NothingListed, ListVersions, PickLatest, ReadMissing,
         SeeFile, ReadUnreadable, ReadComplete, WriteConflict, CreateNewFile,
         FillFile, SeeNoObject, PutObject, ListForDelete, DeleteListed, DeleteVersion,
         LookForObject, DeleteObject, IOFailure
<1>2. listed' = listed \/ \E x : listed' = [listed EXCEPT ![t] = x]
  BY DEF Step, CheckName, NothingListed, ListVersions, PickLatest, ReadMissing,
         SeeFile, ReadUnreadable, ReadComplete, WriteConflict, CreateNewFile,
         FillFile, SeeNoObject, PutObject, ListForDelete, DeleteListed, DeleteVersion,
         LookForObject, DeleteObject, IOFailure
<1>3. latest' = latest \/ \E x : latest' = [latest EXCEPT ![t] = x]
  BY DEF Step, CheckName, NothingListed, ListVersions, PickLatest, ReadMissing,
         SeeFile, ReadUnreadable, ReadComplete, WriteConflict, CreateNewFile,
         FillFile, SeeNoObject, PutObject, ListForDelete, DeleteListed, DeleteVersion,
         LookForObject, DeleteObject, IOFailure
<1> QED
  BY <1>1, <1>2, <1>3 DEF Goto, Answer, IInv, TypeOK

(***************************************************************************)
(* One storage call                                                        *)
(***************************************************************************)

(* What remains kept for the request is listed for its name.               *)
LEMMA KeptIsListed ==
  ASSUME OnePage, IInv, HTypeOK, NEW t \in Threads, pc[t] # "idle"
  PROVE  Kept(t) \subseteq ListedFor(request[t].name)
<1>1. request[t].name \in Names
  BY RequestFields DEF IInv, RequestOK
<1>2. ASSUME NEW f \in Kept(t) PROVE f \in ListedFor(request[t].name)
  <2>1. f \in Files /\ files[f] # Absent /\ f[1] = request[t].name
    BY DEF Kept, HTypeOK, Present
  <2>2. <<f[1], f[1]>> \in StartsWith
    BY <1>1, <2>1, ConstantsAssumption
  <2> QED
    BY <2>1, <2>2, ListingIsComplete
<1> QED
  BY <1>2

LEMMA StepKnows ==
  ASSUME OnePage, HInv, NEW t \in Threads, Step(t), Record
  PROVE  Knows(t)'
<1> USE DEF HInv
<1>1. /\ request' = request
      /\ pc[t] # "idle" /\ pc'[t] # "idle"
      /\ pc \in [Threads -> Labels] /\ pc' \in [Threads -> Labels]
      /\ IInv' /\ HTypeOK'
  BY StepMoves, StepIInv, HTypeStep DEF IInv, TypeOK
<1>2. kept'[t] = Present' \cap kept[t]
  BY <1>1, RecordInCall
<1>3. Kept(t)' = Present' \cap Kept(t)
  BY <1>1, <1>2 DEF Kept
<1>4. Kept(t) \subseteq ListedFor(request[t].name)
  BY <1>1, KeptIsListed
<1>5. ASSUME pc'[t] = "done", reply'[t] # "ok" PROVE Knows(t)'
  BY <1>5 DEF Knows, CreateKnows, ReadKnows, VersionsKnow, DeleteKnows, PointKnows,
              Succeeded
<1>6. Knows(t)
  OBVIOUS
<1>7. CASE CheckName(t)
  <2>1. request[t].op \in {"create", "update"}
    BY <1>7 DEF CheckName, IInv, RequestOK, Writing
  <2>2. CASE ListedFor(request[t].name) # {}
    BY <1>5, <1>7, <2>2 DEF CheckName, Answer, IInv, TypeOK
  <2>3. CASE ListedFor(request[t].name) = {}
    <3>1. Kept(t)' = {}
      BY <1>3, <1>4, <2>3
    <3> QED
      BY <1>1, <2>1, <3>1
      DEF Knows, CreateKnows, ReadKnows, VersionsKnow, DeleteKnows, PointKnows
  <2> QED
    BY <2>2, <2>3
<1>8. CASE \/ NothingListed(t) \/ ReadMissing(t) \/ ReadUnreadable(t)
           \/ WriteConflict(t) \/ IOFailure(t)
  <2>1. \E outcome \in Outcomes \ {"ok"} : Answer(t, outcome)
    BY <1>8 DEF NothingListed, ReadMissing, ReadUnreadable, WriteConflict, IOFailure,
                Outcomes
  <2> QED
    BY <1>5, <2>1 DEF Answer, IInv, TypeOK
<1>9. CASE ListVersions(t)
  <2>1. listed'[t] = ListedFor(request[t].name)
    BY <1>9 DEF ListVersions, IInv, TypeOK
  <2>2. Kept(t)' \subseteq listed'[t]
    BY <1>3, <1>4, <2>1
  <2> QED
    BY <1>1, <1>9, <2>2
    DEF ListVersions, Knows, CreateKnows, ReadKnows, VersionsKnow, DeleteKnows,
        PointKnows
<1>10. CASE PickLatest(t)
  <2>1. PICK f \in ListedFor(request[t].name) :
          /\ \A g \in ListedFor(request[t].name) : g[2] <= f[2]
          /\ latest' = [latest EXCEPT ![t] = f[2]]
    BY <1>10 DEF PickLatest
  <2>2. \A g \in Kept(t)' : g[2] <= latest'[t]
    BY <1>3, <1>4, <2>1 DEF IInv, TypeOK
  <2>3. pc[t] = "list" /\ pc'[t] = "read" /\ listed' = listed
    BY <1>10 DEF PickLatest, Goto, IInv, TypeOK
  <2>4. request[t].op # "create"
    BY <2>3 DEF IInv, RequestOK
  <2>5. DeleteKnows(t)'
    BY <1>1, <1>3, <1>6, <2>3 DEF Knows, DeleteKnows, Succeeded
  <2> QED
    BY <1>1, <2>2, <2>3, <2>4, <2>5
    DEF Knows, CreateKnows, ReadKnows, VersionsKnow, PointKnows, Succeeded
<1>11. CASE SeeFile(t)
  <2>1. /\ pc[t] = "read" /\ pc'[t] = "open"
        /\ UNCHANGED <<listed, latest>>
    BY <1>11 DEF SeeFile, Goto, IInv, TypeOK
  <2> QED
    BY <1>1, <1>3, <1>6, <2>1
    DEF Knows, CreateKnows, ReadKnows, VersionsKnow, DeleteKnows, PointKnows, Succeeded
<1>12. CASE ReadComplete(t)
  <2>1. pc[t] = "open" /\ UNCHANGED <<files, listed, latest>>
    BY <1>12 DEF ReadComplete
  <2>2. request[t].op \notin {"create", "versions"}
    BY <2>1 DEF IInv, RequestOK
  <2>3. CASE request[t].op \in {"read", "readVersion"}
    BY <1>1, <1>3, <1>6, <2>1, <2>3
    DEF Knows, CreateKnows, ReadKnows, VersionsKnow, DeleteKnows, PointKnows
  <2>4. CASE request[t].op \notin {"read", "readVersion"}
    <3>1. pc'[t] = AfterRead(request[t].op)
      BY <1>12, <2>4 DEF ReadComplete, Goto, IInv, TypeOK
    <3> QED
      BY <1>1, <1>3, <1>6, <2>1, <2>2, <2>4, <3>1
      DEF Knows, CreateKnows, ReadKnows, VersionsKnow, DeleteKnows, PointKnows,
          Succeeded, AfterRead
  <2> QED
    BY <2>3, <2>4
<1>13. CASE CreateNewFile(t) \/ FillFile(t) \/ SeeNoObject(t) \/ PutObject(t)
  <2>1. pc[t] \in {"write", "fill", "put"}
    BY <1>13 DEF CreateNewFile, FillFile, SeeNoObject, PutObject
  <2>2. request[t].op \in {"create", "update"}
    BY <2>1 DEF IInv, RequestOK, Writing
  <2>3. request[t].op = "create" => Kept(t)' = {}
    BY <1>3, <1>6, <2>1 DEF Knows, CreateKnows
  <2> QED
    BY <1>1, <2>2, <2>3
    DEF Knows, CreateKnows, ReadKnows, VersionsKnow, DeleteKnows, PointKnows
<1>14. CASE ListForDelete(t)
  <2>1. /\ pc[t] = "listAll"
        /\ listed'[t] = ListedFor(request[t].name)
    BY <1>14 DEF ListForDelete, IInv, TypeOK
  <2>2. request[t].op \in {"delete", "deleteVersion"}
    BY <2>1 DEF IInv, RequestOK, Removing
  <2>3. ~ Succeeded(t)'
    BY <1>14 DEF ListForDelete, Goto, Answer, Succeeded, IInv, TypeOK
  <2> QED
    BY <1>1, <1>3, <1>4, <2>1, <2>2, <2>3
    DEF Knows, CreateKnows, ReadKnows, VersionsKnow, DeleteKnows, PointKnows
<1>15. CASE DeleteListed(t)
  <2>1. PICK f \in listed[t] :
          /\ files' = [files EXCEPT ![f] = Absent]
          /\ listed' = [listed EXCEPT ![t] = @ \ {f}]
          /\ Succeeded(t)' => listed[t] = {f}
    BY <1>15 DEF DeleteListed, Goto, Answer, Succeeded, IInv, TypeOK
  <2>2. f \notin Present'
    BY <2>1 DEF Present, IInv, TypeOK
  <2>3. Kept(t) \subseteq listed[t]
    BY <1>6, <1>15 DEF DeleteListed, Knows, DeleteKnows
  <2>4. Kept(t)' \subseteq listed'[t]
    BY <1>3, <2>1, <2>2, <2>3 DEF IInv, TypeOK
  <2>5. Succeeded(t)' => Kept(t)' = {}
    BY <1>3, <2>1, <2>2, <2>3
  <2> QED
    BY <1>1, <1>15, <2>4, <2>5
    DEF DeleteListed, Knows, CreateKnows, ReadKnows, VersionsKnow, DeleteKnows,
        PointKnows
<1>16. CASE DeleteVersion(t) \/ DeleteObject(t)
  <2>1. /\ files' = [files EXCEPT ![ReadTarget(t)] = Absent]
        /\ request[t].op = "deleteVersion"
    BY <1>16 DEF DeleteVersion, DeleteObject, IInv, RequestOK
  <2>2. ReadTarget(t) = WriteTarget(t)
    <3>1. request[t] \in Requests
      BY <1>1 DEF IInv, RequestOK
    <3>2. request[t].version # 0
      BY <2>1, <3>1, ConstantsAssumption
      DEF Requests, WriteRequests, PointRequests, NameRequests, Versions
    <3> QED
      BY <2>1, <3>2 DEF ReadTarget, WriteTarget
  <2>3. WriteTarget(t)' \notin Present'
    BY <1>1, <2>1, <2>2 DEF Present, WriteTarget, IInv, TypeOK
  <2> QED
    BY <1>1, <1>2, <2>1, <2>3
    DEF Knows, CreateKnows, ReadKnows, VersionsKnow, DeleteKnows, PointKnows
<1>17. CASE LookForObject(t)
  <2>1. request[t].op = "deleteVersion" /\ ~ Succeeded(t)'
    BY <1>17 DEF LookForObject, Goto, Succeeded, IInv, TypeOK
  <2> QED
    BY <1>1, <2>1
    DEF Knows, CreateKnows, ReadKnows, VersionsKnow, DeleteKnows, PointKnows
<1> QED
  BY <1>7, <1>8, <1>9, <1>10, <1>11, <1>12, <1>13, <1>14, <1>15, <1>16, <1>17 DEF Step

(***************************************************************************)
(* Every step                                                              *)
(***************************************************************************)

(* While its variables stay, a thread goes on knowing what it knew.        *)
LEMMA StillKnows ==
  ASSUME NEW t \in Threads, Knows(t), Record,
         pc'[t] = pc[t], request'[t] = request[t], listed'[t] = listed[t],
         latest'[t] = latest[t], reply'[t] = reply[t]
  PROVE  Knows(t)'
<1>1. CASE pc[t] = "idle"
  BY <1>1
  DEF Knows, CreateKnows, ReadKnows, VersionsKnow, DeleteKnows, PointKnows, Succeeded
<1>2. CASE pc[t] # "idle"
  BY <1>2, RecordInCall, OthersKnow
<1> QED
  BY <1>1, <1>2

(* Nobody knows anything before the first storage call of his request.     *)
LEMMA InvokeKnows ==
  ASSUME IInv, NEW t \in Threads, NEW r \in Requests, Invoke(t, r)
  PROVE  Knows(t)'
<1>1. r.op \in {"create", "update", "readVersion", "deleteVersion", "read",
               "versions", "delete"}
  BY RequestFields
<1>2. request'[t] = r /\ pc'[t] = FirstCall(r.op)
  BY DEF Invoke, IInv, TypeOK
<1>3. /\ r.op = "create" => pc'[t] = "exists"
      /\ r.op = "read" => pc'[t] = "list"
      /\ r.op = "delete" => pc'[t] = "listAll"
      /\ pc'[t] # "done"
  BY <1>1, <1>2 DEF FirstCall
<1> QED
  BY <1>2, <1>3
  DEF Knows, CreateKnows, ReadKnows, VersionsKnow, DeleteKnows, PointKnows, Succeeded

LEMMA HInvStep ==
  ASSUME OnePage, HInv, [HNext]_<<vars, history>>
  PROVE  HInv'
<1> USE DEF HInv
<1>1. IInv'
  BY NextIInv DEF HNext
<1>2. CASE UNCHANGED <<vars, history>>
  BY <1>1, <1>2
  DEF vars, history, HTypeOK, Present, Knows, CreateKnows, ReadKnows, VersionsKnow,
      DeleteKnows, PointKnows, Kept, Succeeded, WriteTarget
<1>3. ASSUME Next, Record PROVE HInv'
  <2>1. HTypeOK'
    BY <1>3, HTypeStep
  <2>2. ASSUME NEW t \in Threads, Step(t), NEW u \in Threads PROVE Knows(u)'
    <3>1. CASE u = t
      BY <1>3, <2>2, <3>1, StepKnows
    <3>2. CASE u # t
      BY <1>3, <2>2, <3>2, StepIsLocal, StillKnows
    <3> QED
      BY <3>1, <3>2
  <2>3. ASSUME NEW t \in Threads, NEW r \in Requests, Invoke(t, r),
               NEW u \in Threads
        PROVE  Knows(u)'
    <3>1. CASE u = t
      BY <2>3, <3>1, InvokeKnows
    <3>2. CASE u # t
      BY <1>3, <2>3, <3>2, StillKnows DEF Invoke, IInv, TypeOK
    <3> QED
      BY <3>1, <3>2
  <2>4. ASSUME NEW t \in Threads, Return(t), NEW u \in Threads PROVE Knows(u)'
    <3>1. CASE u = t
      BY <2>4, <3>1
      DEF Return, IInv, TypeOK, Knows, CreateKnows, ReadKnows, VersionsKnow,
          DeleteKnows, PointKnows, Succeeded
    <3>2. CASE u # t
      BY <1>3, <2>4, <3>2, StillKnows DEF Return, IInv, TypeOK
    <3> QED
      BY <3>1, <3>2
  <2>5. ASSUME Restart, NEW u \in Threads PROVE Knows(u)'
    BY <2>5
    DEF Restart, Knows, CreateKnows, ReadKnows, VersionsKnow, DeleteKnows, PointKnows,
        Succeeded
  <2> QED
    BY <1>1, <1>3, <2>1, <2>2, <2>3, <2>4, <2>5 DEF Next
<1> QED
  BY <1>2, <1>3 DEF HNext

LEMMA HInvAlways ==
  ASSUME OnePage
  PROVE  HSpec => []HInv
<1>1. HInit => HInv
  <2> SUFFICES ASSUME HInit PROVE HInv
    OBVIOUS
  <2>1. ASSUME NEW t \in Threads PROVE Knows(t)
    BY <2>1
    DEF HInit, Init, Knows, CreateKnows, ReadKnows, VersionsKnow, DeleteKnows,
        PointKnows, Succeeded
  <2> QED
    BY <2>1, InitIInv, HTypeInit DEF HInit, HInv
<1>2. HInv /\ [HNext]_<<vars, history>> => HInv'
  BY HInvStep
<1> QED
  BY <1>1, <1>2, PTL DEF HSpec

(***************************************************************************)
(* What the caller is told                                                 *)
(***************************************************************************)

(* A read of a name returns a version as high as any that was stored all   *)
(* through the call, and versions leaves none of them out, while a listing *)
(* is complete (BaseFlatFileRepository.readLatestVersion and versions).    *)
THEOREM NoVersionIsMissed ==
  ASSUME OnePage
  PROVE  HSpec => []NoVersionMissed
<1>1. HInv => NoVersionMissed
  BY DEF HInv, Knows, ReadKnows, VersionsKnow, NoVersionMissed, Ended, Succeeded, Kept
<1> QED
  BY <1>1, HInvAlways, PTL

(* A delete that succeeds has deleted all it was asked to, while a listing *)
(* is complete (BaseFlatFileRepository.delete).                            *)
THEOREM DeletesAreComplete ==
  ASSUME OnePage
  PROVE  HSpec => []DeleteIsComplete
<1>1. HInv => DeleteIsComplete
  BY DEF HInv, Knows, DeleteKnows, PointKnows, DeleteIsComplete, Ended, Succeeded, Kept
<1> QED
  BY <1>1, HInvAlways, PTL

(* A create that succeeds has created a name of which nothing was stored   *)
(* all through the call, while a listing is complete                       *)
(* (BaseFlatFileRepository.create).                                        *)
THEOREM CreatesAreNew ==
  ASSUME OnePage
  PROVE  HSpec => []CreateIsNew
<1>1. HInv => CreateIsNew
  BY DEF HInv, Knows, CreateKnows, CreateIsNew, Ended, Succeeded, Kept
<1> QED
  BY <1>1, HInvAlways, PTL

(***************************************************************************)
(* A read that finds nothing                                               *)
(***************************************************************************)

(* The file a read has picked is there, or was removed during the call.    *)
PickedKnows(t) ==
  request[t].op = "read" =>
    /\ pc[t] \in {"read", "open"} =>
         <<request[t].name, latest[t]>> \in Present \cup removed[t]
    /\ pc[t] = "done" /\ reply[t] = "absent" =>
         \/ Kept(t) = {}
         \/ <<request[t].name, latest[t]>> \in removed[t]

PickedInv == HInv /\ \A t \in Threads : PickedKnows(t)

LEMMA StepPicked ==
  ASSUME OnePage, \A p \in StartsWith : p[1] = p[2],
         PickedInv, NEW t \in Threads, Step(t), Record
  PROVE  PickedKnows(t)'
<1> USE DEF PickedInv, HInv
<1> SUFFICES ASSUME request[t].op = "read"
             PROVE  /\ pc'[t] \in {"read", "open"} =>
                         <<request[t].name, latest'[t]>> \in Present' \cup removed'[t]
                    /\ pc'[t] = "done" /\ reply'[t] = "absent" =>
                         \/ Kept(t)' = {}
                         \/ <<request[t].name, latest'[t]>> \in removed'[t]
  BY StepMoves DEF PickedKnows
<1> DEFINE picked == <<request[t].name, latest[t]>>
<1>1. /\ request' = request
      /\ pc[t] # "idle" /\ pc'[t] # "idle"
      /\ pc \in [Threads -> Labels] /\ pc' \in [Threads -> Labels]
  BY StepMoves DEF IInv, TypeOK
<1>2. /\ kept'[t] = Present' \cap kept[t]
      /\ removed'[t] = removed[t] \cup (Present \ Present')
  BY <1>1, RecordInCall
<1>3. Kept(t)' \subseteq ListedFor(request[t].name)
  BY <1>1, <1>2, KeptIsListed DEF Kept
<1>4. pc[t] \notin Writing \cup Removing
  BY DEF IInv, RequestOK
<1>5. CASE NothingListed(t)
  BY <1>3, <1>5 DEF NothingListed, Answer, IInv, TypeOK
<1>6. CASE PickLatest(t)
  <2>1. PICK f \in ListedFor(request[t].name) : latest' = [latest EXCEPT ![t] = f[2]]
    BY <1>6 DEF PickLatest
  <2>2. f \in Files /\ files[f] # Absent /\ <<f[1], request[t].name>> \in StartsWith
    BY DEF ListedFor, FirstPage
  <2>3. f[1] = request[t].name
    <3> DEFINE p == <<f[1], request[t].name>>
    <3>1. p[1] = p[2]
      BY <2>2
    <3> QED
      BY <3>1
  <2>4. <<request[t].name, latest'[t]>> = f
    BY <2>1, <2>2, <2>3 DEF Files, IInv, TypeOK
  <2>5. f \in Present'
    BY <1>6, <2>2 DEF PickLatest, Present
  <2> QED
    BY <1>6, <2>4, <2>5 DEF PickLatest, Goto, IInv, TypeOK
<1>7. CASE ReadMissing(t)
  <2>1. /\ files[ReadTarget(t)] = Absent /\ pc[t] = "read"
        /\ UNCHANGED <<files, latest>> /\ pc'[t] = "done"
    BY <1>7 DEF ReadMissing, Answer, IInv, TypeOK
  <2>2. request[t].version = 0
    BY <1>1 DEF IInv, RequestOK, Requests, WriteRequests, PointRequests, NameRequests
  <2>3. picked \notin Present
    BY <2>1, <2>2 DEF ReadTarget, Present
  <2>4. picked \in removed[t]
    BY <2>1, <2>3 DEF PickedKnows
  <2> QED
    BY <1>2, <2>1, <2>4
<1>8. CASE SeeFile(t)
  BY <1>2, <1>8 DEF SeeFile, Goto, PickedKnows, IInv, TypeOK
<1>9. CASE ReadComplete(t) \/ ReadUnreadable(t) \/ ListVersions(t) \/ IOFailure(t)
  <2>1. Answer(t, "ok") \/ Answer(t, "error") \/ Answer(t, "conflict")
    BY <1>9 DEF ReadComplete, ReadUnreadable, ListVersions, IOFailure
  <2> QED
    BY <2>1 DEF Answer, IInv, TypeOK
<1> QED
  BY <1>4, <1>5, <1>6, <1>7, <1>8, <1>9
  DEF Step, CheckName, WriteConflict, CreateNewFile, FillFile, SeeNoObject, PutObject,
      ListForDelete, DeleteListed, DeleteVersion, LookForObject, DeleteObject,
      Writing, Removing

(* While its variables stay, a thread goes on knowing where its pick went. *)
LEMMA StillPicked ==
  ASSUME NEW t \in Threads, PickedKnows(t), Record,
         pc'[t] = pc[t], request'[t] = request[t], latest'[t] = latest[t],
         reply'[t] = reply[t]
  PROVE  PickedKnows(t)'
<1>1. CASE pc[t] = "idle"
  BY <1>1 DEF PickedKnows
<1>2. CASE pc[t] # "idle"
  <2>1. /\ kept'[t] = Present' \cap kept[t]
        /\ removed'[t] = removed[t] \cup (Present \ Present')
    BY <1>2, RecordInCall
  <2> QED
    BY <2>1 DEF PickedKnows, Kept
<1> QED
  BY <1>1, <1>2

LEMMA PickedStep ==
  ASSUME OnePage, \A p \in StartsWith : p[1] = p[2],
         PickedInv, [HNext]_<<vars, history>>
  PROVE  PickedInv'
<1> USE DEF PickedInv, HInv
<1>1. HInv'
  BY HInvStep
<1>2. CASE UNCHANGED <<vars, history>>
  BY <1>1, <1>2 DEF vars, history, PickedKnows, Kept, Present
<1>3. ASSUME HNext, NEW u \in Threads PROVE PickedKnows(u)'
  <2> USE <1>3 DEF HNext
  <2>1. ASSUME NEW t \in Threads, Step(t) PROVE PickedKnows(u)'
    <3>1. CASE u = t
      BY <2>1, <3>1, StepPicked
    <3>2. CASE u # t
      BY <2>1, <3>2, StepIsLocal, StillPicked
    <3> QED
      BY <3>1, <3>2
  <2>2. ASSUME NEW t \in Threads, NEW r \in Requests, Invoke(t, r)
        PROVE  PickedKnows(u)'
    <3>1. CASE u = t
      <4>1. request'[t] = r /\ pc'[t] = FirstCall(r.op)
        BY <2>2 DEF Invoke, IInv, TypeOK
      <4>2. r.op = "read" => pc'[t] = "list"
        BY <4>1 DEF FirstCall
      <4> QED
        BY <3>1, <4>1, <4>2 DEF PickedKnows
    <3>2. CASE u # t
      BY <2>2, <3>2, StillPicked DEF Invoke, IInv, TypeOK
    <3> QED
      BY <3>1, <3>2
  <2>3. ASSUME NEW t \in Threads, Return(t) PROVE PickedKnows(u)'
    <3>1. CASE u = t
      BY <2>3, <3>1 DEF Return, IInv, TypeOK, PickedKnows
    <3>2. CASE u # t
      BY <2>3, <3>2, StillPicked DEF Return, IInv, TypeOK
    <3> QED
      BY <3>1, <3>2
  <2>4. CASE Restart
    BY <2>4 DEF Restart, PickedKnows
  <2> QED
    BY <2>1, <2>2, <2>3, <2>4 DEF Next
<1> QED
  BY <1>1, <1>2, <1>3

(* If no name is a proper prefix of another and a listing is complete, a   *)
(* read answers that there is nothing only if nothing was stored all       *)
(* through the call or the version it had picked was deleted meanwhile     *)
(* (BaseFlatFileRepository.read).                                          *)
THEOREM AbsentWereRemoved ==
  ASSUME OnePage, \A p \in StartsWith : p[1] = p[2]
  PROVE  HSpec => []AbsentWasRemoved
<1>1. HInit => PickedInv
  <2> SUFFICES ASSUME HInit PROVE PickedInv
    OBVIOUS
  <2>1. ASSUME NEW t \in Threads PROVE Knows(t) /\ PickedKnows(t)
    BY <2>1
    DEF HInit, Init, Knows, CreateKnows, ReadKnows, VersionsKnow, DeleteKnows,
        PointKnows, Succeeded, PickedKnows, NoRequest
  <2> QED
    BY <2>1, InitIInv, HTypeInit DEF HInit, HInv, PickedInv
<1>2. PickedInv /\ [HNext]_<<vars, history>> => PickedInv'
  BY PickedStep
<1>3. PickedInv => AbsentWasRemoved
  BY DEF PickedInv, PickedKnows, AbsentWasRemoved, Ended, Kept
<1> QED
  BY <1>1, <1>2, <1>3, PTL DEF HSpec

(***************************************************************************)
(* A write that succeeds, where no file is written over                    *)
(***************************************************************************)

(* On the local storage the file a thread has created is its own until it  *)
(* has filled it; on both nobody writes to it afterwards.                  *)
WriteKnows(t) ==
  /\ pc[t] = "fill" =>
       files[WriteTarget(t)] = t \/ WriteTarget(t) \in removed[t]
  /\ request[t].op \in {"create", "update"} /\ Succeeded(t) =>
       \/ files[WriteTarget(t)] = request[t].content
       \/ WriteTarget(t) \in removed[t]

WriteInv == IInv /\ \A t \in Threads : WriteKnows(t)

(* On the local storage a step leaves a file alone, removes it, creates it *)
(* where there is none, or fills what its thread has created.              *)
LEMMA FileChange ==
  ASSUME Storage = "local", IInv, NEW t \in Threads, Step(t), NEW f \in Files
  PROVE  \/ files'[f] = files[f]
         \/ files'[f] = Absent
         \/ files[f] = Absent
         \/ files[f] = t
<1>1. ~ PutObject(t) /\ ~ DeleteObject(t)
  BY DEF PutObject, DeleteObject, IInv, TypeOK, Labels
<1>2. CASE CreateNewFile(t) \/ FillFile(t) \/ DeleteListed(t) \/ DeleteVersion(t)
  BY <1>2 DEF CreateNewFile, FillFile, DeleteListed, DeleteVersion, IInv, TypeOK
<1>3. CASE UNCHANGED files
  BY <1>3
<1> QED
  BY <1>1, <1>2, <1>3
  DEF Step, CheckName, NothingListed, ListVersions, PickLatest, ReadMissing, SeeFile,
      ReadUnreadable, ReadComplete, WriteConflict, SeeNoObject, ListForDelete,
      LookForObject, IOFailure

(* What another thread does to a file that is not its own.                 *)
LEMMA StillWritten ==
  ASSUME IInv, NEW t \in Threads, WriteKnows(t), Record,
         pc'[t] = pc[t], request'[t] = request[t], reply'[t] = reply[t],
         \A f \in Files :
           \/ files'[f] = files[f]
           \/ files'[f] = Absent
           \/ files[f] = Absent
           \/ files[f] \in Threads \ {t}
  PROVE  WriteKnows(t)'
<1> SUFFICES ASSUME \/ pc[t] = "fill"
                    \/ request[t].op \in {"create", "update"} /\ Succeeded(t)
             PROVE  WriteKnows(t)'
  BY DEF WriteKnows, Succeeded
<1>1. /\ removed'[t] = removed[t] \cup (Present \ Present')
      /\ WriteTarget(t)' = WriteTarget(t)
  BY RecordInCall DEF Succeeded, WriteTarget
<1>2. request[t].op \in {"create", "update"}
  BY DEF IInv, RequestOK, Writing
<1>3. request[t] \in Requests /\ request[t].content \in Contents
      /\ WriteTarget(t) \in Files
  BY <1>2, RequestFields DEF IInv, RequestOK, Succeeded, WriteTarget, Files
<1>4. files[WriteTarget(t)] \in Contents \cup {t} =>
        \/ files'[WriteTarget(t)] = files[WriteTarget(t)]
        \/ WriteTarget(t) \in Present \ Present'
  BY <1>3, ConstantsAssumption DEF Present
<1> QED
  BY <1>1, <1>2, <1>3, <1>4 DEF WriteKnows, Succeeded

LEMMA StepWrites ==
  ASSUME WriteInv, NEW t \in Threads, Step(t), Record
  PROVE  WriteKnows(t)'
<1> USE DEF WriteInv
<1>1. /\ request' = request
      /\ pc[t] # "idle" /\ pc'[t] # "idle"
      /\ pc \in [Threads -> Labels]
      /\ WriteTarget(t)' = WriteTarget(t)
  BY StepMoves DEF IInv, TypeOK, WriteTarget
<1>2. removed'[t] = removed[t] \cup (Present \ Present')
  BY <1>1, RecordInCall
<1>3. CASE CreateNewFile(t)
  <2>1. request[t].op \in {"create", "update"}
    BY <1>3 DEF CreateNewFile, IInv, RequestOK, Writing
  <2>2. WriteTarget(t) \in Files
    BY <1>1, <2>1, RequestFields DEF IInv, RequestOK, WriteTarget, Files
  <2>3. files'[WriteTarget(t)] = t /\ pc'[t] = "fill"
    BY <1>3, <2>2 DEF CreateNewFile, Goto, IInv, TypeOK
  <2> QED
    BY <1>1, <2>3 DEF WriteKnows, Succeeded
<1>4. CASE FillFile(t)
  <2>1. request[t].op \in {"create", "update"}
    BY <1>4 DEF FillFile, IInv, RequestOK, Writing
  <2>2. WriteTarget(t) \in Files
    BY <1>1, <2>1, RequestFields DEF IInv, RequestOK, WriteTarget, Files
  <2>3. /\ files[WriteTarget(t)] = t =>
             files'[WriteTarget(t)] = request[t].content
        /\ pc[t] = "fill" /\ pc'[t] = "done"
    BY <1>4, <2>2 DEF FillFile, Answer, IInv, TypeOK
  <2> QED
    BY <1>1, <1>2, <2>3 DEF WriteKnows
<1>5. CASE PutObject(t)
  <2>1. request[t].op \in {"create", "update"}
    BY <1>5 DEF PutObject, IInv, RequestOK, Writing
  <2>2. WriteTarget(t) \in Files
    BY <1>1, <2>1, RequestFields DEF IInv, RequestOK, WriteTarget, Files
  <2>3. files'[WriteTarget(t)] = request[t].content /\ pc'[t] = "done"
    BY <1>5, <2>2 DEF PutObject, Answer, IInv, TypeOK
  <2> QED
    BY <1>1, <2>3 DEF WriteKnows
<1>6. CASE \/ CheckName(t) \/ NothingListed(t) \/ ReadMissing(t) \/ ReadUnreadable(t)
           \/ WriteConflict(t) \/ IOFailure(t) \/ SeeNoObject(t)
  <2>1. pc'[t] # "fill" /\ ~ Succeeded(t)'
    BY <1>6
    DEF CheckName, NothingListed, ReadMissing, ReadUnreadable, WriteConflict, IOFailure,
        SeeNoObject, Goto, Answer, Succeeded, IInv, TypeOK
  <2> QED
    BY <2>1 DEF WriteKnows
<1>7. CASE PickLatest(t) \/ SeeFile(t) \/ ListVersions(t) \/ ReadComplete(t)
  <2>1. /\ pc'[t] # "fill"
        /\ Succeeded(t)' => request[t].op \in {"versions", "read", "readVersion"}
    BY <1>7
    DEF PickLatest, SeeFile, ListVersions, ReadComplete, AfterRead, Goto, Answer,
        Succeeded, IInv, TypeOK
  <2> QED
    BY <1>1, <2>1 DEF WriteKnows
<1>8. CASE \/ ListForDelete(t) \/ DeleteListed(t) \/ DeleteVersion(t)
           \/ LookForObject(t) \/ DeleteObject(t)
  <2>1. pc[t] \in Removing
    BY <1>8
    DEF ListForDelete, DeleteListed, DeleteVersion, LookForObject, DeleteObject,
        Removing
  <2>2. request[t].op \in {"delete", "deleteVersion"}
    BY <2>1 DEF IInv, RequestOK
  <2>3. pc'[t] # "fill"
    BY <1>8
    DEF ListForDelete, DeleteListed, DeleteVersion, LookForObject, DeleteObject, Goto,
        Answer, IInv, TypeOK
  <2> QED
    BY <1>1, <2>2, <2>3 DEF WriteKnows
<1> QED
  BY <1>3, <1>4, <1>5, <1>6, <1>7, <1>8 DEF Step

LEMMA WriteStep ==
  ASSUME NoRace, WriteInv, [HNext]_<<vars, history>>
  PROVE  WriteInv'
<1> USE DEF WriteInv
<1>1. IInv'
  BY NextIInv DEF HNext
<1>2. CASE UNCHANGED <<vars, history>>
  BY <1>1, <1>2 DEF vars, history, WriteKnows, Succeeded, WriteTarget
<1>3. ASSUME HNext, NEW u \in Threads PROVE WriteKnows(u)'
  <2> USE <1>3 DEF HNext
  <2>1. ASSUME NEW t \in Threads, Step(t) PROVE WriteKnows(u)'
    <3>1. CASE u = t
      BY <2>1, <3>1, StepWrites
    <3>2. CASE u # t
      <4>0. Storage = "local"
        BY <3>2 DEF NoRace, OneAtATime
      <4>1. \A f \in Files : \/ files'[f] = files[f]
                             \/ files'[f] = Absent
                             \/ files[f] = Absent
                             \/ files[f] \in Threads \ {u}
        BY <2>1, <3>2, <4>0, FileChange
      <4> QED
        BY <2>1, <3>2, <4>1, StepIsLocal, StillWritten
    <3> QED
      BY <3>1, <3>2
  <2>2. ASSUME NEW t \in Threads, NEW r \in Requests, Invoke(t, r)
        PROVE  WriteKnows(u)'
    <3>1. CASE u = t
      <4>1. FirstCall(r.op) \notin {"fill", "done"}
        BY RequestFields DEF FirstCall
      <4> QED
        BY <2>2, <3>1, <4>1 DEF Invoke, IInv, TypeOK, WriteKnows, Succeeded
    <3>2. CASE u # t
      BY <2>2, <3>2, StillWritten DEF Invoke, IInv, TypeOK
    <3> QED
      BY <3>1, <3>2
  <2>3. ASSUME NEW t \in Threads, Return(t) PROVE WriteKnows(u)'
    <3>1. CASE u = t
      BY <2>3, <3>1 DEF Return, IInv, TypeOK, WriteKnows, Succeeded
    <3>2. CASE u # t
      BY <2>3, <3>2, StillWritten DEF Return, IInv, TypeOK
    <3> QED
      BY <3>1, <3>2
  <2>4. CASE Restart
    BY <2>4 DEF Restart, WriteKnows, Succeeded
  <2> QED
    BY <2>1, <2>2, <2>3, <2>4 DEF Next
<1> QED
  BY <1>1, <1>2, <1>3

(* What a successful create or update has written is stored, unless it was *)
(* deleted: on the local storage whatever interleaves, on S3 as long as    *)
(* requests do not overlap (BaseFlatFileRepository.create and update over  *)
(* LocalFileStorageService and over S3FileStorageService).                 *)
THEOREM AckedWritesAreStored ==
  ASSUME NoRace
  PROVE  HSpec => []AckedWriteIsStored
<1>1. HInit => WriteInv
  BY InitIInv DEF HInit, Init, Succeeded, WriteKnows, WriteInv
<1>2. WriteInv /\ [HNext]_<<vars, history>> => WriteInv'
  BY WriteStep
<1>3. WriteInv => AckedWriteIsStored
  BY DEF WriteInv, WriteKnows, AckedWriteIsStored, Ended, Succeeded
<1> QED
  BY <1>1, <1>2, <1>3, PTL DEF HSpec
=============================================================================
