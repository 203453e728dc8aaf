---------------------- MODULE FlatFileRepositoryProofs ----------------------
(***************************************************************************)
(* Proofs about FlatFileRepository, for any number of threads, names,      *)
(* versions and contents, with faults and without.                         *)
(***************************************************************************)
EXTENDS FlatFileRepository, FiniteSetTheorems, TLAPS

(***************************************************************************)
(* What a thread's program counter says about the request it is in.  Type  *)
(* correctness is not inductive without it: only a create or an update     *)
(* carries a content to write.                                             *)
(***************************************************************************)

Writing  == {"exists", "write", "fill", "put"}
Removing == {"listAll", "remove", "unlink", "unlinkGone"}

RequestOK ==
  \A t \in Threads :
    /\ pc[t] # "idle" => request[t] \in Requests
    /\ pc[t] \in Writing => request[t].op \in {"create", "update"}
    /\ pc[t] \in Removing => request[t].op \in {"delete", "deleteVersion"}
    /\ pc[t] \in {"unlink", "unlinkGone"} => request[t].op = "deleteVersion"
    /\ pc[t] \in {"list", "read", "open"} => request[t].op # "create"
    /\ pc[t] \in {"read", "open"} => request[t].op # "versions"

IInv == TypeOK /\ RequestOK

(***************************************************************************)
(* Facts about requests                                                    *)
(***************************************************************************)

LEMMA RequestFields ==
  ASSUME NEW r \in Requests
  PROVE  /\ r.name \in Names
         /\ r.version \in 0 .. MaxVersion
         /\ r.op \in {"create", "update", "readVersion", "deleteVersion",
                      "read", "versions", "delete"}
         /\ r.op \in {"create", "update"} =>
              r.content \in Contents /\ r.version \in Versions
  BY ConstantsAssumption
  DEF Requests, WriteRequests, PointRequests, NameRequests, Versions

LEMMA ListedAreFiles ==
  ASSUME NEW name
  PROVE  /\ ListedFor(name) \subseteq Files
         /\ \A f \in ListedFor(name) : <<f[1], name>> \in StartsWith
  BY DEF ListedFor, FirstPage

(* A listing is complete: always on a local disk, on S3 as long as one     *)
(* page holds all keys.                                                    *)
OnePage ==
  Storage = "local" \/ (IsFiniteSet(Files) /\ Cardinality(Files) <= PageSize)

LEMMA ListingIsComplete ==
  ASSUME OnePage, NEW f \in Files, <<f[1], f[1]>> \in StartsWith, files[f] # Absent
  PROVE  f \in ListedFor(f[1])
<1> DEFINE all == {g \in Files : <<g[1], f[1]>> \in StartsWith /\ files[g] # Absent}
           before == {g \in all : KeyRank[g] < KeyRank[f]}
<1>1. f \in all
  OBVIOUS
<1>2. CASE Storage # "s3"
  BY <1>1, <1>2 DEF ListedFor
<1>3. CASE Storage = "s3"
  <2>1. IsFiniteSet(Files) /\ Cardinality(Files) <= PageSize
    BY <1>3 DEF OnePage
  <2>2. /\ IsFiniteSet(Files \ {f})
        /\ Cardinality(Files \ {f}) = Cardinality(Files) - 1
    BY <2>1, FS_RemoveElement
  <2>3. before \subseteq Files \ {f}
    BY ConstantsAssumption
  <2>4. /\ IsFiniteSet(before)
        /\ Cardinality(before) <= Cardinality(Files \ {f})
    BY <2>2, <2>3, FS_Subset
  <2>5. /\ Cardinality(before) \in Nat
        /\ Cardinality(Files) \in Nat
    BY <2>1, <2>4, FS_CardinalityType
  <2>6. Cardinality(before) < PageSize
    BY <2>1, <2>2, <2>4, <2>5, ConstantsAssumption
  <2>7. f \in FirstPage(all)
    BY <1>1, <2>6 DEF FirstPage
  <2> QED
    BY <1>3, <2>7 DEF ListedFor
<1> QED
  BY <1>2, <1>3

LEMMA InitIInv == Init => IInv
  BY ConstantsAssumption
  DEF Init, IInv, TypeOK, RequestOK, FileStates, Labels, Outcomes, Writing, Removing

(* A thread goes on to its next storage call: its request stays.           *)
LEMMA GotoIInv ==
  ASSUME NEW t \in Threads, NEW label \in Labels, IInv, Goto(t, label),
         pc[t] # "idle",
         label \in Writing => request[t].op \in {"create", "update"},
         label \in Removing => request[t].op \in {"delete", "deleteVersion"},
         label \in {"unlink", "unlinkGone"} => request[t].op = "deleteVersion",
         label \in {"list", "read", "open"} => request[t].op # "create",
         label \in {"read", "open"} => request[t].op # "versions"
  PROVE  /\ RequestOK'
         /\ pc' \in [Threads -> Labels]
         /\ request' \in [Threads -> Requests \cup {NoRequest}]
         /\ reply' \in [Threads -> Outcomes]
  BY DEF IInv, TypeOK, RequestOK, Goto

(* A thread ends its call.                                                 *)
LEMMA AnswerIInv ==
  ASSUME NEW t \in Threads, NEW outcome \in Outcomes, IInv, Answer(t, outcome),
         pc[t] # "idle"
  PROVE  /\ RequestOK'
         /\ pc' \in [Threads -> Labels]
         /\ request' \in [Threads -> Requests \cup {NoRequest}]
         /\ reply' \in [Threads -> Outcomes]
  BY DEF IInv, TypeOK, RequestOK, Answer, Labels, Writing, Removing

LEMMA InvokeIInv ==
  ASSUME NEW t \in Threads, NEW r \in Requests, IInv, Invoke(t, r)
  PROVE  IInv'
<1>1. r.op \in {"create", "update", "readVersion", "deleteVersion", "read",
               "versions", "delete"}
  BY RequestFields
<1>2. /\ FirstCall(r.op) \in {"exists", "list", "listAll", "read"}
      /\ FirstCall(r.op) = "exists" => r.op = "create"
      /\ FirstCall(r.op) = "listAll" => r.op = "delete"
      /\ FirstCall(r.op) \in {"list", "read"} => r.op # "create"
      /\ FirstCall(r.op) = "read" => r.op # "versions"
  BY <1>1 DEF FirstCall
<1>3. TypeOK'
  BY <1>2 DEF Invoke, IInv, TypeOK, Labels
<1>4. RequestOK'
  BY <1>2 DEF Invoke, IInv, TypeOK, RequestOK, Writing, Removing
<1> QED
  BY <1>3, <1>4 DEF IInv

LEMMA ReturnIInv ==
  ASSUME NEW t \in Threads, IInv, Return(t)
  PROVE  IInv'
  BY ConstantsAssumption
  DEF Return, IInv, TypeOK, RequestOK, Labels, Outcomes, Writing, Removing

LEMMA RestartIInv ==
  ASSUME IInv, Restart
  PROVE  IInv'
  BY ConstantsAssumption
  DEF Restart, IInv, TypeOK, RequestOK, Labels, Outcomes, Writing, Removing

(***************************************************************************)
(* One storage call                                                        *)
(***************************************************************************)

LEMMA StepIInv ==
  ASSUME NEW t \in Threads, IInv, Step(t)
  PROVE  IInv'
<1> USE DEF IInv
<1>1. CASE CheckName(t)
  BY <1>1, AnswerIInv, GotoIInv
  DEF CheckName, TypeOK, Labels, Outcomes, Writing, Removing, RequestOK
<1>2. CASE NothingListed(t)
  BY <1>2, AnswerIInv DEF NothingListed, TypeOK, Outcomes
<1>3. CASE ListVersions(t)
  BY <1>3, AnswerIInv, ListedAreFiles DEF ListVersions, TypeOK, Outcomes
<1>4. CASE PickLatest(t)
  BY <1>4, GotoIInv, ListedAreFiles
  DEF PickLatest, TypeOK, Labels, Files, Versions, Writing, Removing, RequestOK
<1>5. CASE ReadMissing(t)
  BY <1>5, AnswerIInv DEF ReadMissing, TypeOK, Outcomes
<1>6. CASE ReadUnreadable(t)
  BY <1>6, AnswerIInv DEF ReadUnreadable, TypeOK, Outcomes
<1>7. CASE ReadComplete(t)
  <2>1. /\ found' \in [Threads -> Contents \cup {Absent}]
        /\ UNCHANGED <<files, listed, latest>>
    BY <1>7 DEF ReadComplete, TypeOK
  <2>2. request[t].op \in {"create", "update", "readVersion", "deleteVersion",
                          "read", "versions", "delete"}
    BY <1>7, RequestFields DEF ReadComplete, RequestOK
  <2>3. CASE request[t].op \in {"read", "readVersion"}
    <3>1. Answer(t, "ok")
      BY <1>7, <2>3 DEF ReadComplete
    <3> QED
      BY <1>7, <2>1, <3>1, AnswerIInv DEF ReadComplete, TypeOK, Outcomes
  <2>4. CASE request[t].op \notin {"read", "readVersion"}
    <3>1. Goto(t, AfterRead(request[t].op))
      BY <1>7, <2>4 DEF ReadComplete
    <3> QED
      BY <1>7, <2>1, <2>2, <2>4, <3>1, GotoIInv
      DEF ReadComplete, AfterRead, TypeOK, Labels, Writing, Removing, RequestOK
  <2> QED
    BY <2>3, <2>4
<1>8. CASE WriteConflict(t)
  BY <1>8, AnswerIInv DEF WriteConflict, TypeOK, Outcomes
<1>9. CASE CreateNewFile(t)
  BY <1>9, GotoIInv
  DEF CreateNewFile, TypeOK, Labels, FileStates, Writing, Removing, RequestOK
<1>10. CASE FillFile(t)
  <2>1. request[t].content \in Contents
    BY <1>10, RequestFields DEF FillFile, RequestOK, Writing
  <2>2. files' \in [Files -> FileStates]
    BY <1>10, <2>1 DEF FillFile, TypeOK, FileStates
  <2> QED
    BY <1>10, <2>2, AnswerIInv DEF FillFile, TypeOK, Outcomes
<1>11. CASE SeeNoObject(t)
  BY <1>11, GotoIInv, ConstantsAssumption
  DEF SeeNoObject, TypeOK, Labels, Writing, Removing, RequestOK
<1>12. CASE PutObject(t)
  <2>1. request[t].content \in Contents
    BY <1>12, RequestFields DEF PutObject, RequestOK, Writing
  <2>2. files' \in [Files -> FileStates]
    BY <1>12, <2>1 DEF PutObject, TypeOK, FileStates
  <2> QED
    BY <1>12, <2>2, AnswerIInv DEF PutObject, OutcomesOf, TypeOK, Outcomes
<1>13. CASE ListForDelete(t)
  BY <1>13, GotoIInv, AnswerIInv, ListedAreFiles
  DEF ListForDelete, TypeOK, RequestOK, Labels, Outcomes, Writing, Removing
<1>14. CASE DeleteListed(t)
  <2>1. /\ files' \in [Files -> FileStates]
        /\ listed' \in [Threads -> SUBSET Files]
        /\ UNCHANGED <<latest, found>>
    BY <1>14 DEF DeleteListed, TypeOK, FileStates
  <2>2. Goto(t, "remove") \/ \E outcome \in Outcomes : Answer(t, outcome)
    BY <1>14 DEF DeleteListed, OutcomesOf, Outcomes
  <2> QED
    BY <1>14, <2>1, <2>2, GotoIInv, AnswerIInv
    DEF DeleteListed, TypeOK, Labels, Writing, Removing
<1>15. CASE DeleteVersion(t)
  BY <1>15, AnswerIInv DEF DeleteVersion, TypeOK, Outcomes, FileStates
<1>16. CASE LookForObject(t)
  BY <1>16, GotoIInv, ConstantsAssumption
  DEF LookForObject, TypeOK, Labels, Writing, Removing
<1>17. CASE DeleteObject(t)
  <2>1. files' \in [Files -> FileStates]
    BY <1>17 DEF DeleteObject, TypeOK, FileStates
  <2>2. \E outcome \in Outcomes : Answer(t, outcome)
    BY <1>17 DEF DeleteObject, OutcomesOf, Outcomes
  <2> QED
    BY <1>17, <2>1, <2>2, AnswerIInv DEF DeleteObject, TypeOK
<1>18. CASE IOFailure(t)
  BY <1>18, AnswerIInv DEF IOFailure, TypeOK, Outcomes, StorageCalls
<1>19. CASE SeeFile(t)
  BY <1>19, GotoIInv
  DEF SeeFile, TypeOK, Labels, Writing, Removing, RequestOK
<1> QED
  BY <1>1, <1>2, <1>3, <1>4, <1>5, <1>6, <1>7, <1>8, <1>9, <1>10, <1>11, <1>12,
     <1>13, <1>14, <1>15, <1>16, <1>17, <1>18, <1>19 DEF Step

(***************************************************************************)
(* Type correctness                                                        *)
(***************************************************************************)

LEMMA NextIInv == IInv /\ [Next]_vars => IInv'
<1> SUFFICES ASSUME IInv, [Next]_vars PROVE IInv'
  OBVIOUS
<1>1. CASE \E t \in Threads, r \in Requests : Invoke(t, r)
  BY <1>1, InvokeIInv
<1>2. CASE \E t \in Threads : Step(t)
  BY <1>2, StepIInv
<1>3. CASE \E t \in Threads : Return(t)
  BY <1>3, ReturnIInv
<1>4. CASE Restart
  BY <1>4, RestartIInv
<1>5. CASE UNCHANGED vars
  BY <1>5 DEF vars, IInv, TypeOK, RequestOK
<1> QED
  BY <1>1, <1>2, <1>3, <1>4, <1>5 DEF Next

LEMMA SpecIInv == Spec => []IInv
  BY InitIInv, NextIInv, PTL DEF Spec

(* The repository is type correct: a file only ever holds a content, a     *)
(* thread that writes it, or nothing, and no thread reaches a storage call *)
(* of the other storage (FlatFileRepository as a whole).                   *)
THEOREM TypeCorrect == Spec => []TypeOK
  BY SpecIInv, PTL DEF IInv

(***************************************************************************)
(* The repository implements the store of immutable versions               *)
(***************************************************************************)

(* One request is handled at a time.                                       *)
OneAtATime == \A t, u \in Threads : t = u

(* No file is written over: the local storage creates a file in one step.  *)
(* S3 looks for the object and then puts it, so that there it takes one    *)
(* request at a time.                                                      *)
NoRace == Storage = "local" \/ OneAtATime

(* An object that is about to be put is not there.                         *)
PutOK ==
  \A t \in Threads : pc[t] = "put" => files[WriteTarget(t)] = Absent

LEMMA PutStep ==
  ASSUME NoRace, IInv, PutOK, [Next]_vars
  PROVE  PutOK'
<1>1. CASE Storage = "local"
  <2>1. IInv'
    BY NextIInv
  <2> QED
    BY <1>1, <2>1 DEF IInv, TypeOK, Labels, PutOK
<1>2. CASE OneAtATime
  <2> SUFFICES ASSUME NEW t \in Threads, pc'[t] = "put"
               PROVE  files'[WriteTarget(t)'] = Absent
    BY DEF PutOK
  <2>1. ASSUME NEW u \in Threads, Step(u) PROVE SeeNoObject(t)
    <3>1. Step(t)
      BY <1>2, <2>1 DEF OneAtATime
    <3> QED
      BY <3>1
      DEF Step, CheckName, NothingListed, ListVersions, PickLatest, ReadMissing, SeeFile,
          ReadUnreadable, ReadComplete, AfterRead, WriteConflict, CreateNewFile, FillFile,
          PutObject, ListForDelete, DeleteListed, DeleteVersion, LookForObject,
          DeleteObject, IOFailure, Goto, Answer, IInv, TypeOK
  <2>2. CASE SeeNoObject(t)
    BY <2>2 DEF SeeNoObject, Goto, WriteTarget
  <2>3. \A u \in Threads, r \in Requests : ~ Invoke(u, r)
    <3>1. ASSUME NEW r \in Requests, Invoke(t, r) PROVE FALSE
      <4>1. FirstCall(r.op) # "put"
        BY RequestFields DEF FirstCall
      <4> QED
        BY <3>1, <4>1 DEF Invoke, IInv, TypeOK
    <3> QED
      BY <1>2, <3>1 DEF OneAtATime
  <2>4. \A u \in Threads : ~ Return(u)
    <3>1. ~ Return(t)
      BY DEF Return, IInv, TypeOK
    <3> QED
      BY <1>2, <3>1 DEF OneAtATime
  <2>5. ~ Restart
    BY DEF Restart
  <2>6. CASE UNCHANGED vars
    BY <2>6 DEF vars, PutOK, WriteTarget
  <2> QED
    BY <2>1, <2>2, <2>3, <2>4, <2>5, <2>6 DEF Next
<1> QED
  BY <1>1, <1>2 DEF NoRace

(* What one file update does to what is visible.                           *)
LEMMA VisibleUpdate ==
  ASSUME TypeOK, NEW f \in Files, NEW x \in FileStates,
         files' = [files EXCEPT ![f] = x]
  PROVE  /\ x \in Contents => Visible' = [Visible EXCEPT ![f] = x]
         /\ x \notin Contents => Visible' = [Visible EXCEPT ![f] = Absent]
  BY DEF TypeOK, Visible

(* A file that is removed was published, or was never visible.             *)
LEMMA RemovalRetracts ==
  ASSUME TypeOK, NEW f, files' = [files EXCEPT ![f] = Absent]
  PROVE  [Store!Next]_Visible
<1>1. CASE f \notin Files
  BY <1>1 DEF TypeOK, Visible
<1>2. CASE f \in Files
  <2>1. Visible' = [Visible EXCEPT ![f] = Absent]
    BY <1>2, VisibleUpdate, ConstantsAssumption DEF FileStates
  <2>2. CASE Visible[f] = Absent
    BY <1>2, <2>1, <2>2 DEF Visible
  <2>3. CASE Visible[f] # Absent
    BY <1>2, <2>1, <2>3 DEF Store!Next, Store!Retract
  <2> QED
    BY <2>2, <2>3
<1> QED
  BY <1>1, <1>2

(* Filling a file that is still the thread's own publishes it, whole.      *)
LEMMA FillPublishes ==
  ASSUME IInv, NEW t \in Threads, FillFile(t)
  PROVE  [Store!Next]_Visible
<1> DEFINE f == WriteTarget(t)
           c == request[t].content
<1>1. f \in Files /\ c \in Contents
  BY RequestFields DEF FillFile, IInv, RequestOK, Writing, WriteTarget, Files
<1>2. CASE files[f] = t
  <2>1. files' = [files EXCEPT ![f] = c]
    BY <1>1, <1>2 DEF FillFile
  <2>2. Visible' = [Visible EXCEPT ![f] = c]
    BY <1>1, <2>1, VisibleUpdate DEF IInv, FileStates
  <2>3. Visible[f] = Absent
    BY <1>1, <1>2, ConstantsAssumption DEF Visible
  <2> QED
    BY <1>1, <2>2, <2>3 DEF Store!Next, Store!Publish
<1>3. CASE files[f] # t
  <2>1. files' = files
    BY <1>1, <1>3 DEF FillFile, IInv, TypeOK
  <2> QED
    BY <2>1 DEF Visible
<1> QED
  BY <1>2, <1>3

(* A file that is created and not yet filled is not visible.               *)
LEMMA CreationIsInvisible ==
  ASSUME IInv, NEW t \in Threads, CreateNewFile(t)
  PROVE  UNCHANGED Visible
<1>1. WriteTarget(t) \in Files
  BY RequestFields DEF CreateNewFile, IInv, RequestOK, Writing, WriteTarget, Files
<1>2. Visible' = [Visible EXCEPT ![WriteTarget(t)] = Absent]
  BY <1>1, VisibleUpdate, ConstantsAssumption DEF CreateNewFile, IInv, FileStates
<1>3. Visible[WriteTarget(t)] = Absent
  BY <1>1, ConstantsAssumption DEF CreateNewFile, Visible
<1> QED
  BY <1>1, <1>2, <1>3 DEF Visible

(* Putting an object that is not there publishes it.                       *)
LEMMA PutPublishes ==
  ASSUME NoRace, IInv, PutOK, NEW t \in Threads, PutObject(t)
  PROVE  [Store!Next]_Visible
<1> DEFINE f == WriteTarget(t)
           c == request[t].content
<1>1. f \in Files /\ c \in Contents
  BY RequestFields DEF PutObject, IInv, RequestOK, Writing, WriteTarget, Files
<1>2. files' = [files EXCEPT ![f] = c] /\ files[f] = Absent
  BY DEF PutObject, PutOK
<1>3. Visible' = [Visible EXCEPT ![f] = c]
  BY <1>1, <1>2, VisibleUpdate DEF IInv, FileStates
<1>4. Visible[f] = Absent
  BY <1>1, <1>2 DEF Visible
<1> QED
  BY <1>1, <1>3, <1>4 DEF Store!Next, Store!Publish

LEMMA NextImplementsStore ==
  ASSUME NoRace, IInv, PutOK, [Next]_vars
  PROVE  [Store!Next]_Visible
<1>1. ASSUME UNCHANGED files PROVE UNCHANGED Visible
  BY <1>1 DEF Visible
<1>2. ASSUME NEW t \in Threads, Step(t) PROVE [Store!Next]_Visible
  <2>1. CASE FillFile(t)
    BY <2>1, FillPublishes
  <2>2. CASE CreateNewFile(t)
    BY <2>2, CreationIsInvisible
  <2>3. CASE DeleteListed(t)
    BY <2>3, RemovalRetracts DEF DeleteListed, IInv
  <2>4. CASE DeleteVersion(t)
    BY <2>4, RemovalRetracts DEF DeleteVersion, IInv
  <2>5. CASE PutObject(t)
    BY <2>5, PutPublishes
  <2>6. CASE DeleteObject(t)
    BY <2>6, RemovalRetracts DEF DeleteObject, IInv
  <2>7. CASE UNCHANGED files
    BY <1>1, <2>7
  <2> QED
    BY <1>2, <2>1, <2>2, <2>3, <2>4, <2>5, <2>6, <2>7
    DEF Step, CheckName, NothingListed, ListVersions, PickLatest, ReadMissing,
        SeeFile, ReadUnreadable, ReadComplete, WriteConflict, SeeNoObject,
        ListForDelete, LookForObject, IOFailure
<1> QED
  BY <1>1, <1>2 DEF Next, vars, Invoke, Return, Restart

(* The repository implements VersionedStore: a version appears whole,      *)
(* once, and its content never changes while it exists, with IO errors and *)
(* restarts at any point.  On the local storage that is so however create, *)
(* update and delete calls interleave, on S3 as long as requests do not    *)
(* overlap (BaseFlatFileRepository over LocalFileStorageService and over   *)
(* S3FileStorageService).                                                  *)
THEOREM RepositoryImplementsStore ==
  ASSUME NoRace
  PROVE  Spec => ImplementsStore
<1>1. Init => Store!Init /\ PutOK
  BY ConstantsAssumption DEF Init, Store!Init, Visible, PutOK
<1>2. IInv /\ PutOK /\ [Next]_vars => PutOK' /\ [Store!Next]_Visible
  BY PutStep, NextImplementsStore
<1> QED
  BY <1>1, <1>2, SpecIInv, PTL DEF Spec, ImplementsStore, Store!Spec

(***************************************************************************)
(* Where no name is a prefix of another, a delete removes its own files    *)
(***************************************************************************)

(* What a thread has listed are files of the name it was called with.      *)
ListedOwn ==
  \A t \in Threads :
    /\ pc[t] = "idle" => listed[t] = {}
    /\ \A f \in listed[t] : f[1] = request[t].name

(* A storage call moves its own thread and leaves it in the same request.  *)
LEMMA StepMoves ==
  ASSUME IInv, NEW t \in Threads, Step(t)
  PROVE  /\ request' = request
         /\ pc[t] # "idle"
         /\ pc' \in [Threads -> Labels] /\ pc'[t] # "idle"
         /\ \A u \in Threads \ {t} : pc'[u] = pc[u]
<1>1. pc[t] # "idle"
  BY DEF Step, CheckName, NothingListed, ListVersions, PickLatest, ReadMissing,
         SeeFile, ReadUnreadable, ReadComplete, WriteConflict, CreateNewFile,
         FillFile, SeeNoObject, PutObject, ListForDelete, DeleteListed, DeleteVersion,
         LookForObject, DeleteObject, IOFailure, StorageCalls
<1>2. (\E label : label # "idle" /\ Goto(t, label)) \/ (\E out : Answer(t, out))
  BY DEF Step, CheckName, NothingListed, ListVersions, PickLatest, ReadMissing,
         SeeFile, ReadUnreadable, ReadComplete, WriteConflict, CreateNewFile,
         FillFile, SeeNoObject, PutObject, ListForDelete, DeleteListed, DeleteVersion,
         LookForObject, DeleteObject, IOFailure, AfterRead
<1>3. pc' \in [Threads -> Labels]
  BY StepIInv DEF IInv, TypeOK
<1> QED
  BY <1>1, <1>2, <1>3 DEF Goto, Answer, IInv, TypeOK

LEMMA StepListedOwn ==
  ASSUME \A p \in StartsWith : p[1] = p[2],
         IInv, ListedOwn, NEW t \in Threads, Step(t)
  PROVE  ListedOwn'
<1>1. /\ request' = request
      /\ pc[t] # "idle"
      /\ pc' \in [Threads -> Labels] /\ pc'[t] # "idle"
      /\ \A u \in Threads \ {t} : pc'[u] = pc[u]
  BY StepMoves
<1>2. ASSUME NEW f \in ListedFor(request[t].name) PROVE f[1] = request[t].name
  <2> DEFINE p == <<f[1], request[t].name>>
  <2>1. p \in StartsWith
    BY ListedAreFiles
  <2>2. p[1] = p[2]
    BY <2>1
  <2> QED
    BY <2>2
<1>3. \/ listed' = listed
      \/ listed' = [listed EXCEPT ![t] = ListedFor(request[t].name)]
      \/ \E f \in listed[t] : listed' = [listed EXCEPT ![t] = @ \ {f}]
  BY DEF Step, CheckName, NothingListed, ListVersions, PickLatest, ReadMissing,
         SeeFile, ReadUnreadable, ReadComplete, WriteConflict, CreateNewFile,
         FillFile, SeeNoObject, PutObject, ListForDelete, DeleteListed, DeleteVersion,
         LookForObject, DeleteObject, IOFailure
<1> QED
  BY <1>1, <1>2, <1>3 DEF ListedOwn, IInv, TypeOK

LEMMA NextListedOwn ==
  ASSUME \A p \in StartsWith : p[1] = p[2], IInv, ListedOwn, [Next]_vars
  PROVE  ListedOwn'
<1>1. ASSUME NEW t \in Threads, NEW r \in Requests, Invoke(t, r)
      PROVE  ListedOwn'
  BY <1>1, InvokeIInv DEF Invoke, ListedOwn, IInv, TypeOK
<1>2. ASSUME NEW t \in Threads, Return(t) PROVE ListedOwn'
  BY <1>2 DEF Return, ListedOwn, IInv, TypeOK
<1>3. CASE Restart
  BY <1>3 DEF Restart, ListedOwn
<1>4. CASE UNCHANGED vars
  BY <1>4 DEF vars, ListedOwn
<1> QED
  BY <1>1, <1>2, <1>3, <1>4, StepListedOwn DEF Next

(* Only a delete removes a file, and only one it was called for.           *)
LEMMA StepRemovesOwn ==
  ASSUME IInv, ListedOwn, NEW t \in Threads, Step(t), NEW f \in Files,
         files[f] # Absent, files'[f] = Absent
  PROVE  /\ MovedBy(t)
         /\ request[t].op \in {"delete", "deleteVersion"}
         /\ request[t].name = f[1]
<1>1. CASE DeleteListed(t)
  <2> PICK g \in listed[t] :
        /\ files' = [files EXCEPT ![g] = Absent]
        /\ listed' = [listed EXCEPT ![t] = @ \ {g}]
    BY <1>1 DEF DeleteListed
  <2>1. f = g
    BY DEF IInv, TypeOK
  <2>2. listed'[t] # listed[t]
    BY DEF IInv, TypeOK
  <2> QED
    BY <1>1, <2>1, <2>2 DEF DeleteListed, MovedBy, ListedOwn
<1>2. CASE DeleteVersion(t) \/ DeleteObject(t)
  <2>1. /\ files' = [files EXCEPT ![ReadTarget(t)] = Absent]
        /\ pc' = [pc EXCEPT ![t] = "done"]
        /\ pc[t] \in {"remove", "unlink", "unlinkGone"}
    BY <1>2 DEF DeleteVersion, DeleteObject, Answer
  <2>2. f = ReadTarget(t)
    BY <2>1 DEF IInv, TypeOK
  <2>3. request[t].name = f[1]
    BY <2>2 DEF ReadTarget
  <2>4. pc'[t] # pc[t]
    BY <2>1 DEF IInv, TypeOK
  <2>5. request[t].op \in {"delete", "deleteVersion"}
    BY <2>1 DEF IInv, RequestOK, Removing
  <2> QED
    BY <2>3, <2>4, <2>5 DEF MovedBy
<1>3. ~ FillFile(t) /\ ~ PutObject(t)
  <2>1. ASSUME pc[t] \in {"fill", "put"} PROVE request[t].content # Absent
    BY <2>1, RequestFields, ConstantsAssumption DEF IInv, RequestOK, Writing
  <2> QED
    BY <2>1 DEF FillFile, PutObject, IInv, TypeOK
<1>4. ~ CreateNewFile(t)
  BY ConstantsAssumption DEF CreateNewFile, IInv, TypeOK
<1> QED
  BY <1>1, <1>2, <1>3, <1>4
  DEF Step, CheckName, NothingListed, ListVersions, PickLatest, ReadMissing,
      SeeFile, ReadUnreadable, ReadComplete, WriteConflict, SeeNoObject, ListForDelete,
      LookForObject, IOFailure

(* If no name of an entity is a proper prefix of another one, delete calls *)
(* remove files of the name they were given and of no other                *)
(* (BaseFlatFileRepository.delete on either storage).  The assumption is   *)
(* what the code needs and does not check.                                 *)
THEOREM PrefixFreeDeletesOwnFilesOnly ==
  ASSUME \A p \in StartsWith : p[1] = p[2]
  PROVE  Spec => DeletesOwnFilesOnly
<1>1. Init => ListedOwn
  BY DEF Init, ListedOwn
<1>2. IInv /\ ListedOwn /\ [Next]_vars => ListedOwn'
  BY NextListedOwn
<1> DEFINE RemovesOwn ==
       \A f \in Files :
         files[f] # Absent /\ files'[f] = Absent =>
           \E t \in Threads :
             /\ MovedBy(t)
             /\ request[t].op \in {"delete", "deleteVersion"}
             /\ request[t].name = f[1]
<1>3. IInv /\ ListedOwn /\ [Next]_vars => [RemovesOwn]_vars
  <2> SUFFICES ASSUME IInv, ListedOwn, Next, NEW f \in Files,
                      files[f] # Absent, files'[f] = Absent
               PROVE  \E t \in Threads :
                        /\ MovedBy(t)
                        /\ request[t].op \in {"delete", "deleteVersion"}
                        /\ request[t].name = f[1]
    OBVIOUS
  <2>1. \E t \in Threads : Step(t)
    BY DEF Next, Invoke, Return, Restart
  <2> QED
    BY <2>1, StepRemovesOwn
<1> QED
  BY <1>1, <1>2, <1>3, SpecIInv, PTL DEF Spec, DeletesOwnFilesOnly
=============================================================================
