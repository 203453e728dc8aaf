---------------------- MODULE CassandraRepositoryProofs ----------------------
(***************************************************************************)
(* Proofs about SemanticVersion and CassandraRepository, for any number of *)
(* threads, names, versions and contents, with every fault.                *)
(***************************************************************************)
EXTENDS CassandraRepository, TLAPS

(***************************************************************************)
(* The order of versions                                                   *)
(***************************************************************************)

LEMMA LowerExpanded ==
  ASSUME NEW v \in AllVersions, NEW w \in AllVersions
  PROVE  Lower(v, w) <=>
           \/ v[1].value < w[1].value
           \/ v[1].value = w[1].value /\ v[2].value < w[2].value
           \/ v[1].value = w[1].value /\ v[2].value = w[2].value /\ v[3].value < w[3].value
<1>1. 1 .. 3 = {1, 2, 3} /\ 1 .. 2 = {1, 2} /\ 1 .. 1 = {1} /\ 1 .. 0 = {}
  OBVIOUS
<1>2. /\ (\A j \in 1 .. (1 - 1) : v[j].value = w[j].value) <=> TRUE
      /\ (\A j \in 1 .. (2 - 1) : v[j].value = w[j].value) <=> v[1].value = w[1].value
      /\ (\A j \in 1 .. (3 - 1) : v[j].value = w[j].value) <=>
           v[1].value = w[1].value /\ v[2].value = w[2].value
  BY <1>1
<1>3. QED
  BY <1>1, <1>2 DEF Lower

LEMMA ValuesAreNatural ==
  ASSUME NEW v \in AllVersions
  PROVE  v[1].value \in Nat /\ v[2].value \in Nat /\ v[3].value \in Nat
BY DEF AllVersions, Parts

(* The comparator orders versions: of any two that differ in value one is  *)
(* lower, and never both, and lower carries over.                          *)
THEOREM LowerIsAnOrder ==
  ASSUME NEW u \in AllVersions, NEW v \in AllVersions, NEW w \in AllVersions
  PROVE  /\ ~(Lower(u, v) /\ Lower(v, u))
         /\ Lower(u, v) /\ Lower(v, w) => Lower(u, w)
         /\ ~Lower(u, v) /\ ~Lower(v, w) => ~Lower(u, w)
BY LowerExpanded, ValuesAreNatural

(* Versions that are written with as many digits part by part are in the   *)
(* same order as text: what Cassandra sorts first is the highest.          *)
THEOREM TextLowerOfSameWidths ==
  ASSUME NEW v \in AllVersions, NEW w \in AllVersions, SameWidths(v, w)
  PROVE  TextLower(v, w) <=> Lower(v, w)
<1>1. ASSUME NEW i \in 1 .. 3
      PROVE  /\ PartTextLower(v[i], w[i]) <=> v[i].value < w[i].value
             /\ v[i] = w[i] <=> v[i].value = w[i].value
  <2>1. v[i] \in Parts /\ w[i] \in Parts /\ v[i].digits = w[i].digits
    BY DEF AllVersions, SameWidths
  <2>2. v[i] = [value |-> v[i].value, digits |-> v[i].digits]
        /\ w[i] = [value |-> w[i].value, digits |-> w[i].digits]
    BY <2>1 DEF Parts
  <2>3. QED
    BY <2>1, <2>2 DEF PartTextLower
<1>2. ASSUME NEW i \in 1 .. 3
      PROVE  (\A j \in 1 .. (i - 1) : v[j] = w[j]) <=>
             (\A j \in 1 .. (i - 1) : v[j].value = w[j].value)
  <2>1. \A j \in 1 .. (i - 1) : j \in 1 .. 3
    OBVIOUS
  <2>2. QED
    BY <1>1, <2>1
<1>3. QED
  BY <1>1, <1>2 DEF TextLower, Lower

(***************************************************************************)
(* The inductive invariant                                                 *)
(***************************************************************************)

Looks(t) == request[t].op \in {"read", "update"}

(* The method that a thread is in has the statement it is at.              *)
MethodOK(t) ==
  /\ pc[t] # "idle" => request[t] \in Requests
  /\ outcome[t] # "none" => pc[t] = "done"
  /\ pc[t] = "selectLatest" => Looks(t)
  /\ pc[t] = "selectFirst" => request[t].op \in {"update", "delete"}
  /\ pc[t] = "insert" => request[t].op \in {"create", "update"}
  /\ pc[t] = "deleteRow" => request[t].op = "deleteVersion"
  /\ pc[t] = "deleteRows" => request[t].op = "delete"

(* The latest version that was selected is not below what has been stored  *)
(* all the time, as text, and is stored unless something was deleted.      *)
LatestOK(t) ==
  Looks(t) /\ (pc[t] \in {"selectRow", "selectFirst", "insert"} \/ outcome[t] = "ok") =>
    /\ latest[t] \in Versions
    /\ \A v \in kept[t] : ~TextLower(latest[t], v)
    /\ rows[<<request[t].name, latest[t]>>] # Absent \/ dropped[t]

(* An update goes on only with a version above the latest.                 *)
UpdateOK(t) ==
  request[t].op = "update" /\ (pc[t] \in {"selectFirst", "insert"} \/ outcome[t] = "ok") =>
    Lower(latest[t], request[t].version)

HistoryOK(t) ==
  /\ pc[t] = "idle" => kept[t] = {}
  /\ \A v \in kept[t] : rows[<<request[t].name, v>>] # Absent
  /\ outcome[t] = "ok" /\ request[t].op = "delete" => kept[t] = {}
  /\ outcome[t] = "ok" /\ request[t].op = "deleteVersion" => request[t].version \notin kept[t]
  /\ outcome[t] = "absent" /\ Looks(t) => dropped[t]

ThreadOK(t) == MethodOK(t) /\ LatestOK(t) /\ UpdateOK(t) /\ HistoryOK(t)

IInv == CassandraTypeOK /\ \A t \in Threads : ThreadOK(t)

LEMMA RequestFacts ==
  ASSUME NEW r \in Requests
  PROVE  /\ r.op \in {"create", "update", "read", "readVersion", "delete", "deleteVersion"}
         /\ r.name \in Names
         /\ r.op \in {"create", "update"} => r.version \in Versions /\ r.content \in Contents
         /\ r.op \in {"readVersion", "deleteVersion"} => r.version \in Versions
         /\ r.name # Absent
BY CassandraConstantsAssumption DEF Requests

LEMMA InitIInv == Init => IInv
<1> SUFFICES ASSUME Init PROVE IInv
  OBVIOUS
<1>1. CassandraTypeOK
  BY DEF Init, CassandraTypeOK, Labels, Outcomes
<1>2. ASSUME NEW t \in Threads PROVE ThreadOK(t)
  BY DEF Init, ThreadOK, MethodOK, LatestOK, UpdateOK, HistoryOK, NoRequest, Looks
<1>3. QED
  BY <1>1, <1>2 DEF IInv

(***************************************************************************)
(* Steps that change the table                                             *)
(***************************************************************************)

(* What a step leaves of what a thread relies on.                          *)
Kept(u) ==
  /\ kept'[u] \subseteq kept[u]
  /\ dropped[u] => dropped'[u]
  /\ \A v \in kept'[u] : rows'[<<request[u].name, v>>] # Absent
  /\ \A v \in Versions :
       rows[<<request[u].name, v>>] # Absent /\ request[u].name \in Names =>
         rows'[<<request[u].name, v>>] # Absent \/ dropped'[u]

LEMMA InsertFacts ==
  ASSUME IInv, NEW t \in Threads, pc[t] = "insert", Insert(t)
  PROVE  /\ rows' \in [Keys -> Contents \cup {Absent}]
         /\ \A u \in Threads : Kept(u)
<1>1. rows \in [Keys -> Contents \cup {Absent}] /\ kept \in [Threads -> SUBSET Versions]
  BY DEF IInv, CassandraTypeOK
<1>2. request[t].content \in Contents /\ request[t].content # Absent
  BY RequestFacts, CassandraConstantsAssumption DEF IInv, ThreadOK, MethodOK
<1>3. \A k \in Keys : rows'[k] = rows[k] \/ rows'[k] # Absent
  BY <1>1, <1>2 DEF Insert
<1>4. rows' \in [Keys -> Contents \cup {Absent}]
  BY <1>1, <1>2 DEF Insert
<1>5. ASSUME NEW u \in Threads PROVE Kept(u)
  <2>1. \A v \in kept[u] : request[u].name \in Names /\ v \in Versions
                             /\ rows[<<request[u].name, v>>] # Absent
    BY <1>1, RequestFacts DEF IInv, ThreadOK, MethodOK, HistoryOK
  <2>2. \A v \in Versions : request[u].name \in Names => <<request[u].name, v>> \in Keys
    BY DEF Keys
  <2>3. QED
    BY <1>3, <2>1, <2>2 DEF Kept, Insert
<1>6. QED
  BY <1>4, <1>5

LEMMA EraseFacts ==
  ASSUME IInv, NEW n \in Names, NEW versions \in SUBSET Versions, Erase(n, versions)
  PROVE  /\ rows' \in [Keys -> Contents \cup {Absent}]
         /\ kept' \in [Threads -> SUBSET Versions]
         /\ dropped' \in [Threads -> BOOLEAN]
         /\ \A u \in Threads : Kept(u)
         /\ \A u \in Threads : request[u].name = n => kept'[u] \cap versions = {}
<1>1. /\ rows \in [Keys -> Contents \cup {Absent}]
      /\ kept \in [Threads -> SUBSET Versions]
      /\ dropped \in [Threads -> BOOLEAN]
  BY DEF IInv, CassandraTypeOK
<1>2. rows' \in [Keys -> Contents \cup {Absent}] /\ kept' \in [Threads -> SUBSET Versions]
  BY <1>1 DEF Erase
<1>3. dropped' \in [Threads -> BOOLEAN]
  BY <1>1 DEF Erase
<1>4. ASSUME NEW u \in Threads PROVE Kept(u)
  <2>1. \A v \in kept[u] : request[u].name \in Names /\ v \in Versions
                             /\ rows[<<request[u].name, v>>] # Absent
    BY <1>1, RequestFacts DEF IInv, ThreadOK, MethodOK, HistoryOK
  <2>2. \A m \in Names, v \in Versions :
          rows'[<<m, v>>] = IF m = n /\ v \in versions THEN Absent ELSE rows[<<m, v>>]
    BY <1>1 DEF Erase, Keys
  <2>3. kept'[u] = IF request[u].name = n THEN kept[u] \ versions ELSE kept[u]
    BY DEF Erase
  <2>4. dropped'[u] <=> dropped[u] \/ (request[u].name = n /\ versions \cap Stored(n) # {})
    BY <1>1 DEF Erase
  <2>5. \A v \in kept'[u] : rows'[<<request[u].name, v>>] # Absent
    BY <2>1, <2>2, <2>3
  <2>6. ASSUME NEW v \in Versions, rows[<<request[u].name, v>>] # Absent, request[u].name \in Names
        PROVE  rows'[<<request[u].name, v>>] # Absent \/ dropped'[u]
    <3>1. CASE request[u].name = n /\ v \in versions
      BY <2>4, <2>6, <3>1 DEF Stored
    <3>2. CASE ~(request[u].name = n /\ v \in versions)
      BY <2>2, <2>6, <3>2
    <3>3. QED
      BY <3>1, <3>2
  <2>7. QED
    BY <2>3, <2>4, <2>5, <2>6 DEF Kept
<1>5. \A u \in Threads : request[u].name = n => kept'[u] \cap versions = {}
  BY DEF Erase
<1>6. QED
  BY <1>2, <1>3, <1>4, <1>5

LEMMA ApplyFacts ==
  ASSUME IInv, NEW t \in Threads, pc[t] \in {"insert", "deleteRow", "deleteRows"}, Apply(t)
  PROVE  /\ rows' \in [Keys -> Contents \cup {Absent}]
         /\ kept' \in [Threads -> SUBSET Versions]
         /\ dropped' \in [Threads -> BOOLEAN]
         /\ \A u \in Threads : Kept(u)
         /\ pc[t] = "deleteRow" => request[t].version \notin kept'[t]
         /\ pc[t] = "deleteRows" => kept'[t] = {}
<1>1. request[t] \in Requests /\ request[t].name \in Names
  BY RequestFacts DEF IInv, ThreadOK, MethodOK
<1>2. CASE pc[t] = "insert"
  <2>1. Insert(t)
    BY <1>2 DEF Apply
  <2>2. QED
    BY <1>2, <2>1, InsertFacts DEF Insert, IInv, CassandraTypeOK
<1>3. CASE pc[t] = "deleteRow"
  <2>1. Erase(request[t].name, {request[t].version})
    BY <1>3 DEF Apply
  <2>2. request[t].version \in Versions
    BY <1>1, <1>3, RequestFacts DEF IInv, ThreadOK, MethodOK
  <2>3. QED
    BY <1>1, <1>3, <2>1, <2>2, EraseFacts
<1>4. CASE pc[t] = "deleteRows"
  <2>1. Erase(request[t].name, Versions)
    BY <1>4 DEF Apply
  <2>2. QED
    BY <1>1, <1>4, <2>1, EraseFacts
<1>5. QED
  BY <1>2, <1>3, <1>4

LEMMA KeptByDefault ==
  ASSUME IInv, UNCHANGED <<rows, kept, dropped>>, NEW u \in Threads
  PROVE  Kept(u)
BY DEF IInv, ThreadOK, HistoryOK, Kept

LEMMA StillOK ==
  ASSUME IInv, NEW u \in Threads, Kept(u), pc'[u] = pc[u], request'[u] = request[u],
         latest'[u] = latest[u], outcome'[u] = outcome[u]
  PROVE  ThreadOK(u)'
<1>0. ThreadOK(u)
  BY DEF IInv
<1>1. MethodOK(u)' /\ UpdateOK(u)'
  BY <1>0 DEF ThreadOK, MethodOK, UpdateOK, Looks
<1>2. LatestOK(u)'
  <2>1. Looks(u) => request[u].name \in Names \/ pc[u] = "idle"
    BY <1>0, RequestFacts DEF ThreadOK, MethodOK
  <2>2. pc[u] = "idle" => outcome[u] # "ok"
    BY <1>0 DEF ThreadOK, MethodOK
  <2>3. QED
    BY <1>0, <2>1, <2>2 DEF ThreadOK, LatestOK, Kept, Looks
<1>3. HistoryOK(u)'
  BY <1>0 DEF ThreadOK, HistoryOK, Kept, Looks
<1>4. QED
  BY <1>1, <1>2, <1>3 DEF ThreadOK

(***************************************************************************)
(* The steps of a thread                                                   *)
(***************************************************************************)

LEMMA InvokeOK ==
  ASSUME IInv, NEW t \in Threads, NEW r \in Requests, Invoke(t, r)
  PROVE  IInv'
<1>0. CassandraTypeOK /\ ThreadOK(t)
  BY DEF IInv
<1>1. FirstStatement(r.op) \in Labels \ {"idle", "done"}
  BY RequestFacts DEF FirstStatement, Labels
<1>2. pc'[t] = FirstStatement(r.op) /\ request'[t] = r /\ outcome'[t] = "none"
  BY <1>0 DEF Invoke, Goto, CassandraTypeOK, ThreadOK, MethodOK
<1>3. kept'[t] = Stored(r.name) /\ Stored(r.name) \subseteq Versions
  BY <1>0 DEF Invoke, CassandraTypeOK, Stored
<1>4. CassandraTypeOK'
  BY <1>0, <1>1, <1>3 DEF Invoke, Goto, CassandraTypeOK, Stored
<1>5. MethodOK(t)'
  <2>1. /\ FirstStatement(r.op) = "selectLatest" => r.op \in {"read", "update"}
        /\ FirstStatement(r.op) = "insert" => r.op = "create"
        /\ FirstStatement(r.op) = "selectFirst" => r.op = "delete"
        /\ FirstStatement(r.op) = "selectRow" => r.op \in {"readVersion", "deleteVersion"}
        /\ FirstStatement(r.op) \notin {"deleteRow", "deleteRows"}
    BY RequestFacts DEF FirstStatement
  <2>2. QED
    BY <1>2, <2>1 DEF MethodOK, Looks
<1>6. LatestOK(t)' /\ UpdateOK(t)' /\ HistoryOK(t)'
  <2>1. /\ FirstStatement(r.op) = "selectRow" => r.op \in {"readVersion", "deleteVersion"}
        /\ FirstStatement(r.op) = "insert" => r.op = "create"
        /\ FirstStatement(r.op) = "selectFirst" => r.op = "delete"
    BY RequestFacts DEF FirstStatement
  <2>2. LatestOK(t)' /\ UpdateOK(t)'
    BY <1>2, <2>1 DEF LatestOK, UpdateOK, Looks
  <2>3. HistoryOK(t)'
    BY <1>1, <1>2, <1>3 DEF HistoryOK, Stored, Invoke
  <2>4. QED
    BY <2>2, <2>3
<1>7. ASSUME NEW u \in Threads \ {t} PROVE ThreadOK(u)'
  <2>1. pc'[u] = pc[u] /\ request'[u] = request[u] /\ latest'[u] = latest[u] /\ outcome'[u] = outcome[u]
    BY <1>0 DEF Invoke, Goto, CassandraTypeOK
  <2>2. Kept(u)
    <3>1. kept'[u] = kept[u] /\ UNCHANGED <<rows, dropped>>
      BY <1>0 DEF Invoke, CassandraTypeOK
    <3>2. QED
      BY <3>1 DEF Kept, IInv, ThreadOK, HistoryOK
  <2>3. QED
    BY <2>1, <2>2, StillOK
<1>8. QED
  BY <1>4, <1>5, <1>6, <1>7 DEF IInv, ThreadOK

LEMMA RespondOK ==
  ASSUME IInv, NEW t \in Threads, Respond(t)
  PROVE  IInv'
<1>0. CassandraTypeOK
  BY DEF IInv
<1>1. CassandraTypeOK'
  BY <1>0 DEF Respond, CassandraTypeOK, Labels, Outcomes
<1>2. pc'[t] = "idle" /\ outcome'[t] = "none" /\ kept'[t] = {}
  BY <1>0 DEF Respond, CassandraTypeOK
<1>3. ThreadOK(t)'
  BY <1>2 DEF ThreadOK, MethodOK, LatestOK, UpdateOK, HistoryOK
<1>4. ASSUME NEW u \in Threads \ {t} PROVE ThreadOK(u)'
  <2>1. /\ pc'[u] = pc[u] /\ request'[u] = request[u] /\ latest'[u] = latest[u]
        /\ outcome'[u] = outcome[u] /\ kept'[u] = kept[u] /\ dropped'[u] = dropped[u] /\ rows' = rows
    BY <1>0 DEF Respond, CassandraTypeOK
  <2>2. Kept(u)
    BY <2>1 DEF Kept, IInv, ThreadOK, HistoryOK
  <2>3. QED
    BY <2>1, <2>2, StillOK
<1>5. QED
  BY <1>1, <1>3, <1>4 DEF IInv

(* A select moves one thread, and touches neither table nor history.       *)
LEMMA SelectFrame ==
  ASSUME IInv, NEW t \in Threads, UNCHANGED <<rows, request, kept, dropped>>,
         \E label : pc' = [pc EXCEPT ![t] = label],
         \E how : outcome' = [outcome EXCEPT ![t] = how],
         \E v : latest' = [latest EXCEPT ![t] = v]
  PROVE  \A u \in Threads \ {t} : ThreadOK(u)'
<1>1. ASSUME NEW u \in Threads \ {t}
      PROVE  /\ pc'[u] = pc[u] /\ request'[u] = request[u] /\ latest'[u] = latest[u]
             /\ outcome'[u] = outcome[u]
  BY DEF IInv, CassandraTypeOK
<1>2. QED
  BY <1>1, KeptByDefault, StillOK

(* A call that fails, whatever it was doing.                               *)
LEMMA FailedOK ==
  ASSUME IInv, NEW t \in Threads, pc[t] # "idle", request'[t] = request[t], pc'[t] = "done",
         outcome'[t] \in {"error", "conflict"},
         \A v \in kept'[t] : rows'[<<request[t].name, v>>] # Absent
  PROVE  ThreadOK(t)'
<1>1. request[t] \in Requests
  BY DEF IInv, ThreadOK, MethodOK
<1>2. QED
  BY <1>1 DEF ThreadOK, MethodOK, LatestOK, UpdateOK, HistoryOK

LEMMA SelectOK ==
  ASSUME IInv, NEW t \in Threads, Select(t) \/ StatementFails(t)
  PROVE  IInv'
<1>0. CassandraTypeOK /\ ThreadOK(t)
  BY DEF IInv
<1>1. /\ UNCHANGED <<rows, request, kept, dropped>>
      /\ pc[t] \notin {"idle", "done"}
      /\ request[t] \in Requests /\ request[t].name \in Names
      /\ outcome[t] = "none"
  <2>1. UNCHANGED <<rows, request, kept, dropped>> /\ pc[t] \notin {"idle", "done"}
    BY DEF Select, NothingStored, SelectLatest, RowMissing, ReadRow, RowToDelete, CompareVersions,
           SelectFirst, StatementFails
  <2>2. QED
    BY <1>0, <2>1, RequestFacts DEF ThreadOK, MethodOK
<1>2. /\ \E label \in Labels : pc' = [pc EXCEPT ![t] = label]
      /\ \E how \in Outcomes : outcome' = [outcome EXCEPT ![t] = how]
      /\ \E v \in Versions \cup {Absent} : latest' = [latest EXCEPT ![t] = v]
  <2>1. UNCHANGED outcome => outcome' = [outcome EXCEPT ![t] = outcome[t]] /\ outcome[t] \in Outcomes
    BY <1>0 DEF CassandraTypeOK
  <2>2. UNCHANGED latest => latest' = [latest EXCEPT ![t] = latest[t]]
                              /\ latest[t] \in Versions \cup {Absent}
    BY <1>0 DEF CassandraTypeOK
  <2>3. \A how \in Outcomes : Finish(t, how) =>
          pc' = [pc EXCEPT ![t] = "done"] /\ outcome' = [outcome EXCEPT ![t] = how]
    BY DEF Finish
  <2>4. \A label \in Labels : Goto(t, label) => pc' = [pc EXCEPT ![t] = label] /\ UNCHANGED outcome
    BY DEF Goto
  <2>5. (UNCHANGED latest) \/ \E v \in Versions : latest' = [latest EXCEPT ![t] = v]
    BY DEF Select, NothingStored, SelectLatest, RowMissing, ReadRow, RowToDelete, CompareVersions,
           SelectFirst, StatementFails
  <2>6. \/ \E how \in {"ok", "absent", "conflict", "error"} : Finish(t, how)
        \/ \E label \in {"selectRow", "deleteRow", "selectFirst", "insert", "deleteRows"} :
             Goto(t, label)
    BY DEF Select, NothingStored, SelectLatest, RowMissing, ReadRow, RowToDelete, CompareVersions,
           SelectFirst, StatementFails
  <2>7. QED
    BY <2>1, <2>2, <2>3, <2>4, <2>5, <2>6 DEF Labels, Outcomes
<1>3. CassandraTypeOK'
  BY <1>0, <1>1, <1>2 DEF CassandraTypeOK
<1>4. \A u \in Threads \ {t} : ThreadOK(u)'
  BY <1>1, <1>2, SelectFrame
<1>5. \A v \in kept[t] : rows[<<request[t].name, v>>] # Absent
  BY <1>0 DEF ThreadOK, HistoryOK
<1>6. ThreadOK(t)'
  <2>1. CASE NothingStored(t) \/ StatementFails(t)
    <3>1. pc'[t] = "done" /\ outcome'[t] = "error"
      BY <1>0, <2>1 DEF NothingStored, StatementFails, Finish, CassandraTypeOK
    <3>2. QED
      BY <1>1, <1>5, <3>1, FailedOK
  <2>2. ASSUME NEW v \in Versions, SelectLatest(t, v) PROVE ThreadOK(t)'
    <3>1. pc'[t] = "selectRow" /\ latest'[t] = v /\ outcome'[t] = "none" /\ Looks(t)
      BY <1>0, <1>1, <2>2 DEF SelectLatest, Goto, CassandraTypeOK, ThreadOK, MethodOK
    <3>2. \A w \in kept[t] : ~TextLower(v, w)
      BY <1>0, <1>5, <2>2 DEF SelectLatest, Stored, CassandraTypeOK
    <3>3. rows[<<request[t].name, v>>] # Absent
      BY <2>2 DEF SelectLatest, Stored
    <3>4. LatestOK(t)'
      BY <1>1, <2>2, <3>1, <3>2, <3>3 DEF LatestOK
    <3>5. QED
      BY <1>1, <1>5, <3>1, <3>4 DEF ThreadOK, MethodOK, UpdateOK, HistoryOK
  <2>3. CASE RowMissing(t)
    <3>1. pc'[t] = "done" /\ outcome'[t] = "absent" /\ latest' = latest
      BY <1>0, <2>3 DEF RowMissing, Finish, CassandraTypeOK
    <3>2. Looks(t) => dropped[t]
      BY <1>0, <2>3 DEF RowMissing, Selected, Looks, ThreadOK, LatestOK
    <3>3. QED
      BY <1>1, <1>5, <3>1, <3>2 DEF ThreadOK, MethodOK, LatestOK, UpdateOK, HistoryOK, Looks
  <2>4. CASE ReadRow(t)
    <3>1. pc'[t] = "done" /\ outcome'[t] = "ok" /\ latest' = latest
          /\ pc[t] = "selectRow" /\ request[t].op \in {"read", "readVersion"}
      BY <1>0, <2>4 DEF ReadRow, Finish, CassandraTypeOK
    <3>2. LatestOK(t)'
      BY <1>0, <1>1, <3>1 DEF ThreadOK, LatestOK, Looks
    <3>3. QED
      BY <1>1, <1>5, <3>1, <3>2 DEF ThreadOK, MethodOK, UpdateOK, HistoryOK, Looks
  <2>5. CASE RowToDelete(t)
    <3>1. pc'[t] = "deleteRow" /\ outcome'[t] = "none" /\ request[t].op = "deleteVersion"
      BY <1>0, <1>1, <2>5 DEF RowToDelete, Goto, CassandraTypeOK
    <3>2. QED
      BY <1>1, <1>5, <3>1 DEF ThreadOK, MethodOK, LatestOK, UpdateOK, HistoryOK, Looks
  <2>6. CASE CompareVersions(t)
    <3>1. request[t].op = "update" /\ pc[t] = "selectRow" /\ latest' = latest
      BY <2>6 DEF CompareVersions
    <3>2. \/ pc'[t] = "done" /\ outcome'[t] \in {"error", "conflict"}
          \/ /\ pc'[t] = "selectFirst" /\ outcome'[t] = "none"
             /\ Lower(latest[t], request[t].version)
      BY <1>0, <1>1, <2>6 DEF CompareVersions, Goto, Finish, CassandraTypeOK
    <3>3. LatestOK(t)' \/ pc'[t] = "done"
      BY <1>0, <1>1, <3>1, <3>2 DEF ThreadOK, LatestOK, Looks
    <3>4. CASE pc'[t] = "done" /\ outcome'[t] \in {"error", "conflict"}
      BY <1>1, <1>5, <3>4, FailedOK
    <3>5. CASE /\ pc'[t] = "selectFirst" /\ outcome'[t] = "none"
               /\ Lower(latest[t], request[t].version)
      <4>1. MethodOK(t)' /\ UpdateOK(t)' /\ HistoryOK(t)'
        BY <1>1, <1>5, <3>1, <3>5 DEF MethodOK, UpdateOK, HistoryOK, Looks
      <4>2. QED
        BY <3>3, <3>5, <4>1 DEF ThreadOK
    <3>6. QED
      BY <3>2, <3>4, <3>5
  <2>7. CASE SelectFirst(t)
    <3>1. request[t].op \in {"update", "delete"} /\ pc[t] = "selectFirst" /\ latest' = latest
      BY <1>0, <2>7 DEF SelectFirst, ThreadOK, MethodOK
    <3>2. CASE Stored(request[t].name) = {}
      <4>1. pc'[t] = "done" /\ outcome'[t] = "absent"
        BY <1>0, <2>7, <3>2 DEF SelectFirst, Finish, CassandraTypeOK
      <4>2. request[t].op = "update" => dropped[t]
        BY <1>0, <3>1, <3>2 DEF ThreadOK, LatestOK, Looks, Stored
      <4>3. QED
        BY <1>1, <1>5, <3>1, <4>1, <4>2
           DEF ThreadOK, MethodOK, LatestOK, UpdateOK, HistoryOK, Looks
    <3>3. CASE Stored(request[t].name) # {}
      <4>1. /\ pc'[t] = IF request[t].op = "update" THEN "insert" ELSE "deleteRows"
            /\ outcome'[t] = "none"
        BY <1>0, <1>1, <2>7, <3>3 DEF SelectFirst, Goto, CassandraTypeOK
      <4>2. LatestOK(t)' /\ UpdateOK(t)'
        BY <1>0, <1>1, <3>1, <4>1 DEF ThreadOK, LatestOK, UpdateOK, Looks
      <4>3. QED
        BY <1>1, <1>5, <3>1, <4>1, <4>2 DEF ThreadOK, MethodOK, HistoryOK, Looks
    <3>4. QED
      BY <3>2, <3>3
  <2>8. QED
    BY <2>1, <2>2, <2>3, <2>4, <2>5, <2>6, <2>7 DEF Select
<1>7. QED
  BY <1>3, <1>4, <1>6 DEF IInv

LEMMA ModifyOK ==
  ASSUME IInv, NEW t \in Threads, Modify(t) \/ AnswerLost(t)
  PROVE  IInv'
<1>0. CassandraTypeOK /\ ThreadOK(t)
  BY DEF IInv
<1>1. /\ pc[t] \in {"insert", "deleteRow", "deleteRows"} /\ Apply(t)
      /\ UNCHANGED <<request, latest>>
      /\ \E how \in {"ok", "error"} : Finish(t, how)
  BY DEF Modify, AnswerLost
<1>2. /\ rows' \in [Keys -> Contents \cup {Absent}]
      /\ kept' \in [Threads -> SUBSET Versions]
      /\ dropped' \in [Threads -> BOOLEAN]
      /\ \A u \in Threads : Kept(u)
      /\ pc[t] = "deleteRow" => request[t].version \notin kept'[t]
      /\ pc[t] = "deleteRows" => kept'[t] = {}
  BY <1>1, ApplyFacts
<1>3. CassandraTypeOK'
  BY <1>0, <1>1, <1>2 DEF Finish, CassandraTypeOK, Labels, Outcomes
<1>4. pc'[t] = "done" /\ outcome'[t] \in {"ok", "error"} /\ outcome[t] = "none"
      /\ request[t] \in Requests
  BY <1>0, <1>1 DEF Finish, CassandraTypeOK, ThreadOK, MethodOK
<1>5. ThreadOK(t)'
  <2>1. MethodOK(t)'
    BY <1>1, <1>4 DEF MethodOK
  <2>2. LatestOK(t)'
    <3>1. Looks(t) => request[t].op = "update" /\ pc[t] = "insert" /\ request[t].name \in Names
      BY <1>0, <1>1, <1>4, RequestFacts DEF Looks, ThreadOK, MethodOK
    <3>2. QED
      BY <1>0, <1>1, <1>2, <1>4, <3>1 DEF ThreadOK, LatestOK, Kept, Looks
  <2>3. UpdateOK(t)'
    BY <1>0, <1>1, <1>4 DEF ThreadOK, MethodOK, UpdateOK
  <2>4. HistoryOK(t)'
    BY <1>0, <1>1, <1>2, <1>4 DEF ThreadOK, MethodOK, HistoryOK, Kept, Looks
  <2>5. QED
    BY <2>1, <2>2, <2>3, <2>4 DEF ThreadOK
<1>6. ASSUME NEW u \in Threads \ {t} PROVE ThreadOK(u)'
  <2>1. pc'[u] = pc[u] /\ outcome'[u] = outcome[u]
    BY <1>0, <1>1 DEF Finish, CassandraTypeOK
  <2>2. QED
    BY <1>1, <1>2, <2>1, StillOK
<1>7. QED
  BY <1>3, <1>5, <1>6 DEF IInv

LEMMA Invariance == IInv /\ [Next]_vars => IInv'
<1> SUFFICES ASSUME IInv, [Next]_vars PROVE IInv'
  OBVIOUS
<1>1. CASE Restart
  <2>1. CassandraTypeOK'
    BY <1>1 DEF Restart, IInv, CassandraTypeOK, Labels, Outcomes
  <2>2. ASSUME NEW t \in Threads PROVE ThreadOK(t)'
    BY <1>1 DEF Restart, ThreadOK, MethodOK, LatestOK, UpdateOK, HistoryOK, NoRequest, Looks
  <2>3. QED
    BY <2>1, <2>2 DEF IInv
<1>2. CASE UNCHANGED vars
  <2>1. CassandraTypeOK'
    BY <1>2 DEF vars, IInv, CassandraTypeOK
  <2>2. ASSUME NEW u \in Threads PROVE ThreadOK(u)'
    BY <1>2, KeptByDefault, StillOK DEF vars
  <2>3. QED
    BY <2>1, <2>2 DEF IInv
<1>3. QED
  BY <1>1, <1>2, InvokeOK, RespondOK, SelectOK, ModifyOK DEF Next, Step

(***************************************************************************)
(* The theorems                                                            *)
(***************************************************************************)

(* Every variable keeps its type: what is selected as latest is a version, *)
(* and what is inserted is a content.                                      *)
THEOREM CassandraTypeCorrect == Spec => []CassandraTypeOK
<1>1. IInv => CassandraTypeOK
  BY DEF IInv
<1>2. QED
  BY InitIInv, Invariance, <1>1, PTL DEF Spec

(* A read answers a version as high as any stored all through the call,    *)
(* among those that are written with as many digits.                       *)
THEOREM ReadsAreLatest == Spec => []ReadIsLatest
<1>1. IInv => ReadIsLatest
  <2> SUFFICES ASSUME IInv, NEW t \in Threads, request[t].op = "read", outcome[t] = "ok",
                      NEW v \in kept[t], SameWidths(v, latest[t])
               PROVE  ~Lower(latest[t], v)
    BY DEF ReadIsLatest
  <2>1. latest[t] \in Versions /\ ~TextLower(latest[t], v)
    BY DEF IInv, ThreadOK, LatestOK, Looks
  <2>2. v \in AllVersions /\ latest[t] \in AllVersions
    BY <2>1, CassandraConstantsAssumption DEF IInv, CassandraTypeOK
  <2>3. SameWidths(latest[t], v)
    BY DEF SameWidths
  <2>4. QED
    BY <2>1, <2>2, <2>3, TextLowerOfSameWidths
<1>2. QED
  BY InitIInv, Invariance, <1>1, PTL DEF Spec

(* A successful update writes a version above every one stored all through *)
(* the call and written with as many digits as the latest.                 *)
THEOREM UpdatesGoUp == Spec => []UpdateGoesUp
<1>1. IInv => UpdateGoesUp
  <2> SUFFICES ASSUME IInv, NEW t \in Threads, request[t].op = "update", outcome[t] = "ok",
                      NEW v \in kept[t], SameWidths(v, latest[t])
               PROVE  Lower(v, request[t].version)
    BY DEF UpdateGoesUp
  <2>1. /\ latest[t] \in Versions /\ ~TextLower(latest[t], v)
        /\ Lower(latest[t], request[t].version)
    BY DEF IInv, ThreadOK, LatestOK, UpdateOK, Looks
  <2>2. pc[t] # "idle"
    BY DEF IInv, ThreadOK, MethodOK
  <2>3. request[t].version \in Versions
    BY <2>2, RequestFacts DEF IInv, ThreadOK, MethodOK
  <2>4. v \in AllVersions /\ latest[t] \in AllVersions /\ request[t].version \in AllVersions
    BY <2>1, <2>3, CassandraConstantsAssumption DEF IInv, CassandraTypeOK
  <2>5. SameWidths(latest[t], v)
    BY DEF SameWidths
  <2>6. ~Lower(latest[t], v)
    BY <2>1, <2>4, <2>5, TextLowerOfSameWidths
  <2>7. QED
    BY <2>1, <2>4, <2>6, LowerIsAnOrder
<1>2. QED
  BY InitIInv, Invariance, <1>1, PTL DEF Spec

(* What a successful delete was to delete has not been there all the time. *)
THEOREM DeletesAreComplete == Spec => []DeletedRowsAreGone
<1>1. IInv => DeletedRowsAreGone
  BY DEF IInv, ThreadOK, HistoryOK, DeletedRowsAreGone
<1>2. QED
  BY InitIInv, Invariance, <1>1, PTL DEF Spec

(* A name is answered as absent only if a version of it was deleted during *)
(* the call.                                                               *)
THEOREM AbsentWereDropped == Spec => []AbsentWasDropped
<1>1. IInv => AbsentWasDropped
  BY DEF IInv, ThreadOK, HistoryOK, AbsentWasDropped, Looks
<1>2. QED
  BY InitIInv, Invariance, <1>1, PTL DEF Spec
=============================================================================
