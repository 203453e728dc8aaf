------------------------ MODULE CurrentVersionProofs ------------------------
(***************************************************************************)
(* Proofs about CurrentVersion, for any number of threads, files and       *)
(* versions, on all three storages, with faults and without.               *)
(***************************************************************************)
EXTENDS CurrentVersion, TLAPS

(***************************************************************************)
(* The inductive invariant                                                 *)
(***************************************************************************)

WritingFile == {"open", "write", "mixed"}
WritingRow  == {"update", "insert"}

(* Where a thread is in which method, on which storage.                    *)
ControlOK ==
  \A t \in Threads :
    /\ pc[t] # "idle" => req[t] \in Requests
    /\ pc[t] \in {"readVersion"} \cup WritingFile \cup WritingRow => req[t].op = "set"
    /\ pc[t] \in WritingFile => FlatFile
    /\ pc[t] \in WritingRow => ~FlatFile

(* A set that is alone has nobody to interfere with, and a local write that *)
(* met another is not alone.                                               *)
AloneOK ==
  \A t \in Threads : alone[t] =>
    /\ pc[t] # "mixed"
    /\ Setting(t) => \A u \in Threads \ {t} : Setting(u) => ~Interferes(req[t], req[u])

(* A kept version is in every map that was read and will be written, and   *)
(* nobody is setting another for the same file.                            *)
KeepsOK ==
  \A n \in Names : kept[n] # None =>
    \A t \in Threads :
      /\ pc[t] \in WritingFile => data[t][n] = kept[n]
      /\ Setting(t) => req[t].name # n

WritesRequest ==
  \A t \in Threads : pc[t] \in WritingFile => data[t][req[t].name] = req[t].version

(* After writes that met, the map may be a splice, and nothing is kept.    *)
MixedOK ==
  \A t \in Threads : pc[t] = "mixed" => ~intact /\ \A n \in Names : kept[n] = None

(* Once the version was found, it was stored at some time, and so was all  *)
(* that is written, unless it was read from a splice.                      *)
StoredOK ==
  /\ stored \subseteq ever
  /\ \A t \in Threads :
       /\ Setting(t) /\ pc[t] # "readVersion" => <<req[t].name, req[t].version>> \in ever
       /\ intact /\ pc[t] \in WritingFile =>
            \A n \in Names : data[t][n] # None => <<n, data[t][n]>> \in ever

IInv ==
  /\ CurrentTypeOK
  /\ ControlOK
  /\ AloneOK
  /\ WritesRequest
  /\ MixedOK
  /\ KeepsOK
  /\ AckedSetIsKept
  /\ StoredOK
  /\ CurrentWasStored

LEMMA RequestFacts ==
  ASSUME NEW r \in Requests
  PROVE  /\ r.op \in {"set", "get"}
         /\ r.name \in Names
         /\ r.op = "set" => r.version \in Versions
         /\ r.version \in Versions \cup {None}
BY DEF Requests

(* Histories are kept or forgotten.                                        *)
LEMMA SpoilFacts ==
  ASSUME NEW condition, SpoilIf(condition)
  PROVE  /\ kept' = kept \/ kept' = EmptyMap
         /\ \A n \in Names : kept'[n] # None => kept'[n] = kept[n]
         /\ intact' => intact
         /\ condition => kept' = EmptyMap /\ intact' = FALSE
         /\ intact \in BOOLEAN => intact' \in BOOLEAN
         /\ ~condition => kept' = kept /\ intact' = intact
BY DEF SpoilIf, Spoil, EmptyMap

LEMMA MapFacts ==
  /\ EmptyMap \in Maps
  /\ \A d \in Maps, n \in Names, v \in Versions \cup {None} :
       [d EXCEPT ![n] = v] \in Maps
BY DEF EmptyMap, Maps

LEMMA InitIInv == Init => IInv
<1> SUFFICES ASSUME Init PROVE IInv
  OBVIOUS
<1> USE DEF Init
<1>1. CurrentTypeOK
  BY MapFacts DEF CurrentTypeOK, Labels, FlatFile
<1>2. ControlOK
  BY DEF ControlOK, WritingFile, WritingRow
<1>3. AloneOK /\ WritesRequest /\ MixedOK
  BY DEF AloneOK, WritesRequest, MixedOK, WritingFile
<1>4. KeepsOK /\ AckedSetIsKept
  BY DEF KeepsOK, AckedSetIsKept, EmptyMap
<1>5. StoredOK
  BY DEF StoredOK, Setting, WritingFile
<1>6. CurrentWasStored
  BY NotMapsAssumption DEF CurrentWasStored, EmptyMap
<1>7. QED
  BY <1>1, <1>2, <1>3, <1>4, <1>5, <1>6 DEF IInv

(***************************************************************************)
(* Types and control                                                       *)
(***************************************************************************)

LEMMA TypeStep == CurrentTypeOK /\ ControlOK /\ [Next]_vars => CurrentTypeOK'
<1> SUFFICES ASSUME CurrentTypeOK, ControlOK, [Next]_vars PROVE CurrentTypeOK'
  OBVIOUS
<1> USE MapFacts DEF CurrentTypeOK, FlatFile
<1>1. ASSUME NEW t \in Threads, NEW r \in Requests, Invoke(t, r) PROVE CurrentTypeOK'
  <2>1. r.name \in Names
    BY RequestFacts
  <2>2. pc' \in [Threads -> Labels] /\ req' \in [Threads -> Requests \cup {NoRequest}]
    BY <1>1 DEF Invoke, Goto, Labels
  <2>3. alone' \in [Threads -> BOOLEAN]
    BY <1>1 DEF Invoke
  <2>4. kept' \in Maps
    BY <1>1, <2>1 DEF Invoke, Maps
  <2>5. QED
    BY <1>1, <2>2, <2>3, <2>4 DEF Invoke
<1>2. ASSUME NEW t \in Threads, Respond(t) PROVE CurrentTypeOK'
  BY <1>2 DEF Respond, Goto, Labels
<1>3. ASSUME NEW t \in Threads, ReadVersion(t) PROVE CurrentTypeOK'
  BY <1>3 DEF ReadVersion, Goto, Finish, Labels
<1>4. ASSUME NEW t \in Threads, ReadMap(t) PROVE CurrentTypeOK'
  <2>1. PICK d \in file :
          /\ file' = IF BeingWritten THEN file ELSE {d}
          /\ IF d = Torn
               THEN Finish(t, "error") /\ UNCHANGED <<data, answer>>
               ELSE Use(t, IF d = NoFile THEN EmptyMap ELSE d)
    BY <1>4 DEF ReadMap
  <2>2. req[t] \in Requests /\ file' \subseteq file
    BY <1>4, <2>1 DEF ReadMap, ControlOK
  <2>3. kept' \in Maps /\ intact' \in BOOLEAN
    BY <1>4, SpoilFacts DEF ReadMap
  <2> DEFINE map == IF d = NoFile THEN EmptyMap ELSE d
             n   == req[t].name
  <2>4. n \in Names /\ (req[t].op = "set" => req[t].version \in Versions)
    BY <2>2, RequestFacts
  <2>5. CASE d = Torn
    BY <1>4, <2>1, <2>2, <2>5, <2>3 DEF ReadMap, Finish, Goto, Labels
  <2>6. CASE d # Torn
    <3>1. map \in Maps
      BY <2>6
    <3>2. map[n] \in Versions \cup {None}
      BY <3>1, <2>4 DEF Maps
    <3>3. CASE req[t].op = "set"
      <4>1. [map EXCEPT ![n] = req[t].version] \in Maps
        BY <3>1, <3>3, <2>4
      <4>2. data' = [data EXCEPT ![t] = [map EXCEPT ![n] = req[t].version]]
            /\ answer' = answer /\ outcome' = outcome /\ pc' \in [Threads -> Labels]
        BY <2>1, <2>6, <3>3 DEF Use, Goto, Labels
      <4>3. QED
        BY <1>4, <2>2, <2>3, <4>1, <4>2 DEF ReadMap
    <3>4. CASE req[t].op # "set"
      <4>1. answer' = [answer EXCEPT ![t] = map[n]] /\ data' = data
        BY <2>1, <2>6, <3>4 DEF Use
      <4>2. /\ outcome' \in [Threads -> {"none", "ok", "absent", "error"}]
            /\ pc' \in [Threads -> Labels]
        BY <2>1, <2>6, <3>4 DEF Use, Finish, Goto, Labels
      <4>3. QED
        BY <1>4, <2>2, <2>3, <3>2, <4>1, <4>2 DEF ReadMap
    <3>5. QED
      BY <3>3, <3>4
  <2>7. QED
    BY <2>5, <2>6
<1>5. ASSUME NEW t \in Threads, ReadCurrent(t) PROVE CurrentTypeOK'
  BY <1>5 DEF ReadCurrent, Goto, Finish, Labels
<1>6. ASSUME NEW t \in Threads, StartWrite(t) PROVE CurrentTypeOK'
  <2>1. pc' \in [Threads -> Labels]
    BY <1>6 DEF StartWrite, Labels
  <2>2. file' \subseteq Maps \cup {NoFile, Torn} /\ storage = "local"
    BY <1>6 DEF StartWrite
  <2>3. kept' \in Maps /\ intact' \in BOOLEAN
    BY <1>6, SpoilFacts DEF StartWrite
  <2>4. QED
    BY <1>6, <2>1, <2>2, <2>3 DEF StartWrite
<1>7. ASSUME NEW t \in Threads, FinishWrite(t) \/ PutObject(t) \/ InsertRow(t)
      PROVE  CurrentTypeOK'
  <2>1. Acknowledge(t) /\ req[t] \in Requests /\ req[t].op = "set"
    BY <1>7 DEF FinishWrite, PutObject, InsertRow, ControlOK, WritingFile, WritingRow
  <2>2. req[t].name \in Names /\ req[t].version \in Versions
    BY <2>1, RequestFacts
  <2>3. kept' \in Maps
    BY <2>1, <2>2 DEF Acknowledge
  <2>4. /\ pc' \in [Threads -> Labels]
        /\ outcome' \in [Threads -> {"none", "ok", "absent", "error"}]
    BY <2>1 DEF Acknowledge, Finish, Goto, Labels
  <2>5. file' \subseteq Maps \cup (IF FlatFile' THEN {NoFile, Torn} ELSE {})
    <3>1. CASE FinishWrite(t)
      BY <3>1 DEF FinishWrite
    <3>2. CASE PutObject(t)
      BY <3>2 DEF PutObject
    <3>3. CASE InsertRow(t)
      BY <3>3, <2>2 DEF InsertRow, WriteRow, ControlOK, WritingRow
    <3>4. QED
      BY <1>7, <3>1, <3>2, <3>3
  <2>6. QED
    BY <1>7, <2>3, <2>4, <2>5 DEF FinishWrite, PutObject, InsertRow
<1>8. ASSUME NEW t \in Threads, UpdateRow(t) PROVE CurrentTypeOK'
  <2>1. req[t].name \in Names /\ req[t].version \in Versions
    BY <1>8, RequestFacts DEF UpdateRow, ControlOK, WritingRow
  <2>2. file' \subseteq Maps
    BY <1>8, <2>1 DEF UpdateRow, WriteRow, ControlOK, WritingRow
  <2>3. QED
    BY <1>8, <2>2 DEF UpdateRow, Goto, Labels
<1>9. ASSUME NEW t \in Threads, IOFailure(t) PROVE CurrentTypeOK'
  <2>1. kept' \in Maps /\ intact' \in BOOLEAN
    BY <1>9, SpoilFacts DEF IOFailure
  <2>2. QED
    BY <1>9, <2>1 DEF IOFailure, Goto, Finish, Labels
<1>10. ASSUME NEW t \in Threads, LostAnswer(t) PROVE CurrentTypeOK'
  <2>1. file' \subseteq Maps
    <3>1. CASE storage = "s3" /\ pc[t] = "open" /\ file' = {data[t]}
      BY <3>1
    <3>2. CASE pc[t] \in {"update", "insert"} /\ WriteRow(t)
      <4>1. req[t].name \in Names /\ req[t].version \in Versions
        BY <3>2, RequestFacts DEF ControlOK, WritingRow
      <4>2. QED
        BY <3>2, <4>1 DEF WriteRow, ControlOK, WritingRow
    <3>3. QED
      BY <1>10, <3>1, <3>2 DEF LostAnswer
  <2>2. QED
    BY <1>10, <2>1 DEF LostAnswer, Goto, Finish, Labels
<1>11. CASE Restart
  <2>1. kept' \in Maps /\ intact' \in BOOLEAN
    BY <1>11, SpoilFacts DEF Restart
  <2>2. QED
    BY <1>11, <2>1 DEF Restart, Labels
<1>12. ASSUME NEW n \in Names, NEW v \in Versions, Upload(n, v) \/ Erase(n, v)
       PROVE  CurrentTypeOK'
  BY <1>12 DEF Upload, Erase
<1>13. CASE UNCHANGED vars
  BY <1>13 DEF vars
<1>14. QED
  BY <1>1, <1>2, <1>3, <1>4, <1>5, <1>6, <1>7, <1>8, <1>9, <1>10, <1>11, <1>12, <1>13
     DEF Next, Step

LEMMA ControlStep == CurrentTypeOK /\ ControlOK /\ [Next]_vars => ControlOK'
<1> SUFFICES ASSUME CurrentTypeOK, ControlOK, [Next]_vars PROVE ControlOK'
  OBVIOUS
<1> USE DEF CurrentTypeOK, ControlOK, WritingFile, WritingRow, FlatFile
<1>1. ASSUME NEW t \in Threads, NEW r \in Requests, Invoke(t, r) PROVE ControlOK'
  BY <1>1, RequestFacts DEF Invoke, Goto
<1>2. ASSUME NEW t \in Threads, Respond(t) PROVE ControlOK'
  BY <1>2 DEF Respond, Goto
<1>3. ASSUME NEW t \in Threads, ReadVersion(t) PROVE ControlOK'
  BY <1>3 DEF ReadVersion, Goto, Finish
<1>4. ASSUME NEW t \in Threads, ReadMap(t) PROVE ControlOK'
  BY <1>4 DEF ReadMap, Use, Goto, Finish
<1>5. ASSUME NEW t \in Threads, ReadCurrent(t) PROVE ControlOK'
  BY <1>5 DEF ReadCurrent, Goto, Finish
<1>6. ASSUME NEW t \in Threads, StartWrite(t) PROVE ControlOK'
  BY <1>6 DEF StartWrite, Writers
<1>7. ASSUME NEW t \in Threads, FinishWrite(t) \/ PutObject(t) \/ InsertRow(t)
      PROVE  ControlOK'
  BY <1>7 DEF FinishWrite, PutObject, InsertRow, Acknowledge, Goto, Finish
<1>8. ASSUME NEW t \in Threads, UpdateRow(t) PROVE ControlOK'
  BY <1>8 DEF UpdateRow, Goto
<1>9. ASSUME NEW t \in Threads, IOFailure(t) PROVE ControlOK'
  BY <1>9 DEF IOFailure, Goto, Finish
<1>10. ASSUME NEW t \in Threads, LostAnswer(t) PROVE ControlOK'
  BY <1>10 DEF LostAnswer, Goto, Finish
<1>11. CASE Restart
  BY <1>11 DEF Restart
<1>12. ASSUME NEW n \in Names, NEW v \in Versions, Upload(n, v) \/ Erase(n, v)
       PROVE  ControlOK'
  BY <1>12 DEF Upload, Erase
<1>13. CASE UNCHANGED vars
  BY <1>13 DEF vars
<1>14. QED
  BY <1>1, <1>2, <1>3, <1>4, <1>5, <1>6, <1>7, <1>8, <1>9, <1>10, <1>11, <1>12, <1>13
     DEF Next, Step

(***************************************************************************)
(* Who sets alone                                                          *)
(***************************************************************************)

LEMMA WriterSets ==
  ASSUME ControlOK, NEW t \in Threads, pc[t] \in WritingFile \cup WritingRow
  PROVE  Setting(t)
BY DEF ControlOK, Setting, WritingFile, WritingRow

LEMMA AloneStep == CurrentTypeOK /\ ControlOK /\ AloneOK /\ [Next]_vars => AloneOK'
<1> SUFFICES ASSUME CurrentTypeOK, ControlOK, AloneOK, [Next]_vars PROVE AloneOK'
  OBVIOUS
<1> USE DEF CurrentTypeOK, AloneOK, Setting, Interferes
<1>1. ASSUME NEW t \in Threads, NEW r \in Requests, Invoke(t, r) PROVE AloneOK'
  <2> DEFINE met == {u \in Threads : Setting(u) /\ Interferes(r, req[u])}
  <2>1. alone' = [u \in Threads |-> IF u = t THEN met = {} ELSE alone[u] /\ u \notin met]
    BY <1>1 DEF Invoke
  <2>2. /\ pc' = [pc EXCEPT ![t] = IF r.op = "set" THEN "readVersion" ELSE "readMap"]
        /\ req' = [req EXCEPT ![t] = r]
        /\ storage' = storage
        /\ ~Setting(t)
    BY <1>1 DEF Invoke, Goto
  <2>3. SUFFICES ASSUME NEW u \in Threads, alone'[u]
                 PROVE  /\ pc'[u] # "mixed"
                        /\ Setting(u)' => \A w \in Threads \ {u} :
                             Setting(w)' => ~Interferes(req'[u], req'[w])
    BY <2>2 DEF Interferes
  <2>4. CASE u = t
    <3>1. met = {}
      BY <2>1, <2>3, <2>4
    <3>2. QED
      BY <3>1, <2>2, <2>4
  <2>5. CASE u # t
    <3>1. alone[u] /\ u \notin met
      BY <2>1, <2>3, <2>5
    <3>2. QED
      BY <3>1, <2>2, <2>5
  <2>6. QED
    BY <2>4, <2>5
<1>2. ASSUME NEW t \in Threads, Respond(t) PROVE AloneOK'
  BY <1>2 DEF Respond, Goto
<1>3. ASSUME NEW t \in Threads, ReadVersion(t) PROVE AloneOK'
  BY <1>3 DEF ReadVersion, Goto, Finish
<1>4. ASSUME NEW t \in Threads, ReadMap(t) PROVE AloneOK'
  BY <1>4 DEF ReadMap, Use, Goto, Finish
<1>5. ASSUME NEW t \in Threads, ReadCurrent(t) PROVE AloneOK'
  BY <1>5 DEF ReadCurrent, Goto, Finish
<1>6. ASSUME NEW t \in Threads, StartWrite(t) PROVE AloneOK'
  <2>1. CASE ~BeingWritten
    BY <1>6, <2>1 DEF StartWrite
  <2>2. CASE BeingWritten
    <3>1. pc' = [u \in Threads |-> IF u \in Writers \cup {t} THEN "mixed" ELSE pc[u]]
          /\ req' = req /\ alone' = alone /\ storage' = storage /\ storage = "local"
          /\ pc[t] = "open"
      BY <1>6, <2>2 DEF StartWrite
    <3>2. \A u \in Writers \cup {t} : Setting(u) /\ req[u].op = "set"
      BY <3>1, WriterSets DEF Writers, WritingFile
    <3>3. t \notin Writers /\ Writers \subseteq Threads
      BY <3>1 DEF Writers
    <3>4. \A u \in Writers : ~alone[u] /\ ~alone[t]
      BY <3>1, <3>2, <3>3
    <3>5. \A u \in Writers \cup {t} : ~alone[u]
      BY <3>4, <2>2 DEF BeingWritten
    <3>6. \A u \in Threads : Setting(u)' => Setting(u)
      BY <3>1, <3>2
    <3>7. QED
      BY <3>1, <3>5, <3>6
  <2>3. QED
    BY <2>1, <2>2
<1>7. ASSUME NEW t \in Threads, FinishWrite(t) \/ PutObject(t) \/ InsertRow(t)
      PROVE  AloneOK'
  BY <1>7 DEF FinishWrite, PutObject, InsertRow, Acknowledge, Goto, Finish
<1>8. ASSUME NEW t \in Threads, UpdateRow(t) PROVE AloneOK'
  BY <1>8 DEF UpdateRow, Goto
<1>9. ASSUME NEW t \in Threads, IOFailure(t) PROVE AloneOK'
  BY <1>9 DEF IOFailure, Goto, Finish
<1>10. ASSUME NEW t \in Threads, LostAnswer(t) PROVE AloneOK'
  BY <1>10 DEF LostAnswer, Goto, Finish
<1>11. CASE Restart
  BY <1>11 DEF Restart
<1>12. ASSUME NEW n \in Names, NEW v \in Versions, Upload(n, v) \/ Erase(n, v)
       PROVE  AloneOK'
  BY <1>12 DEF Upload, Erase
<1>13. CASE UNCHANGED vars
  BY <1>13 DEF vars
<1>14. QED
  BY <1>1, <1>2, <1>3, <1>4, <1>5, <1>6, <1>7, <1>8, <1>9, <1>10, <1>11, <1>12, <1>13
     DEF Next, Step

(***************************************************************************)
(* What is written, and what is kept                                       *)
(***************************************************************************)

LEMMA WritesStep ==
  CurrentTypeOK /\ ControlOK /\ WritesRequest /\ [Next]_vars => WritesRequest'
<1> SUFFICES ASSUME CurrentTypeOK, ControlOK, WritesRequest, [Next]_vars
             PROVE  WritesRequest'
  OBVIOUS
<1> USE DEF CurrentTypeOK, WritesRequest, WritingFile, FlatFile
<1>1. ASSUME NEW t \in Threads, NEW r \in Requests, Invoke(t, r) PROVE WritesRequest'
  BY <1>1 DEF Invoke, Goto
<1>2. ASSUME NEW t \in Threads, Respond(t) PROVE WritesRequest'
  BY <1>2 DEF Respond, Goto
<1>3. ASSUME NEW t \in Threads, ReadVersion(t) PROVE WritesRequest'
  BY <1>3 DEF ReadVersion, Goto, Finish
<1>4. ASSUME NEW t \in Threads, ReadMap(t) PROVE WritesRequest'
  <2>1. PICK d \in file :
          IF d = Torn
            THEN Finish(t, "error") /\ UNCHANGED <<data, answer>>
            ELSE Use(t, IF d = NoFile THEN EmptyMap ELSE d)
    BY <1>4 DEF ReadMap
  <2> DEFINE map == IF d = NoFile THEN EmptyMap ELSE d
  <2>2. req[t] \in Requests /\ req' = req
    BY <1>4 DEF ReadMap, ControlOK
  <2>3. CASE d = Torn
    BY <2>1, <2>2, <2>3 DEF Finish, Goto
  <2>4. CASE d # Torn /\ req[t].op = "set"
    <3>1. map \in Maps /\ req[t].name \in Names
      BY <2>2, <2>4, MapFacts, RequestFacts
    <3>2. data' = [data EXCEPT ![t] = [map EXCEPT ![req[t].name] = req[t].version]]
      BY <2>1, <2>4 DEF Use
    <3>3. data'[t][req[t].name] = req[t].version
      BY <3>1, <3>2 DEF Maps
    <3>4. \A u \in Threads \ {t} : pc'[u] = pc[u] /\ data'[u] = data[u]
      BY <2>1, <2>4, <3>2 DEF Use, Goto
    <3>5. QED
      BY <2>2, <3>3, <3>4
  <2>5. CASE d # Torn /\ req[t].op # "set"
    BY <2>1, <2>2, <2>5 DEF Use, Goto, Finish
  <2>6. QED
    BY <2>3, <2>4, <2>5
<1>5. ASSUME NEW t \in Threads, ReadCurrent(t) PROVE WritesRequest'
  BY <1>5 DEF ReadCurrent, Goto, Finish
<1>6. ASSUME NEW t \in Threads, StartWrite(t) PROVE WritesRequest'
  BY <1>6 DEF StartWrite, Writers
<1>7. ASSUME NEW t \in Threads, FinishWrite(t) \/ PutObject(t) \/ InsertRow(t)
      PROVE  WritesRequest'
  BY <1>7 DEF FinishWrite, PutObject, InsertRow, Acknowledge, Goto, Finish
<1>8. ASSUME NEW t \in Threads, UpdateRow(t) PROVE WritesRequest'
  BY <1>8 DEF UpdateRow, Goto
<1>9. ASSUME NEW t \in Threads, IOFailure(t) PROVE WritesRequest'
  BY <1>9 DEF IOFailure, Goto, Finish
<1>10. ASSUME NEW t \in Threads, LostAnswer(t) PROVE WritesRequest'
  BY <1>10 DEF LostAnswer, Goto, Finish
<1>11. CASE Restart
  BY <1>11 DEF Restart
<1>12. ASSUME NEW n \in Names, NEW v \in Versions, Upload(n, v) \/ Erase(n, v)
       PROVE  WritesRequest'
  BY <1>12 DEF Upload, Erase
<1>13. CASE UNCHANGED vars
  BY <1>13 DEF vars
<1>14. QED
  BY <1>1, <1>2, <1>3, <1>4, <1>5, <1>6, <1>7, <1>8, <1>9, <1>10, <1>11, <1>12, <1>13
     DEF Next, Step

(* What a read between writes finds of a kept version.                     *)
LEMMA KeptIsFound ==
  ASSUME AckedSetIsKept, ~BeingWritten, NEW n \in Names, kept[n] # None, NEW d \in file
  PROVE  d \in Maps /\ d[n] = kept[n]
BY DEF AckedSetIsKept

(* An acknowledgement by t keeps what was kept, and its own version only if *)
(* it was alone.                                                           *)
LEMMA Acknowledged ==
  ASSUME CurrentTypeOK, ControlOK, AloneOK, NEW t \in Threads, Acknowledge(t),
         Setting(t), NEW n \in Names, kept'[n] # None
  PROVE  \/ kept'[n] = kept[n]
         \/ /\ n = req[t].name
            /\ kept'[n] = req[t].version
            /\ alone[t]
            /\ \A u \in Threads \ {t} : Setting(u) => ~Interferes(req[t], req[u])
BY DEF Acknowledge, CurrentTypeOK, AloneOK, Maps

LEMMA MixedStep ==
  CurrentTypeOK /\ ControlOK /\ AloneOK /\ MixedOK /\ [Next]_vars => MixedOK'
<1> SUFFICES ASSUME CurrentTypeOK, ControlOK, AloneOK, MixedOK, [Next]_vars
             PROVE  MixedOK'
  OBVIOUS
<1> USE DEF CurrentTypeOK, MixedOK
<1>1. ASSUME NEW t \in Threads, NEW r \in Requests, Invoke(t, r) PROVE MixedOK'
  <2>1. \A n \in Names : kept'[n] # None => kept'[n] = kept[n]
    BY <1>1, RequestFacts DEF Invoke, Maps
  <2>2. QED
    BY <1>1, <2>1 DEF Invoke, Goto
<1>2. ASSUME NEW t \in Threads, StartWrite(t) PROVE MixedOK'
  <2>1. CASE BeingWritten
    BY <1>2, <2>1 DEF StartWrite, SpoilIf, Spoil, EmptyMap
  <2>2. CASE ~BeingWritten
    BY <1>2, <2>2, SpoilFacts DEF StartWrite
  <2>3. QED
    BY <2>1, <2>2
<1>3. ASSUME NEW t \in Threads, FinishWrite(t) \/ PutObject(t) \/ InsertRow(t)
      PROVE  MixedOK'
  <2>1. SUFFICES ASSUME NEW u \in Threads, pc'[u] = "mixed", NEW n \in Names, kept'[n] # None
                 PROVE  FALSE
    BY <1>3 DEF FinishWrite, PutObject, InsertRow, Acknowledge, Goto, Finish
  <2>2. Acknowledge(t) /\ Setting(t) /\ pc[u] = "mixed" /\ u # t
    BY <1>3, <2>1
       DEF FinishWrite, PutObject, InsertRow, Acknowledge, Goto, Finish, ControlOK,
           WritingFile, WritingRow, Setting
  <2>3. Setting(u) /\ Interferes(req[t], req[u])
    BY <2>2 DEF ControlOK, Setting, Interferes, WritingFile, FlatFile
  <2>4. QED
    BY <2>1, <2>2, <2>3, Acknowledged
<1>4. ASSUME NEW t \in Threads, ReadMap(t) PROVE MixedOK'
  <2>1. \A u \in Threads : pc'[u] = "mixed" => pc[u] = "mixed"
    BY <1>4 DEF ReadMap, Use, Goto, Finish
  <2>2. QED
    BY <1>4, <2>1, SpoilFacts DEF ReadMap
<1>5. ASSUME NEW t \in Threads, IOFailure(t) PROVE MixedOK'
  BY <1>5, SpoilFacts DEF IOFailure, Goto, Finish
<1>6. CASE Restart
  BY <1>6 DEF Restart
<1>7. ASSUME NEW t \in Threads,
             Respond(t) \/ ReadVersion(t) \/ ReadCurrent(t) \/ UpdateRow(t) \/ LostAnswer(t)
      PROVE  MixedOK'
  BY <1>7 DEF Respond, ReadVersion, ReadCurrent, UpdateRow, LostAnswer, Goto, Finish
<1>8. CASE (\E n \in Names, v \in Versions : Upload(n, v) \/ Erase(n, v))
           \/ UNCHANGED vars
  BY <1>8 DEF Upload, Erase, vars
<1>9. QED
  BY <1>1, <1>2, <1>3, <1>4, <1>5, <1>6, <1>7, <1>8 DEF Next, Step

LEMMA KeepsStep ==
  /\ CurrentTypeOK /\ ControlOK /\ AloneOK /\ KeepsOK /\ AckedSetIsKept
  /\ [Next]_vars
  => KeepsOK'
<1> SUFFICES ASSUME CurrentTypeOK, ControlOK, AloneOK, KeepsOK, AckedSetIsKept, [Next]_vars
             PROVE  KeepsOK'
  OBVIOUS
<1> USE DEF CurrentTypeOK, KeepsOK, WritingFile, Setting, FlatFile
<1>1. ASSUME NEW t \in Threads, NEW r \in Requests, Invoke(t, r) PROVE KeepsOK'
  <2>1. r.name \in Names
    BY RequestFacts
  <2>2. \A n \in Names : kept'[n] # None =>
          kept'[n] = kept[n] /\ ~(r.op = "set" /\ r.name = n)
    BY <1>1, <2>1 DEF Invoke, Maps
  <2>3. QED
    BY <1>1, <2>2 DEF Invoke, Goto
<1>2. ASSUME NEW t \in Threads, Respond(t) PROVE KeepsOK'
  BY <1>2 DEF Respond, Goto
<1>3. ASSUME NEW t \in Threads, ReadVersion(t) PROVE KeepsOK'
  BY <1>3 DEF ReadVersion, Goto, Finish
<1>4. ASSUME NEW t \in Threads, ReadMap(t) PROVE KeepsOK'
  <2>1. PICK d \in file :
          IF d = Torn
            THEN Finish(t, "error") /\ UNCHANGED <<data, answer>>
            ELSE Use(t, IF d = NoFile THEN EmptyMap ELSE d)
    BY <1>4 DEF ReadMap
  <2>2. /\ req' = req /\ pc[t] = "readMap"
        /\ \A n \in Names : kept'[n] # None => kept'[n] = kept[n]
    BY <1>4, SpoilFacts DEF ReadMap
  <2>3. CASE d = Torn
    BY <2>1, <2>2, <2>3 DEF Finish, Goto
  <2>4. CASE d # Torn /\ req[t].op = "set"
    <3>1. data' = [data EXCEPT ![t] =
            [IF d = NoFile THEN EmptyMap ELSE d EXCEPT ![req[t].name] = req[t].version]]
      BY <2>1, <2>4 DEF Use
    <3>2. \A n \in Names : kept'[n] # None => data'[t][n] = kept'[n]
      <4>1. SUFFICES ASSUME NEW n \in Names, kept'[n] # None PROVE data'[t][n] = kept[n]
        BY <2>2
      <4>2. ~BeingWritten /\ kept[n] # None
        BY <1>4, <2>2, <2>4, <4>1, SpoilFacts DEF ReadMap, EmptyMap
      <4>3. d \in Maps /\ d[n] = kept[n]
        BY <4>2, KeptIsFound
      <4>4. req[t].name # n
        BY <4>2, <2>2, <2>4
      <4>5. QED
        BY <3>1, <4>3, <4>4, NotMapsAssumption DEF Maps
    <3>3. \A u \in Threads \ {t} : pc'[u] = pc[u] /\ data'[u] = data[u]
      BY <2>1, <2>4, <3>1 DEF Use, Goto
    <3>4. QED
      BY <2>2, <2>4, <3>2, <3>3
  <2>5. CASE d # Torn /\ req[t].op # "set"
    BY <2>1, <2>2, <2>5 DEF Use, Goto, Finish
  <2>6. QED
    BY <2>3, <2>4, <2>5
<1>5. ASSUME NEW t \in Threads, ReadCurrent(t) PROVE KeepsOK'
  BY <1>5 DEF ReadCurrent, Goto, Finish
<1>6. ASSUME NEW t \in Threads, StartWrite(t) PROVE KeepsOK'
  <2>1. \A n \in Names : kept'[n] # None => kept'[n] = kept[n]
    BY <1>6, SpoilFacts DEF StartWrite
  <2>2. req' = req /\ data' = data
    BY <1>6 DEF StartWrite
  <2>3. \A u \in Threads : pc'[u] = pc[u] \/ pc[u] \in WritingFile
    BY <1>6 DEF StartWrite, Writers
  <2>4. \A u \in Threads : Setting(u)' => Setting(u)
    BY <2>2, <2>3
  <2>5. QED
    BY <2>1, <2>2, <2>3, <2>4
<1>7. ASSUME NEW t \in Threads, FinishWrite(t) \/ PutObject(t) \/ InsertRow(t)
      PROVE  KeepsOK'
  <2>1. Acknowledge(t) /\ Setting(t) /\ req' = req /\ data' = data
    BY <1>7 DEF FinishWrite, PutObject, InsertRow, ControlOK, WritingRow
  <2>2. pc' = [pc EXCEPT ![t] = "done"]
    BY <2>1 DEF Acknowledge, Finish, Goto
  <2>3. SUFFICES ASSUME NEW n \in Names, kept'[n] # None, NEW u \in Threads
                 PROVE  /\ pc'[u] \in WritingFile => data'[u][n] = kept'[n]
                        /\ Setting(u)' => req'[u].name # n
    BY DEF Setting
  <2>4. CASE kept'[n] = kept[n]
    BY <2>1, <2>2, <2>3, <2>4
  <2>5. CASE /\ n = req[t].name
             /\ \A w \in Threads \ {t} : Setting(w) => ~Interferes(req[t], req[w])
    <3>1. CASE u = t
      BY <2>2, <3>1
    <3>2. CASE u # t
      BY <2>1, <2>2, <2>5, <3>2 DEF Interferes, ControlOK
    <3>3. QED
      BY <3>1, <3>2
  <2>6. QED
    BY <2>1, <2>3, <2>4, <2>5, Acknowledged
<1>8. ASSUME NEW t \in Threads, UpdateRow(t) PROVE KeepsOK'
  BY <1>8 DEF UpdateRow, Goto
<1>9. ASSUME NEW t \in Threads, IOFailure(t) PROVE KeepsOK'
  BY <1>9, SpoilFacts DEF IOFailure, Goto, Finish
<1>10. ASSUME NEW t \in Threads, LostAnswer(t) PROVE KeepsOK'
  BY <1>10 DEF LostAnswer, Goto, Finish
<1>11. CASE Restart
  BY <1>11, SpoilFacts DEF Restart
<1>12. ASSUME NEW n \in Names, NEW v \in Versions, Upload(n, v) \/ Erase(n, v)
       PROVE  KeepsOK'
  BY <1>12 DEF Upload, Erase
<1>13. CASE UNCHANGED vars
  BY <1>13 DEF vars
<1>14. QED
  BY <1>1, <1>2, <1>3, <1>4, <1>5, <1>6, <1>7, <1>8, <1>9, <1>10, <1>11, <1>12, <1>13
     DEF Next, Step

(* A row that is written keeps the kept versions of others.                *)
LEMMA RowKeeps ==
  ASSUME IInv, NEW t \in Threads, pc[t] \in WritingRow, WriteRow(t), NEW d \in file'
  PROVE  /\ d \in Maps
         /\ d[req[t].name] = req[t].version
         /\ \A n \in Names : kept[n] # None => d[n] = kept[n]
<1>1. Setting(t) /\ req[t] \in Requests /\ req[t].op = "set" /\ ~FlatFile
  BY WriterSets DEF IInv, ControlOK, WritingRow
<1>2. req[t].name \in Names /\ req[t].version \in Versions
  BY <1>1, RequestFacts
<1>3. PICK e \in file : d = [e EXCEPT ![req[t].name] = req[t].version]
  BY DEF WriteRow
<1>4. e \in Maps /\ d \in Maps
  BY <1>1, <1>2, <1>3, MapFacts DEF IInv, CurrentTypeOK
<1>5. ~BeingWritten
  BY <1>1 DEF IInv, ControlOK, BeingWritten, Writers, WritingFile
<1>6. ASSUME NEW n \in Names, kept[n] # None PROVE d[n] = kept[n]
  <2>1. req[t].name # n
    BY <1>1, <1>6 DEF IInv, KeepsOK
  <2>2. e[n] = kept[n]
    BY <1>5, <1>6, KeptIsFound DEF IInv
  <2>3. QED
    BY <1>2, <1>3, <1>4, <2>1, <2>2 DEF Maps
<1>7. d[req[t].name] = req[t].version
  BY <1>2, <1>3, <1>4 DEF Maps
<1>8. QED
  BY <1>4, <1>6, <1>7

LEMMA AckedStep == IInv /\ [Next]_vars => AckedSetIsKept'
<1> SUFFICES ASSUME IInv, [Next]_vars PROVE AckedSetIsKept'
  OBVIOUS
<1> USE DEF IInv
<1>1. ASSUME \A n \in Names : kept'[n] # None => kept'[n] = kept[n] /\ ~BeingWritten,
             file' \subseteq file
      PROVE  AckedSetIsKept'
  BY <1>1 DEF AckedSetIsKept
<1>2. ASSUME NEW t \in Threads, NEW r \in Requests, Invoke(t, r) PROVE AckedSetIsKept'
  <2>1. \A n \in Names : kept'[n] # None => kept'[n] = kept[n]
    BY <1>2, RequestFacts DEF Invoke, CurrentTypeOK, Maps
  <2>2. BeingWritten => BeingWritten'
    BY <1>2 DEF Invoke, Goto, BeingWritten, Writers, CurrentTypeOK
  <2>3. QED
    BY <1>2, <2>1, <2>2 DEF Invoke, AckedSetIsKept
<1>3. ASSUME NEW t \in Threads, ReadMap(t) PROVE AckedSetIsKept'
  <2>1. file' \subseteq file /\ \A n \in Names : kept'[n] # None => kept'[n] = kept[n]
    BY <1>3, SpoilFacts DEF ReadMap
  <2>2. BeingWritten => BeingWritten'
    BY <1>3 DEF ReadMap, Use, Finish, Goto, BeingWritten, Writers, CurrentTypeOK
  <2>3. QED
    BY <2>1, <2>2 DEF AckedSetIsKept
<1>4. ASSUME NEW t \in Threads, StartWrite(t) PROVE AckedSetIsKept'
  <2>1. pc'[t] \in {"write", "mixed"}
    BY <1>4 DEF StartWrite, CurrentTypeOK
  <2>2. QED
    BY <2>1 DEF AckedSetIsKept, BeingWritten, Writers
<1>5. ASSUME NEW t \in Threads, FinishWrite(t) \/ PutObject(t) \/ InsertRow(t)
      PROVE  AckedSetIsKept'
  <2>1. Acknowledge(t) /\ Setting(t) /\ req[t] \in Requests /\ req[t].op = "set"
    BY <1>5 DEF FinishWrite, PutObject, InsertRow, ControlOK, WritingFile, WritingRow, Setting
  <2>2. SUFFICES ASSUME NEW n \in Names, kept'[n] # None, NEW d \in file'
                 PROVE  d \in Maps /\ d[n] = kept'[n]
    BY DEF AckedSetIsKept
  <2>3. CASE pc[t] \in WritingFile /\ d = data[t]
    <3>1. d \in Maps
      BY <2>3 DEF CurrentTypeOK
    <3>2. CASE kept'[n] = kept[n]
      BY <2>2, <2>3, <3>1, <3>2 DEF KeepsOK
    <3>3. CASE n = req[t].name /\ kept'[n] = req[t].version
      BY <2>3, <3>1, <3>3 DEF WritesRequest
    <3>4. QED
      BY <2>1, <2>2, <3>2, <3>3, Acknowledged
  <2>4. CASE FinishWrite(t) /\ pc[t] = "mixed"
    <3>1. ~alone[t] /\ kept[n] = None
      BY <2>4 DEF AloneOK, MixedOK
    <3>2. QED
      BY <2>1, <2>2, <3>1 DEF Acknowledge
  <2>5. CASE InsertRow(t)
    BY <2>1, <2>2, <2>5, RowKeeps, Acknowledged DEF InsertRow, WritingRow
  <2>6. QED
    BY <1>5, <2>2, <2>3, <2>4, <2>5 DEF FinishWrite, PutObject, WritingFile
<1>6. ASSUME NEW t \in Threads, pc[t] \in WritingRow, WriteRow(t), kept' = kept
      PROVE  AckedSetIsKept'
  BY <1>6, RowKeeps DEF AckedSetIsKept
<1>7. ASSUME NEW t \in Threads, UpdateRow(t) PROVE AckedSetIsKept'
  BY <1>6, <1>7 DEF UpdateRow, WritingRow
<1>8. ASSUME NEW t \in Threads, LostAnswer(t) PROVE AckedSetIsKept'
  <2>1. CASE pc[t] = "open" /\ file' = {data[t]}
    BY <1>8, <2>1 DEF LostAnswer, AckedSetIsKept, KeepsOK, WritingFile, CurrentTypeOK
  <2>2. QED
    BY <1>6, <1>8, <2>1 DEF LostAnswer, WritingRow
<1>9. ASSUME NEW t \in Threads, IOFailure(t) PROVE AckedSetIsKept'
  <2>1. /\ file' = file
        /\ \A n \in Names : kept'[n] # None => kept'[n] = kept[n] /\ t \notin Writers
    BY <1>9, SpoilFacts DEF IOFailure, EmptyMap
  <2>2. t \notin Writers /\ BeingWritten => BeingWritten'
    BY <1>9 DEF IOFailure, Finish, Goto, BeingWritten, Writers, CurrentTypeOK
  <2>3. QED
    BY <2>1, <2>2 DEF AckedSetIsKept
<1>10. CASE Restart
  <2>1. /\ file' = file
        /\ \A n \in Names : kept'[n] # None => kept'[n] = kept[n] /\ ~BeingWritten
    BY <1>10, SpoilFacts DEF Restart, EmptyMap
  <2>2. QED
    BY <1>1, <2>1
<1>11. ASSUME NEW t \in Threads, Respond(t) \/ ReadVersion(t) \/ ReadCurrent(t)
       PROVE  AckedSetIsKept'
  <2>1. kept' = kept /\ file' = file
    BY <1>11 DEF Respond, ReadVersion, ReadCurrent
  <2>2. BeingWritten => BeingWritten'
    BY <1>11 DEF Respond, ReadVersion, ReadCurrent, Finish, Goto, BeingWritten, Writers,
                 CurrentTypeOK
  <2>3. QED
    BY <2>1, <2>2 DEF AckedSetIsKept
<1>12. CASE (\E n \in Names, v \in Versions : Upload(n, v) \/ Erase(n, v)) \/ UNCHANGED vars
  BY <1>12 DEF Upload, Erase, vars, AckedSetIsKept, BeingWritten, Writers
<1>13. QED
  BY <1>2, <1>3, <1>4, <1>5, <1>7, <1>8, <1>9, <1>10, <1>11, <1>12 DEF Next, Step

(***************************************************************************)
(* What was stored                                                         *)
(***************************************************************************)

LEMMA StoredStep == IInv /\ [Next]_vars => StoredOK'
<1> SUFFICES ASSUME IInv, [Next]_vars PROVE StoredOK'
  OBVIOUS
<1> USE DEF IInv, CurrentTypeOK, StoredOK, Setting, WritingFile, FlatFile
<1>1. ASSUME NEW t \in Threads, NEW r \in Requests, Invoke(t, r) PROVE StoredOK'
  BY <1>1 DEF Invoke, Goto
<1>2. ASSUME NEW t \in Threads, Respond(t) PROVE StoredOK'
  BY <1>2 DEF Respond, Goto
<1>3. ASSUME NEW t \in Threads, ReadVersion(t) PROVE StoredOK'
  BY <1>3 DEF ReadVersion, Goto, Finish
<1>4. ASSUME NEW t \in Threads, ReadMap(t) PROVE StoredOK'
  <2>1. PICK d \in file :
          IF d = Torn
            THEN Finish(t, "error") /\ UNCHANGED <<data, answer>>
            ELSE Use(t, IF d = NoFile THEN EmptyMap ELSE d)
    BY <1>4 DEF ReadMap
  <2> DEFINE map == IF d = NoFile THEN EmptyMap ELSE d
  <2>2. /\ req' = req /\ ever' = ever /\ stored' = stored
        /\ pc[t] = "readMap"
        /\ intact' => intact
    BY <1>4, SpoilFacts DEF ReadMap
  <2>3. CASE d = Torn
    BY <2>1, <2>2, <2>3 DEF Finish, Goto
  <2>4. CASE d # Torn /\ req[t].op = "set"
    <3>1. map \in Maps /\ req[t].name \in Names
      BY <2>2, <2>4, MapFacts, RequestFacts DEF ControlOK
    <3>2. data' = [data EXCEPT ![t] = [map EXCEPT ![req[t].name] = req[t].version]]
      BY <2>1, <2>4 DEF Use
    <3>3. <<req[t].name, req[t].version>> \in ever
      BY <2>2, <2>4
    <3>4. intact' => intact /\ ~BeingWritten
      BY <1>4, <2>4, SpoilFacts DEF ReadMap
    <3>5. intact' => \A n \in Names : map[n] # None => <<n, map[n]>> \in ever
      BY <2>4, <3>1, <3>4 DEF CurrentWasStored, EmptyMap
    <3>6. intact' => \A n \in Names : data'[t][n] # None => <<n, data'[t][n]>> \in ever
      BY <3>1, <3>2, <3>3, <3>5 DEF Maps
    <3>7. \A u \in Threads \ {t} : pc'[u] = pc[u] /\ data'[u] = data[u]
      BY <2>1, <2>4, <3>2 DEF Use, Goto
    <3>8. QED
      BY <2>2, <3>3, <3>6, <3>7
  <2>5. CASE d # Torn /\ req[t].op # "set"
    BY <2>1, <2>2, <2>5 DEF Use, Goto, Finish
  <2>6. QED
    BY <2>3, <2>4, <2>5
<1>5. ASSUME NEW t \in Threads, ReadCurrent(t) PROVE StoredOK'
  BY <1>5 DEF ReadCurrent, Goto, Finish
<1>6. ASSUME NEW t \in Threads, StartWrite(t) PROVE StoredOK'
  BY <1>6, WriterSets, SpoilFacts DEF StartWrite, Writers
<1>7. ASSUME NEW t \in Threads, FinishWrite(t) \/ PutObject(t) \/ InsertRow(t)
      PROVE  StoredOK'
  BY <1>7 DEF FinishWrite, PutObject, InsertRow, Acknowledge, Goto, Finish
<1>8. ASSUME NEW t \in Threads, UpdateRow(t) PROVE StoredOK'
  BY <1>8 DEF UpdateRow, Goto
<1>9. ASSUME NEW t \in Threads, IOFailure(t) PROVE StoredOK'
  BY <1>9, SpoilFacts DEF IOFailure, Goto, Finish
<1>10. ASSUME NEW t \in Threads, LostAnswer(t) PROVE StoredOK'
  BY <1>10 DEF LostAnswer, Goto, Finish
<1>11. CASE Restart
  BY <1>11, SpoilFacts DEF Restart
<1>12. ASSUME NEW n \in Names, NEW v \in Versions, Upload(n, v) \/ Erase(n, v)
       PROVE  StoredOK'
  BY <1>12 DEF Upload, Erase
<1>13. CASE UNCHANGED vars
  BY <1>13 DEF vars
<1>14. QED
  BY <1>1, <1>2, <1>3, <1>4, <1>5, <1>6, <1>7, <1>8, <1>9, <1>10, <1>11, <1>12, <1>13
     DEF Next, Step

LEMMA WasStoredStep == IInv /\ [Next]_vars => CurrentWasStored'
<1> SUFFICES ASSUME IInv, [Next]_vars PROVE CurrentWasStored'
  OBVIOUS
<1> USE DEF IInv
<1>1. ever \subseteq ever'
  BY DEF Next, Step, Invoke, Respond, ReadVersion, ReadMap, ReadCurrent, StartWrite,
         FinishWrite, PutObject, UpdateRow, InsertRow, IOFailure, LostAnswer, Restart,
         Upload, Erase, vars
<1>2. ASSUME file' \subseteq file, intact' => intact, BeingWritten => BeingWritten' \/ ~intact'
      PROVE  CurrentWasStored'
  BY <1>1, <1>2 DEF CurrentWasStored
<1>3. ASSUME NEW t \in Threads, pc[t] \in WritingFile, file' = {data[t]}, intact' = intact
      PROVE  CurrentWasStored'
  BY <1>1, <1>3 DEF CurrentWasStored, StoredOK
<1>4. ASSUME NEW t \in Threads, pc[t] \in WritingRow, WriteRow(t), intact' = intact
      PROVE  CurrentWasStored'
  <2>1. SUFFICES ASSUME intact, NEW d \in file', NEW n \in Names, d[n] # None
                 PROVE  <<n, d[n]>> \in ever
    BY <1>1, <1>4 DEF CurrentWasStored
  <2>2. PICK e \in file : d = [e EXCEPT ![req[t].name] = req[t].version]
    BY <1>4, <2>1 DEF WriteRow
  <2>3. e \in Maps /\ req[t].name \in Names /\ <<req[t].name, req[t].version>> \in ever
    BY <1>4, RequestFacts, WriterSets
       DEF ControlOK, CurrentTypeOK, StoredOK, WritingRow
  <2>4. ~BeingWritten
    BY <1>4 DEF ControlOK, BeingWritten, Writers, WritingFile
  <2>5. QED
    BY <2>1, <2>2, <2>3, <2>4 DEF CurrentWasStored, Maps
<1>5. ASSUME NEW t \in Threads, ReadMap(t) PROVE CurrentWasStored'
  <2>1. file' \subseteq file /\ (intact' => intact)
    BY <1>5, SpoilFacts DEF ReadMap
  <2>2. BeingWritten => BeingWritten'
    BY <1>5 DEF ReadMap, Use, Finish, Goto, BeingWritten, Writers, CurrentTypeOK
  <2>3. QED
    BY <1>2, <2>1, <2>2
<1>6. ASSUME NEW t \in Threads, StartWrite(t) PROVE CurrentWasStored'
  <2>1. pc'[t] \in {"write", "mixed"}
    BY <1>6 DEF StartWrite, CurrentTypeOK
  <2>2. QED
    BY <2>1 DEF CurrentWasStored, BeingWritten, Writers
<1>7. ASSUME NEW t \in Threads, FinishWrite(t) \/ PutObject(t) PROVE CurrentWasStored'
  <2>1. CASE pc[t] = "mixed"
    BY <1>7, <2>1 DEF FinishWrite, PutObject, MixedOK, CurrentWasStored
  <2>2. CASE pc[t] # "mixed"
    BY <1>3, <1>7, <2>2 DEF FinishWrite, PutObject, WritingFile
  <2>3. QED
    BY <2>1, <2>2
<1>8. ASSUME NEW t \in Threads, UpdateRow(t) \/ InsertRow(t) \/ LostAnswer(t)
      PROVE  CurrentWasStored'
  BY <1>3, <1>4, <1>8 DEF UpdateRow, InsertRow, LostAnswer, WritingFile, WritingRow
<1>9. ASSUME NEW t \in Threads, IOFailure(t) PROVE CurrentWasStored'
  <2>1. file' = file /\ (intact' => intact) /\ (t \in Writers => ~intact')
    BY <1>9, SpoilFacts DEF IOFailure
  <2>2. t \notin Writers /\ BeingWritten => BeingWritten'
    BY <1>9 DEF IOFailure, Finish, Goto, BeingWritten, Writers, CurrentTypeOK
  <2>3. QED
    BY <1>2, <2>1, <2>2
<1>10. CASE Restart
  BY <1>2, <1>10, SpoilFacts DEF Restart
<1>11. ASSUME NEW t \in Threads, Respond(t) \/ ReadVersion(t) \/ ReadCurrent(t)
       PROVE  CurrentWasStored'
  <2>1. intact' = intact /\ file' = file
    BY <1>11 DEF Respond, ReadVersion, ReadCurrent
  <2>2. BeingWritten => BeingWritten'
    BY <1>11 DEF Respond, ReadVersion, ReadCurrent, Finish, Goto, BeingWritten, Writers,
                 CurrentTypeOK
  <2>3. QED
    BY <1>2, <2>1, <2>2
<1>12. ASSUME NEW t \in Threads, NEW r \in Requests, Invoke(t, r) PROVE CurrentWasStored'
  <2>1. BeingWritten => BeingWritten'
    BY <1>12 DEF Invoke, Goto, BeingWritten, Writers, CurrentTypeOK
  <2>2. QED
    BY <1>2, <1>12, <2>1 DEF Invoke
<1>13. CASE (\E n \in Names, v \in Versions : Upload(n, v) \/ Erase(n, v)) \/ UNCHANGED vars
  BY <1>2, <1>13 DEF Upload, Erase, vars, BeingWritten, Writers
<1>14. QED
  BY <1>5, <1>6, <1>7, <1>8, <1>9, <1>10, <1>11, <1>12, <1>13 DEF Next, Step

(***************************************************************************)
(* The theorems                                                            *)
(***************************************************************************)

LEMMA Invariance == Spec => []IInv
<1>1. IInv /\ [Next]_vars => IInv'
  BY TypeStep, ControlStep, AloneStep, WritesStep, MixedStep, KeepsStep, AckedStep, StoredStep,
     WasStoredStep DEF IInv
<1>2. QED
  BY InitIInv, <1>1, PTL DEF Spec

(* The type invariant of the current versions: what a read can find, and   *)
(* what a thread will write, is a map of the files to versions.            *)
THEOREM CurrentTypeCorrect == Spec => []CurrentTypeOK
<1>1. IInv => CurrentTypeOK
  BY DEF IInv
<1>2. QED
  BY Invariance, <1>1, PTL

(* A current version set without interference is found until the next set  *)
(* for that file, whatever other sets, failures and restarts there are; in *)
(* the local file between writes, and until a splice may be in it.         *)
THEOREM AckedSetsAreKept == Spec => []AckedSetIsKept
<1>1. IInv => AckedSetIsKept
  BY DEF IInv
<1>2. QED
  BY Invariance, <1>1, PTL

(* What is current was stored at some time, unless a splice may have got   *)
(* into the local map.                                                     *)
THEOREM CurrentVersionsWereStored == Spec => []CurrentWasStored
<1>1. IInv => CurrentWasStored
  BY DEF IInv
<1>2. QED
  BY Invariance, <1>1, PTL
=============================================================================
