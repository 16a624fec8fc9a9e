-------------------------- MODULE FileStoreProofs --------------------------
(***************************************************************************)
(* Proofs about FileStore: its types, that answers hold and persist, that  *)
(* a replacement keeps its file, and that only who may write a file changes *)
(* it; for every set of users, files and contents and every number of      *)
(* faults.                                                                 *)
(***************************************************************************)
EXTENDS FileStore, TLAPS

(***************************************************************************)
(* The inductive invariant                                                 *)
(***************************************************************************)

\* A replacement removes files while its own new file stands.
TaskInv ==
  task # NoTask =>
    /\ task.id \notin task.olds
    /\ task.olds # {} => phase = "replacing"
    /\ phase = "replacing" =>
         task.op = "ReplaceFile" /\ task.result = "None" /\ task.info # NoFile

\* How far index.txt agrees with the index, at each point of the loop.
PersistInv ==
  /\ phase = "rows" => \A i \in Ids \ unwritten : indexFile[i] = index[i]
  /\ (phase = "done" /\ ~indexStale) => indexFile = index
  /\ (phase # "rows" /\ ~indexStale) =>
       \A i \in Ids \ InFlight : indexFile[i] = index[i]

\* File i is as the knowledge k of a client says.
Holds(i, k) ==
  /\ k \in Info => index[i] = k /\ disk[i] = k.content
  /\ k = NoFile => index[i] = NoFile /\ disk[i] = NoFile

\* What clients know, and would know if the task at work were answered now.
Standing(i) == IF task = NoTask THEN known[i] ELSE Concluded(i)

HoldsInv == ~indexLost => \A i \in Ids : Holds(i, Standing(i))

IInv == TypeOK /\ TaskInv /\ PersistInv /\ HoldsInv

(***************************************************************************)
(* The pieces of a step                                                    *)
(***************************************************************************)

\* What ActionHandler asks to store is a row of the index.
LEMMA NewInfoType ==
  ASSUME NEW u \in Users, NEW p \in Paths, NEW c \in Contents
  PROVE  NewInfo(u, p, c) \in Info /\ NewInfo(u, p, c).content = c
  BY FileStoreAssumption DEF NewInfo, Info, Mode, Rights, DefaultMode

\* The task that Perform leaves is a task, whatever the handler says.
LEMMA PerformType ==
  ASSUME TypeOK,
         NEW op \in Ops, NEW u \in Users, NEW i \in Ids,
         NEW info \in Info \cup {NoFile}, NEW result \in ErrorTypes,
         NEW touched \in SUBSET Ids, NEW olds \in SUBSET Ids,
         Perform(op, u, i, info, result, touched, olds)
  PROVE  /\ task' \in Task /\ task' # NoTask /\ task = NoTask
         /\ phase' \in Phases \ {"idle", "rows"}
         /\ phase' = "replacing" <=> olds # {}
         /\ phase' = "done" => op \notin WritesIndex
  BY FileStoreAssumption DEF Perform, TypeOK, Task, Phases

\* A failure is counted within its bound, or there is none.
LEMMA FaultsType ==
  ASSUME TypeOK, Fail \/ UNCHANGED faults
  PROVE  faults' \in 0..MaxFaults
  BY FileStoreAssumption DEF Fail, TypeOK

\* Writing a file changes that file only, and leaves something in it.
LEMMA WriteType ==
  ASSUME TypeOK, NEW i \in Ids, NEW c \in Contents, NEW ok \in BOOLEAN,
         writeBinaryFile(i, c, ok)
  PROVE  /\ disk' \in [Ids -> Contents \cup {Torn, NoFile}]
         /\ \A j \in Ids \ {i} : disk'[j] = disk[j]
         /\ ok => disk'[i] = c
         /\ faults' \in 0..MaxFaults
  BY FaultsType DEF writeBinaryFile, TypeOK

\* A task that touches nothing leaves the invariant as it is.
LEMMA AnswerStep ==
  ASSUME IInv, NEW op \in Ops, NEW u \in Users, NEW i \in Ids,
         NEW info \in Info \cup {NoFile}, NEW result \in ErrorTypes,
         Answer(op, u, i, info, result)
  PROVE  IInv'
<1> USE DEF IInv
<1>1. Perform(op, u, i, info, result, {}, {})
  BY DEF Answer
<1>2. /\ task' \in Task /\ task' # NoTask /\ task = NoTask
      /\ phase' \in Phases \ {"idle", "rows"} /\ phase' # "replacing"
  BY <1>1, PerformType
<1>3. UNCHANGED <<index, indexFile, disk, totalSize, unwritten, faults, known,
                  indexStale, indexLost>>
  BY <1>1 DEF Answer, Perform
<1>4. task'.olds = {} /\ task'.touched = {} /\ task'.id = i
  BY <1>1 DEF Perform
<1>5. TypeOK'
  BY <1>2, <1>3 DEF TypeOK, Phases
<1>6. TaskInv'
  BY <1>2, <1>4 DEF TaskInv
<1>7. PersistInv'
  BY <1>1, <1>2, <1>3, <1>4 DEF PersistInv, InFlight, TypeOK, Perform
<1>8. HoldsInv'
  BY <1>2, <1>3, <1>4 DEF HoldsInv, Standing, Concluded, Holds
<1> QED BY <1>5, <1>6, <1>7, <1>8

\* A task that changed the bytes and the row of file i alone, and reports that
\* row, keeps the invariant: a client told so would find it so.
LEMMA WroteStep ==
  ASSUME IInv, NEW op \in Ops, NEW u \in Users, NEW i \in Ids,
         NEW info \in Info, NEW olds \in SUBSET Ids,
         i \notin olds, olds # {} => op = "ReplaceFile",
         op \in WritesIndex \ ChangesRow,
         writeBinaryFile(i, info.content, TRUE),
         index' = [index EXCEPT ![i] = info],
         Perform(op, u, i, info, "None", {i}, olds)
  PROVE  IInv'
<1> USE DEF IInv
<1>1. info.content \in Contents
  BY DEF Info
<1>2. /\ disk' \in [Ids -> Contents \cup {Torn, NoFile}]
      /\ \A j \in Ids \ {i} : disk'[j] = disk[j]
      /\ disk'[i] = info.content
      /\ faults' \in 0..MaxFaults
  BY <1>1, WriteType
<1>3. /\ task' \in Task /\ task' # NoTask /\ task = NoTask
      /\ phase' \in Phases \ {"idle", "rows", "done"}
      /\ phase' = "replacing" <=> olds # {}
  BY PerformType DEF ErrorTypes
<1>4. /\ task' = [op |-> op, user |-> u, id |-> i, info |-> info,
                  result |-> "None", olds |-> olds, touched |-> {i}]
      /\ UNCHANGED <<indexFile, unwritten, known, indexStale, indexLost>>
      /\ phase = "idle"
  BY DEF Perform
<1>5. TypeOK'
  BY <1>2, <1>3, <1>4 DEF TypeOK, Phases
<1>6. TaskInv'
  BY <1>3, <1>4, FileStoreAssumption DEF TaskInv
<1>7. PersistInv'
  BY <1>3, <1>4 DEF PersistInv, InFlight, TypeOK
<1>8. HoldsInv'
  <2>1. index' \in [Ids -> Info \cup {NoFile}] /\ index'[i] = info
        /\ \A j \in Ids \ {i} : index'[j] = index[j]
    BY DEF TypeOK
  <2>2. Standing(i)' = info
    BY <1>3, <1>4 DEF Standing, Concluded, WritesIndex
  <2>3. \A j \in Ids \ {i} : Standing(j)' = Standing(j)
    BY <1>3, <1>4 DEF Standing, Concluded
  <2> QED
    BY <1>2, <1>4, <2>1, <2>2, <2>3, FileStoreAssumption DEF HoldsInv, Holds
<1> QED BY <1>5, <1>6, <1>7, <1>8

\* A task whose write failed leaves file i in doubt and the others alone.
LEMMA WriteFailedStep ==
  ASSUME IInv, NEW op \in Ops, NEW u \in Users, NEW i \in Ids, NEW c \in Contents,
         op \in WritesIndex,
         writeBinaryFile(i, c, FALSE), UNCHANGED index,
         Perform(op, u, i, NoFile, "WriteFile", {i}, {})
  PROVE  IInv'
<1> USE DEF IInv
<1>1. /\ disk' \in [Ids -> Contents \cup {Torn, NoFile}]
      /\ \A j \in Ids \ {i} : disk'[j] = disk[j]
      /\ faults' \in 0..MaxFaults
  BY WriteType
<1>2. /\ task' \in Task /\ task' # NoTask /\ task = NoTask
      /\ phase' \in Phases \ {"idle", "rows", "done", "replacing"}
  BY PerformType DEF ErrorTypes
<1>3. /\ task' = [op |-> op, user |-> u, id |-> i, info |-> NoFile,
                  result |-> "WriteFile", olds |-> {}, touched |-> {i}]
      /\ UNCHANGED <<indexFile, unwritten, known, indexStale, indexLost>>
      /\ phase = "idle"
  BY DEF Perform
<1>4. TypeOK'
  BY <1>1, <1>2, <1>3 DEF TypeOK, Phases
<1>5. TaskInv'
  BY <1>2, <1>3 DEF TaskInv
<1>6. PersistInv'
  BY <1>2, <1>3 DEF PersistInv, InFlight
<1>7. HoldsInv'
  <2>1. Standing(i)' = Unknown /\ \A j \in Ids \ {i} : Standing(j)' = Standing(j)
    BY <1>2, <1>3 DEF Standing, Concluded
  <2> QED
    BY <1>1, <1>3, <2>1, FileStoreAssumption DEF HoldsInv, Holds
<1> QED BY <1>4, <1>5, <1>6, <1>7

\* storeFile, alone or on behalf of a replacement.
LEMMA StoreStep ==
  ASSUME IInv, NEW op \in {"StoreFile", "ReplaceFile"}, NEW u \in Users,
         NEW i \in Ids, NEW info \in Info, NEW pathValid \in BOOLEAN,
         NEW olds \in SUBSET Ids,
         i \notin olds, olds # {} => op = "ReplaceFile",
         Store(op, u, i, info, pathValid, olds)
  PROVE  IInv'
<1>1. op \in Ops /\ op \in WritesIndex \ ChangesRow
  BY DEF Ops, WritesIndex, ChangesRow
<1>2. StoreResult(u, info, pathValid) \in ErrorTypes
  BY DEF StoreResult, ErrorTypes
<1>3. info.content \in Contents
  BY DEF Info
<1> QED BY <1>1, <1>2, <1>3, AnswerStep, WroteStep, WriteFailedStep DEF Store

\* updateFile
LEMMA UpdateStep ==
  ASSUME IInv, NEW u \in Users, NEW i \in Ids, NEW p \in Paths,
         NEW c \in Contents, NEW pathValid \in BOOLEAN,
         UpdateFile(u, i, p, c, pathValid)
  PROVE  IInv'
<1> DEFINE result == UpdateResult(u, i, c, pathValid)
           info == [index[i] EXCEPT !.path = p, !.content = c]
<1>1. "UpdateFile" \in Ops /\ "UpdateFile" \in WritesIndex \ ChangesRow
  BY DEF Ops, WritesIndex, ChangesRow
<1>2. result \in ErrorTypes
  BY DEF UpdateResult, ErrorTypes
<1>3. result = "None" => info \in Info /\ info.content = c
  BY DEF UpdateResult, IInv, TypeOK, Info
<1>4. CASE result # "None" /\ Answer("UpdateFile", u, i, NoFile, result)
  BY <1>1, <1>2, <1>4, AnswerStep
<1>5. CASE /\ result = "None" /\ writeBinaryFile(i, c, TRUE)
           /\ index' = [index EXCEPT ![i] = info]
           /\ Perform("UpdateFile", u, i, info, "None", {i}, {})
  <2>1. info \in Info /\ writeBinaryFile(i, info.content, TRUE)
    BY <1>3, <1>5
  <2>2. i \notin {} /\ {} \in SUBSET Ids
    OBVIOUS
  <2> HIDE DEF info
  <2> QED
    BY <1>1, <1>5, <2>1, <2>2, WroteStep
<1>6. CASE /\ result = "None" /\ writeBinaryFile(i, c, FALSE) /\ UNCHANGED index
           /\ Perform("UpdateFile", u, i, NoFile, "WriteFile", {i}, {})
  BY <1>1, <1>6, WriteFailedStep
<1> QED BY <1>4, <1>5, <1>6 DEF UpdateFile

\* The handlers that change the row of a file and none of its bytes.
LEMMA RelabelStep ==
  ASSUME IInv, NEW op \in ChangesRow, NEW u \in Users, NEW i \in Ids, NEW info,
         NEW result \in ErrorTypes,
         result = "None" =>
           /\ index[i] # NoFile
           /\ info \in Info /\ info.content = index[i].content,
         Relabel(op, u, i, result, info)
  PROVE  IInv'
<1> USE DEF IInv
<1>0. op \in Ops /\ op \in WritesIndex
  BY DEF ChangesRow, Ops, WritesIndex
<1>1. CASE result # "None" /\ Answer(op, u, i, NoFile, result)
  BY <1>0, <1>1, AnswerStep
<1>2. CASE /\ result = "None" /\ index' = [index EXCEPT ![i] = info]
           /\ Perform(op, u, i, info, "None", {i}, {})
           /\ UNCHANGED <<disk, totalSize, faults>>
  <2>1. info \in Info /\ info.content = index[i].content /\ index[i] \in Info
    BY <1>2 DEF TypeOK
  <2>2. /\ task' \in Task /\ task' # NoTask /\ task = NoTask
        /\ phase' \in Phases \ {"idle", "rows", "done", "replacing"}
    BY <1>0, <1>2, <2>1, PerformType
  <2>3. /\ task' = [op |-> op, user |-> u, id |-> i, info |-> info,
                    result |-> "None", olds |-> {}, touched |-> {i}]
        /\ UNCHANGED <<indexFile, unwritten, known, indexStale, indexLost>>
        /\ phase = "idle"
    BY <1>2 DEF Perform
  <2>4. index' \in [Ids -> Info \cup {NoFile}] /\ index'[i] = info
        /\ \A j \in Ids \ {i} : index'[j] = index[j]
    BY <1>2, <2>1 DEF TypeOK
  <2>5. TypeOK'
    BY <1>2, <2>2, <2>3, <2>4 DEF TypeOK, Phases
  <2>6. TaskInv'
    BY <2>2, <2>3 DEF TaskInv
  <2>7. PersistInv'
    BY <2>2, <2>3, <2>4 DEF PersistInv, InFlight
  <2>8. HoldsInv'
    <3>1. \A j \in Ids \ {i} : Standing(j)' = Standing(j)
      BY <2>2, <2>3 DEF Standing, Concluded
    <3>2. Standing(i) = known[i]
      BY <2>2 DEF Standing
    <3>3. Standing(i)' = IF known[i] = Unknown THEN Unknown ELSE info
      BY <2>2, <2>3 DEF Standing, Concluded
    <3>4. ASSUME ~indexLost, known[i] # Unknown
          PROVE  disk[i] = info.content
      <4>1. Holds(i, known[i]) /\ known[i] \in Info \cup {NoFile}
        BY <3>2, <3>4 DEF HoldsInv, TypeOK
      <4> QED BY <2>1, <4>1, FileStoreAssumption DEF Holds
    <3>5. ~indexLost => Holds(i, Standing(i))'
      BY <1>2, <2>1, <2>4, <3>3, <3>4, FileStoreAssumption DEF Holds
    <3>6. ~indexLost => \A j \in Ids \ {i} : Holds(j, Standing(j))'
      BY <1>2, <2>4, <3>1 DEF HoldsInv, Holds
    <3> QED BY <2>3, <3>5, <3>6 DEF HoldsInv
  <2> QED BY <2>5, <2>6, <2>7, <2>8
<1> QED BY <1>1, <1>2 DEF Relabel

\* The four handlers that only change the row.
LEMMA RowStep ==
  ASSUME IInv, NEW u \in Users, NEW i \in Ids,
         \/ \E o \in Users, g \in Groups, valid \in BOOLEAN :
              UpdateFileAccessOwner(u, i, o, g, valid)
         \/ \E m \in Modes, valid \in BOOLEAN : UpdateFileAccessMode(u, i, m, valid)
         \/ \E l \in Labels : UpdateFileVersion(u, i, l)
         \/ \E l \in Labels, valid \in BOOLEAN : UpdateFileTags(u, i, l, valid)
  PROVE  IInv'
<1>0. index[i] # NoFile => index[i] \in Info
  BY DEF IInv, TypeOK
<1>1. ASSUME NEW o \in Users, NEW g \in Groups, NEW valid \in BOOLEAN,
             UpdateFileAccessOwner(u, i, o, g, valid)
      PROVE  IInv'
  <2> DEFINE info == [index[i] EXCEPT !.owner = o, !.group = g]
  <2>1. index[i] # NoFile => info \in Info /\ info.content = index[i].content
    BY <1>0 DEF Info
  <2> HIDE DEF info
  <2> QED BY <1>1, <2>1, RelabelStep
          DEF UpdateFileAccessOwner, ErrorTypes, ChangesRow, info
<1>2. ASSUME NEW m \in Modes, NEW valid \in BOOLEAN,
             UpdateFileAccessMode(u, i, m, valid)
      PROVE  IInv'
  <2> DEFINE info == [index[i] EXCEPT !.mode = m]
  <2>1. index[i] # NoFile => info \in Info /\ info.content = index[i].content
    BY <1>0, FileStoreAssumption DEF Info
  <2> HIDE DEF info
  <2> QED BY <1>2, <2>1, RelabelStep
          DEF UpdateFileAccessMode, ErrorTypes, ChangesRow, info
<1>3. ASSUME NEW l \in Labels, UpdateFileVersion(u, i, l)
      PROVE  IInv'
  <2> DEFINE info == [index[i] EXCEPT !.label = l]
  <2>1. index[i] # NoFile => info \in Info /\ info.content = index[i].content
    BY <1>0 DEF Info
  <2> HIDE DEF info
  <2> QED BY <1>3, <2>1, RelabelStep
          DEF UpdateFileVersion, ErrorTypes, ChangesRow, info
<1>4. ASSUME NEW l \in Labels, NEW valid \in BOOLEAN,
             UpdateFileTags(u, i, l, valid)
      PROVE  IInv'
  <2> DEFINE info == [index[i] EXCEPT !.label = l]
  <2>1. index[i] # NoFile => info \in Info /\ info.content = index[i].content
    BY <1>0 DEF Info
  <2> HIDE DEF info
  <2> QED BY <1>4, <2>1, RelabelStep
          DEF UpdateFileTags, ErrorTypes, ChangesRow, info
<1> QED BY <1>1, <1>2, <1>3, <1>4

\* Discarding a file takes its row, and its bytes if it succeeds.
LEMMA DiscardType ==
  ASSUME TypeOK, NEW i \in Ids, NEW gone \in BOOLEAN, Discard(i, gone)
  PROVE  /\ index' \in [Ids -> Info \cup {NoFile}]
         /\ disk' \in [Ids -> Contents \cup {Torn, NoFile}]
         /\ faults' \in 0..MaxFaults
         /\ index'[i] = NoFile
         /\ gone => disk'[i] = NoFile
         /\ \A j \in Ids \ {i} : index'[j] = index[j] /\ disk'[j] = disk[j]
  BY FaultsType DEF Discard, TypeOK

\* removeFile
LEMMA RemoveStep ==
  ASSUME IInv, NEW u \in Users, NEW i \in Ids, NEW gone \in BOOLEAN,
         RemoveFile(u, i, gone)
  PROVE  IInv'
<1> USE DEF IInv
<1> DEFINE result == RemoveResult(u, i)
           answer == IF gone THEN "None" ELSE "WriteFile"
<1>0. "RemoveFile" \in Ops /\ "RemoveFile" \in WritesIndex \ ChangesRow
      /\ result \in ErrorTypes /\ answer \in ErrorTypes
  BY DEF Ops, WritesIndex, ChangesRow, RemoveResult, ErrorTypes
<1>1. CASE result # "None" /\ Answer("RemoveFile", u, i, NoFile, result)
  BY <1>0, <1>1, AnswerStep
<1>2. CASE /\ Discard(i, gone)
           /\ Perform("RemoveFile", u, i, NoFile, answer, {i}, {})
  <2>1. /\ task' \in Task /\ task' # NoTask /\ task = NoTask
        /\ phase' \in Phases \ {"idle", "rows", "done", "replacing"}
    BY <1>0, <1>2, PerformType
  <2>2. /\ task' = [op |-> "RemoveFile", user |-> u, id |-> i, info |-> NoFile,
                    result |-> answer, olds |-> {}, touched |-> {i}]
        /\ UNCHANGED <<indexFile, unwritten, known, indexStale, indexLost>>
        /\ phase = "idle"
    BY <1>2 DEF Perform
  <2>3. /\ index' \in [Ids -> Info \cup {NoFile}]
        /\ disk' \in [Ids -> Contents \cup {Torn, NoFile}]
        /\ faults' \in 0..MaxFaults
        /\ index'[i] = NoFile
        /\ gone => disk'[i] = NoFile
        /\ \A j \in Ids \ {i} : index'[j] = index[j] /\ disk'[j] = disk[j]
    BY <1>2, DiscardType
  <2>4. TypeOK'
    BY <2>1, <2>2, <2>3 DEF TypeOK, Phases
  <2>5. TaskInv'
    BY <2>1, <2>2 DEF TaskInv
  <2>6. PersistInv'
    BY <2>1, <2>2, <2>3 DEF PersistInv, InFlight
  <2>7. HoldsInv'
    <3>1. \A j \in Ids \ {i} : Standing(j)' = Standing(j)
      BY <2>1, <2>2 DEF Standing, Concluded
    <3>2. Standing(i)' = IF gone THEN NoFile ELSE Unknown
      BY <1>0, <2>1, <2>2 DEF Standing, Concluded
    <3> QED
      BY <2>2, <2>3, <3>1, <3>2, FileStoreAssumption DEF HoldsInv, Holds
  <2> QED BY <2>4, <2>5, <2>6, <2>7
<1> QED BY <1>1, <1>2 DEF RemoveFile

\* One removal of a replacement.
LEMMA ReplaceRemoveStep ==
  ASSUME IInv, NEW i \in Ids, NEW gone \in BOOLEAN, ReplaceRemove(i, gone)
  PROVE  IInv'
<1> USE DEF IInv
<1> DEFINE olds == IF gone THEN task.olds \ {i} ELSE {}
<1>1. /\ phase = "replacing" /\ i \in task.olds /\ task # NoTask /\ task \in Task
      /\ task.op = "ReplaceFile" /\ task.result = "None" /\ task.info # NoFile
      /\ task.id # i /\ task.id \notin task.olds
  BY DEF ReplaceRemove, TypeOK, TaskInv
<1>2. /\ index' \in [Ids -> Info \cup {NoFile}]
      /\ disk' \in [Ids -> Contents \cup {Torn, NoFile}]
      /\ faults' \in 0..MaxFaults
      /\ index'[i] = NoFile
      /\ gone => disk'[i] = NoFile
      /\ \A j \in Ids \ {i} : index'[j] = index[j] /\ disk'[j] = disk[j]
  BY DiscardType DEF ReplaceRemove
<1>3. /\ task' = [task EXCEPT !.olds = olds, !.touched = @ \cup {i},
                              !.result = IF gone THEN @ ELSE "WriteFile"]
      /\ phase' = IF olds = {} THEN "index" ELSE phase
      /\ UNCHANGED <<indexFile, unwritten, known, indexStale, indexLost>>
  BY DEF ReplaceRemove, historyVars
<1>4. /\ task'.op = task.op /\ task'.id = task.id /\ task'.info = task.info
      /\ task'.olds = olds /\ task'.touched = task.touched \cup {i}
      /\ task'.result = IF gone THEN "None" ELSE "WriteFile"
      /\ task' \in Task /\ task' # NoTask
  <2>1. olds \in SUBSET Ids /\ task.touched \cup {i} \in SUBSET Ids
    BY <1>1 DEF Task
  <2>2. (IF gone THEN task.result ELSE "WriteFile") \in ErrorTypes
    BY <1>1 DEF ErrorTypes
  <2> HIDE DEF olds
  <2>3. task' \in Task
    BY <1>1, <1>3, <2>1, <2>2 DEF Task
  <2> QED BY <1>1, <1>3, <2>3, FileStoreAssumption DEF Task
<1>5. TypeOK'
  <2>1. phase' \in Phases /\ phase' # "idle"
    BY <1>1, <1>3 DEF Phases
  <2> QED BY <1>2, <1>3, <1>4, <2>1 DEF TypeOK
<1>6. TaskInv'
  BY <1>1, <1>3, <1>4 DEF TaskInv
<1>7. PersistInv'
  BY <1>1, <1>2, <1>3, <1>4 DEF PersistInv, InFlight
<1>8. HoldsInv'
  <2>1. ASSUME NEW j \in Ids, ~indexLost
        PROVE  Holds(j, Standing(j))'
    <3>1. CASE j = i
      <4>1. Standing(j)' = IF gone THEN NoFile ELSE Unknown
        BY <1>1, <1>4, <3>1 DEF Standing, Concluded, ChangesRow
      <4> QED BY <1>2, <3>1, <4>1, FileStoreAssumption DEF Holds
    <3>2. CASE j # i
      <4>1. Standing(j)' = Standing(j) \/ Standing(j)' = Unknown
        BY <1>1, <1>3, <1>4, <3>2 DEF Standing, Concluded, ChangesRow
      <4> QED BY <1>2, <2>1, <3>2, <4>1, FileStoreAssumption DEF HoldsInv, Holds
    <3> QED BY <3>1, <3>2
  <2> QED BY <1>3, <2>1 DEF HoldsInv
<1> QED BY <1>5, <1>6, <1>7, <1>8

\* The rewrite of the index file: the invariant says which rows are there.
LEMMA WriteIndexStep ==
  ASSUME IInv,
         \/ BeginWriteIndex \/ FailWriteIndex \/ EndWriteIndex \/ LoseIndexRows
         \/ \E i \in Ids : WriteIndexRow(i)
  PROVE  IInv'
<1> USE DEF IInv, historyVars
<1>1. CASE BeginWriteIndex
  <2>1. TypeOK' /\ TaskInv'
    BY <1>1 DEF BeginWriteIndex, TypeOK, TaskInv, NoRows, Stored, Phases
  <2>2. PersistInv'
    BY <1>1 DEF BeginWriteIndex, PersistInv, NoRows, Stored, TypeOK
  <2> QED BY <1>1, <2>1, <2>2 DEF BeginWriteIndex, HoldsInv, Standing, Concluded, Holds
<1>2. CASE FailWriteIndex
  <2>1. TypeOK' /\ TaskInv'
    BY <1>2, FaultsType DEF FailWriteIndex, TypeOK, TaskInv, Phases
  <2>2. PersistInv'
    BY <1>2 DEF FailWriteIndex, PersistInv
  <2> QED BY <1>2, <2>1, <2>2 DEF FailWriteIndex, HoldsInv, Standing, Concluded, Holds
<1>3. CASE EndWriteIndex
  <2>1. TypeOK' /\ TaskInv'
    BY <1>3 DEF EndWriteIndex, TypeOK, TaskInv, Phases
  <2>2. PersistInv'
    BY <1>3 DEF EndWriteIndex, PersistInv, TypeOK, InFlight
  <2> QED BY <1>3, <2>1, <2>2 DEF EndWriteIndex, HoldsInv, Standing, Concluded, Holds
<1>4. CASE LoseIndexRows
  <2>1. TypeOK' /\ TaskInv'
    BY <1>4, FaultsType DEF LoseIndexRows, TypeOK, TaskInv, Phases
  <2>2. PersistInv'
    BY <1>4 DEF LoseIndexRows, PersistInv
  <2> QED BY <1>4, <2>1, <2>2 DEF LoseIndexRows, HoldsInv, Standing, Concluded, Holds
<1>5. ASSUME NEW i \in Ids, WriteIndexRow(i)
      PROVE  IInv'
  <2>1. TypeOK' /\ TaskInv'
    BY <1>5 DEF WriteIndexRow, TypeOK, TaskInv
  <2>2. PersistInv'
    BY <1>5 DEF WriteIndexRow, PersistInv, TypeOK, InFlight
  <2> QED BY <1>5, <2>1, <2>2 DEF WriteIndexRow, HoldsInv, Standing, Concluded, Holds
<1> QED BY <1>1, <1>2, <1>3, <1>4, <1>5

\* The answer: what would be concluded is now known.
LEMMA CompleteStep ==
  ASSUME IInv, Complete
  PROVE  IInv'
<1> USE DEF IInv, Complete
<1>0. task # NoTask /\ task \in Task
  BY DEF TypeOK
<1>1. TypeOK'
  BY <1>0 DEF TypeOK, Concluded, Task, Phases
<1>2. TaskInv' /\ PersistInv'
  BY DEF TaskInv, PersistInv, TypeOK, InFlight
<1>3. HoldsInv'
  BY <1>0 DEF HoldsInv, Standing, Holds
<1> QED BY <1>1, <1>2, <1>3

\* A start: what index.txt says is all that is left.
LEMMA RebootStep ==
  ASSUME IInv, NEW readable \in BOOLEAN, Reboot(readable),
         Fail \/ UNCHANGED faults
  PROVE  IInv'
<1> USE DEF IInv, Reboot
<1>1. TypeOK'
  BY FaultsType DEF TypeOK, initialize, NoRows, Phases
<1>2. TaskInv'
  BY DEF TaskInv
<1>3. PersistInv'
  BY DEF PersistInv, initialize
<1>4. HoldsInv'
  <2>1. ASSUME ~indexLost', NEW i \in Ids
        PROVE  Holds(i, known[i])'
    <3>1. /\ ~indexLost /\ ~indexStale /\ phase # "rows" /\ readable
          /\ index' = indexFile /\ disk' = disk
      BY <2>1 DEF initialize
    <3>2. CASE i \in InFlight
      BY <3>2, FileStoreAssumption DEF Holds
    <3>3. CASE i \notin InFlight
      <4>1. index'[i] = index[i] /\ known'[i] = known[i]
        BY <3>1, <3>3 DEF PersistInv
      <4>2. Standing(i) = known[i]
        BY <3>3 DEF Standing, Concluded, InFlight
      <4> QED BY <3>1, <4>1, <4>2 DEF HoldsInv, Holds
    <3> QED BY <3>2, <3>3
  <2> QED BY <2>1 DEF HoldsInv, Standing
<1> QED BY <1>1, <1>2, <1>3, <1>4

(***************************************************************************)
(* The invariant                                                           *)
(***************************************************************************)
LEMMA InitIInv == Init => IInv
<1> SUFFICES ASSUME Init PROVE IInv
  OBVIOUS
<1> USE DEF Init, NoRows
<1>1. TypeOK
  <2>1. NoRows \in [Ids -> Info \cup {NoFile}]
        /\ NoRows \in [Ids -> Contents \cup {Torn, NoFile}]
        /\ NoRows \in [Ids -> Info \cup {NoFile, Unknown}]
    OBVIOUS
  <2>2. faults \in 0..MaxFaults
    BY FileStoreAssumption
  <2> HIDE DEF NoRows
  <2>3. indexStale \in BOOLEAN /\ indexLost \in BOOLEAN
    OBVIOUS
  <2> QED BY <2>1, <2>2, <2>3 DEF TypeOK, Phases
<1>2. TaskInv /\ PersistInv
  BY DEF TaskInv, PersistInv
<1>3. HoldsInv
  BY FileStoreAssumption DEF HoldsInv, Standing, Holds
<1> QED BY <1>1, <1>2, <1>3 DEF IInv

LEMMA NextIInv == IInv /\ [Next]_vars => IInv'
<1> SUFFICES ASSUME IInv, [Next]_vars PROVE IInv'
  OBVIOUS
<1>1. ASSUME NEW u \in Users, NEW i \in Ids,
             ListFiles(u, i) \/ FileInfo(u, i) \/ RetrieveFile(u, i)
      PROVE  IInv'
  <2>1. {"ListFiles", "FileInfo", "RetrieveFile"} \subseteq Ops
        /\ index[i] \in Info \cup {NoFile} /\ NoFile \in Info \cup {NoFile}
    BY DEF Ops, IInv, TypeOK
  <2> QED BY <1>1, <2>1, AnswerStep
          DEF ListFiles, FileInfo, RetrieveFile, ErrorTypes
<1>2. ASSUME NEW u \in Users, NEW i \in Ids, NEW p \in Paths, NEW c \in Contents,
             NEW valid \in BOOLEAN,
             StoreFile(u, i, p, c, valid) \/ ReplaceFile(u, i, p, c, valid)
      PROVE  IInv'
  <2>1. NewInfo(u, p, c) \in Info
    BY NewInfoType
  <2>2. Replaced(index, u, p) \in SUBSET Ids /\ {} \in SUBSET Ids
    BY DEF Replaced, Stored
  <2>3. Fresh(i) => i \notin Replaced(index, u, p)
    BY DEF Fresh, Replaced, Stored
  <2> QED BY <1>2, <2>1, <2>2, <2>3, StoreStep DEF StoreFile, ReplaceFile
<1>3. ASSUME NEW u \in Users, NEW i \in Ids, NEW p \in Paths, NEW c \in Contents,
             NEW valid \in BOOLEAN, UpdateFile(u, i, p, c, valid)
      PROVE  IInv'
  BY <1>3, UpdateStep
<1>4. CASE Request
  BY <1>1, <1>2, <1>3, <1>4, RowStep, RemoveStep DEF Request
<1>5. CASE Restart
  BY <1>5, RebootStep DEF Restart
<1>6. ASSUME NEW readable \in BOOLEAN, Crash(readable)
      PROVE  IInv'
  BY <1>6, RebootStep DEF Crash
<1>7. CASE UNCHANGED vars
  BY <1>7 DEF vars, IInv, TypeOK, TaskInv, PersistInv, HoldsInv, Standing,
              Concluded, Holds, InFlight
<1> QED
  BY <1>4, <1>5, <1>6, <1>7, ReplaceRemoveStep, WriteIndexStep, CompleteStep
  DEF Next

LEMMA SpecIInv == Spec => []IInv
  BY InitIInv, NextIInv, PTL DEF Spec

(***************************************************************************)
(* The theorems                                                            *)
(***************************************************************************)

\* The types of FileStore hold in every reachable state.
THEOREM TypeCorrect == Spec => []TypeOK
<1>1. IInv => TypeOK
  BY DEF IInv
<1> QED BY <1>1, SpecIInv, PTL

\* Outside a rewrite, and unless the last one failed, index.txt holds the row
\* of every file that is not being changed.
THEOREM AnswersPersist == Spec => []AnsweredPersists
<1>1. IInv => AnsweredPersists
  BY DEF IInv, PersistInv, AnsweredPersists
<1> QED BY <1>1, SpecIInv, PTL

\* Unless the process restarted from an incomplete index file, what was
\* answered holds: rows and bytes are as reported.
THEOREM AnswersHold == Spec => []AnsweredHolds
<1>1. IInv => AnsweredHolds
  <2> SUFFICES ASSUME IInv, ~indexLost, NEW i \in Ids \ InFlight
               PROVE  Holds(i, known[i])
    BY DEF AnsweredHolds, Holds
  <2>1. Standing(i) = known[i]
    BY DEF Standing, Concluded, InFlight
  <2> QED BY <2>1 DEF IInv, HoldsInv
<1> QED BY <1>1, SpecIInv, PTL

(***************************************************************************)
(* Replacements, and who changes what                                      *)
(***************************************************************************)

\* As long as a replacement has not failed, its new file stands, and what the
\* executor may replace under its path is that file and those still to remove.
ReplaceInv ==
  (task # NoTask /\ task.op = "ReplaceFile" /\ task.result = "None") =>
    /\ task.info \in Info
    /\ index[task.id] = task.info /\ disk[task.id] = task.info.content
    /\ Replaced(index, task.user, task.info.path) = {task.id} \cup task.olds

\* Other requests are no replacements.
LEMMA OtherRequests ==
  ASSUME Request
  PROVE  \/ task' # NoTask => task'.op # "ReplaceFile"
         \/ \E u \in Users, i \in Ids, p \in Paths, c \in Contents, valid \in BOOLEAN :
              ReplaceFile(u, i, p, c, valid)
<1>1. ASSUME NEW op, NEW u \in Users, NEW i \in Ids, NEW info, NEW result, NEW touched, NEW olds,
             op # "ReplaceFile", Perform(op, u, i, info, result, touched, olds)
      PROVE  task'.op # "ReplaceFile"
  BY <1>1 DEF Perform
<1>2. ASSUME NEW op, NEW u \in Users, NEW i \in Ids, NEW info, NEW result,
             op # "ReplaceFile", Answer(op, u, i, info, result) \/ Relabel(op, u, i, result, info)
      PROVE  task'.op # "ReplaceFile"
  BY <1>1, <1>2 DEF Answer, Relabel
<1>3. ASSUME NEW u \in Users, NEW i \in Ids,
             \/ ListFiles(u, i) \/ FileInfo(u, i) \/ RetrieveFile(u, i)
             \/ \E p \in Paths, c \in Contents, valid \in BOOLEAN :
                  StoreFile(u, i, p, c, valid) \/ UpdateFile(u, i, p, c, valid)
      PROVE  task'.op # "ReplaceFile"
  BY <1>1, <1>2, <1>3 DEF ListFiles, FileInfo, RetrieveFile, StoreFile, Store, UpdateFile
<1>4. ASSUME NEW u \in Users, NEW i \in Ids,
             \/ \E o \in Users, g \in Groups, valid \in BOOLEAN :
                  UpdateFileAccessOwner(u, i, o, g, valid)
             \/ \E m \in Modes, valid \in BOOLEAN : UpdateFileAccessMode(u, i, m, valid)
             \/ \E l \in Labels : UpdateFileVersion(u, i, l)
             \/ \E l \in Labels, valid \in BOOLEAN : UpdateFileTags(u, i, l, valid)
             \/ \E gone \in BOOLEAN : RemoveFile(u, i, gone)
      PROVE  task'.op # "ReplaceFile"
  BY <1>1, <1>2, <1>4 DEF UpdateFileAccessOwner, UpdateFileAccessMode, UpdateFileVersion,
     UpdateFileTags, RemoveFile
<1> QED BY <1>3, <1>4 DEF Request

LEMMA ReplaceInvStep ==
  ASSUME IInv, IInv', ReplaceInv, [Next]_vars
  PROVE  ReplaceInv'
<1>1. ASSUME NEW u \in Users, NEW i \in Ids, NEW p \in Paths, NEW c \in Contents,
             NEW valid \in BOOLEAN, ReplaceFile(u, i, p, c, valid)
      PROVE  ReplaceInv'
  <2> DEFINE info == NewInfo(u, p, c)
             olds == Replaced(index, u, p)
  <2>1. /\ info \in Info /\ info.content = c /\ info.path = p /\ info.owner = u
        /\ authorizeUserAccess(u, info, "Write")
    BY NewInfoType DEF NewInfo, DefaultMode, authorizeUserAccess, isUserAuthorized
  <2>2. Store("ReplaceFile", u, i, info, valid, olds)
    BY <1>1 DEF ReplaceFile
  <2> HIDE DEF info, olds
  <2>3. \/ /\ writeBinaryFile(i, info.content, TRUE)
           /\ index' = [index EXCEPT ![i] = info]
           /\ Perform("ReplaceFile", u, i, info, "None", {i}, olds)
        \/ \E result, touched :
             result # "None" /\ Perform("ReplaceFile", u, i, NoFile, result, touched, {})
    <3> DEFINE fate == StoreResult(u, info, valid)
    <3>1. CASE fate # "None" /\ Answer("ReplaceFile", u, i, NoFile, fate)
      <4> HIDE DEF fate
      <4> QED BY <3>1 DEF Answer
    <3>2. CASE /\ fate = "None" /\ writeBinaryFile(i, info.content, TRUE)
               /\ index' = [index EXCEPT ![i] = info]
               /\ Perform("ReplaceFile", u, i, info, "None", {i}, olds)
      BY <3>2
    <3>3. CASE Perform("ReplaceFile", u, i, NoFile, "WriteFile", {i}, {})
      BY <3>3
    <3> QED BY <2>2, <3>1, <3>2, <3>3 DEF Store
  <2>4. CASE \E result, touched :
               result # "None" /\ Perform("ReplaceFile", u, i, NoFile, result, touched, {})
    BY <2>4 DEF Perform, ReplaceInv
  <2>5. CASE /\ writeBinaryFile(i, info.content, TRUE)
             /\ index' = [index EXCEPT ![i] = info]
             /\ Perform("ReplaceFile", u, i, info, "None", {i}, olds)
    <3>1. disk'[i] = info.content /\ index'[i] = info /\ \A j \in Ids \ {i} : index'[j] = index[j]
      BY <2>1, <2>5, WriteType DEF IInv, TypeOK
    <3>2. /\ task'.id = i /\ task'.info = info /\ task'.user = u /\ task'.olds = olds
          /\ info # NoFile
      BY <2>1, <2>5, FileStoreAssumption DEF Perform
    <3>3. Replaced(index', u, p) = {i} \cup olds
      <4>1. i \in Replaced(index', u, p)
        BY <2>1, <3>1, <3>2 DEF Replaced, Stored, olds
      <4>2. \A j \in Ids \ {i} : j \in Replaced(index', u, p) <=> j \in olds
        BY <3>1 DEF Replaced, Stored, olds
      <4>3. Replaced(index', u, p) \subseteq Ids /\ olds \subseteq Ids
        BY DEF Replaced, Stored, olds
      <4> QED BY <4>1, <4>2, <4>3
    <3> QED BY <2>1, <3>1, <3>2, <3>3 DEF ReplaceInv
  <2> QED BY <2>3, <2>4, <2>5
<1>2. ASSUME NEW i \in Ids, NEW gone \in BOOLEAN, ReplaceRemove(i, gone)
      PROVE  ReplaceInv'
  <2>1. /\ i \in task.olds /\ task # NoTask /\ task \in Task /\ task.id \notin task.olds
        /\ task.op = "ReplaceFile" /\ task.result = "None"
    BY <1>2 DEF ReplaceRemove, IInv, TypeOK, TaskInv
  <2>2. CASE ~gone
    BY <1>2, <2>1, <2>2 DEF ReplaceRemove, ReplaceInv, Task
  <2>3. CASE gone
    <3>1. /\ index'[i] = NoFile /\ \A j \in Ids \ {i} : index'[j] = index[j] /\ disk'[j] = disk[j]
      BY <1>2, DiscardType DEF ReplaceRemove, IInv
    <3>2. /\ task'.id = task.id /\ task'.info = task.info /\ task'.user = task.user
          /\ task'.olds = task.olds \ {i} /\ task.id \in Ids
      BY <1>2, <2>1, <2>3 DEF ReplaceRemove, Task
    <3>3. ASSUME NEW u, NEW p
          PROVE  Replaced(index', u, p) = Replaced(index, u, p) \ {i}
      BY <3>1 DEF Replaced, Stored
    <3> QED BY <2>1, <3>1, <3>2, <3>3 DEF ReplaceInv
  <2> QED BY <2>2, <2>3
<1>3. CASE Request
  <2>1. CASE task' # NoTask => task'.op # "ReplaceFile"
    BY <2>1 DEF ReplaceInv
  <2> QED BY <1>1, <1>3, <2>1, OtherRequests
<1>4. CASE /\ UNCHANGED <<index, disk, task>>
  BY <1>4 DEF ReplaceInv
<1>5. CASE task' = NoTask
  BY <1>5 DEF ReplaceInv
<1>6. Request \/ (\E i \in Ids, gone \in BOOLEAN : ReplaceRemove(i, gone))
        \/ UNCHANGED <<index, disk, task>> \/ task' = NoTask
  BY DEF Next, BeginWriteIndex, FailWriteIndex, WriteIndexRow, EndWriteIndex, LoseIndexRows,
     Complete, Restart, Crash, Reboot, vars
<1> QED BY <1>2, <1>3, <1>4, <1>5, <1>6

LEMMA SpecReplaceInv == Spec => [](IInv /\ ReplaceInv)
<1>1. Init => IInv /\ ReplaceInv
  BY InitIInv DEF Init, ReplaceInv
<1>2. (IInv /\ ReplaceInv) /\ [Next]_vars => (IInv /\ ReplaceInv)'
  BY NextIInv, ReplaceInvStep
<1> QED BY <1>1, <1>2, PTL DEF Spec

\* As long as the process lives, a replacement removes the old files only while
\* the new one stands, and when it has met no error the new one alone is left
\* among those it replaces; from the rewrite of index.txt on, in that file too.
THEOREM ReplaceKeepsACopy == Spec => []ReplaceLeavesOneCopy
<1>1. IInv /\ ReplaceInv => ReplaceLeavesOneCopy
  BY DEF IInv, TaskInv, PersistInv, ReplaceInv, ReplaceLeavesOneCopy
<1> QED BY <1>1, SpecReplaceInv, PTL

\* A step of a task changes one file at most, and only as its executor may.
MayChange(i) ==
  \/ index[i] = NoFile
  \/ authorizeUserAccess(task'.user, index[i], "Write")
  \/ task'.op \in {"UpdateFileAccessOwner", "UpdateFileAccessMode"}

ChangesOne ==
  \/ UNCHANGED <<index, disk>>
  \/ \E i \in Ids :
       /\ \A j \in Ids \ {i} : index'[j] = index[j] /\ disk'[j] = disk[j]
       /\ MayChange(i)

LEMMA RequestChangesOne ==
  ASSUME TypeOK, Request
  PROVE  ChangesOne
<1>1. ASSUME NEW op, NEW u \in Users, NEW i \in Ids, NEW info, NEW result, NEW touched, NEW olds,
             Perform(op, u, i, info, result, touched, olds)
      PROVE  task'.user = u /\ task'.op = op
  BY <1>1 DEF Perform
<1>2. ASSUME NEW u \in Users, NEW i \in Ids, NEW c \in Contents, NEW ok \in BOOLEAN, NEW info,
             writeBinaryFile(i, c, ok), index' = index \/ index' = [index EXCEPT ![i] = info],
             MayChange(i)
      PROVE  ChangesOne
  BY <1>2, WriteType DEF ChangesOne, TypeOK
<1>3. ASSUME NEW u \in Users, NEW i \in Ids,
             ListFiles(u, i) \/ FileInfo(u, i) \/ RetrieveFile(u, i)
      PROVE  ChangesOne
  BY <1>3 DEF ListFiles, FileInfo, RetrieveFile, Answer, ChangesOne
<1>4. ASSUME NEW u \in Users, NEW i \in Ids, NEW p \in Paths, NEW c \in Contents,
             NEW valid \in BOOLEAN, StoreFile(u, i, p, c, valid) \/ ReplaceFile(u, i, p, c, valid)
      PROVE  ChangesOne
  <2>1. MayChange(i) /\ NewInfo(u, p, c).content = c
    BY <1>4, NewInfoType DEF StoreFile, ReplaceFile, Fresh, MayChange
  <2>2. \E ok \in BOOLEAN : \E info :
          \/ writeBinaryFile(i, c, ok) /\ (index' = index \/ index' = [index EXCEPT ![i] = info])
          \/ UNCHANGED <<index, disk>>
    BY <1>4, <2>1 DEF StoreFile, ReplaceFile, Store, Answer
  <2> QED BY <1>2, <2>1, <2>2 DEF ChangesOne
<1>5. ASSUME NEW u \in Users, NEW i \in Ids, NEW p \in Paths, NEW c \in Contents,
             NEW valid \in BOOLEAN, UpdateFile(u, i, p, c, valid)
      PROVE  ChangesOne
  <2>1. CASE UpdateResult(u, i, c, valid) # "None"
    BY <1>5, <2>1 DEF UpdateFile, Answer, ChangesOne
  <2>2. CASE UpdateResult(u, i, c, valid) = "None"
    <3>1. authorizeUserAccess(u, index[i], "Write")
      BY <2>2 DEF UpdateResult
    <3>2. task'.user = u
      BY <1>1, <1>5, <2>2 DEF UpdateFile
    <3>3. \E ok \in BOOLEAN : \E info :
            writeBinaryFile(i, c, ok) /\ (index' = index \/ index' = [index EXCEPT ![i] = info])
      BY <1>5, <2>2 DEF UpdateFile
    <3> QED BY <1>2, <3>1, <3>2, <3>3 DEF MayChange
  <2> QED BY <2>1, <2>2
<1>6. ASSUME NEW u \in Users, NEW i \in Ids, NEW op, NEW result, NEW info,
             Relabel(op, u, i, result, info),
             \/ op \in {"UpdateFileAccessOwner", "UpdateFileAccessMode"}
             \/ result = "None" => authorizeUserAccess(u, index[i], "Write")
      PROVE  ChangesOne
  <2>1. CASE result # "None"
    BY <1>6, <2>1 DEF Relabel, Answer, ChangesOne
  <2>2. CASE result = "None"
    <3>1. /\ index' = [index EXCEPT ![i] = info] /\ disk' = disk
          /\ task'.user = u /\ task'.op = op
      BY <1>1, <1>6, <2>2 DEF Relabel
    <3> QED BY <1>6, <2>2, <3>1 DEF ChangesOne, MayChange, TypeOK
  <2> QED BY <2>1, <2>2
<1>7. ASSUME NEW u \in Users, NEW i \in Ids,
             \/ \E o \in Users, g \in Groups, valid \in BOOLEAN :
                  UpdateFileAccessOwner(u, i, o, g, valid)
             \/ \E m \in Modes, valid \in BOOLEAN : UpdateFileAccessMode(u, i, m, valid)
      PROVE  ChangesOne
  BY <1>6, <1>7 DEF UpdateFileAccessOwner, UpdateFileAccessMode
<1>8. ASSUME NEW u \in Users, NEW i \in Ids,
             \/ \E l \in Labels : UpdateFileVersion(u, i, l)
             \/ \E l \in Labels, valid \in BOOLEAN : UpdateFileTags(u, i, l, valid)
      PROVE  ChangesOne
  BY <1>6, <1>8 DEF UpdateFileVersion, UpdateFileTags
<1>9. ASSUME NEW u \in Users, NEW i \in Ids, NEW gone \in BOOLEAN, RemoveFile(u, i, gone)
      PROVE  ChangesOne
  <2>1. CASE RemoveResult(u, i) # "None"
    BY <1>9, <2>1 DEF RemoveFile, Answer, ChangesOne
  <2>2. CASE RemoveResult(u, i) = "None"
    <3>1. Discard(i, gone) /\ task'.user = u
      BY <1>1, <1>9, <2>2 DEF RemoveFile
    <3>2. authorizeUserAccess(u, index[i], "Write")
      BY <2>2 DEF RemoveResult
    <3> QED BY <3>1, <3>2, DiscardType DEF ChangesOne, MayChange
  <2> QED BY <2>1, <2>2
<1> QED BY <1>3, <1>4, <1>5, <1>7, <1>8, <1>9 DEF Request

\* Only who may write a file changes its bytes, its row or its place, in the
\* removals of a replacement too.
THEOREM OnlyWriters == Spec => OnlyWritersChange
<1> DEFINE A == \A i \in Ids :
                  (task' # NoTask /\ index[i] # NoFile
                     /\ task'.op \notin {"UpdateFileAccessOwner", "UpdateFileAccessMode"}) =>
                    \/ index'[i] = index[i] /\ disk'[i] = disk[i]
                    \/ authorizeUserAccess(task'.user, index[i], "Write")
<1>1. ASSUME ChangesOne PROVE A
  BY <1>1 DEF ChangesOne, MayChange
<1>2. ASSUME IInv, ReplaceInv, NEW i \in Ids, NEW gone \in BOOLEAN, ReplaceRemove(i, gone)
      PROVE  ChangesOne
  <2>1. /\ i \in task.olds /\ task # NoTask /\ task \in Task
        /\ task.op = "ReplaceFile" /\ task.result = "None"
    BY <1>2 DEF ReplaceRemove, IInv, TypeOK, TaskInv
  <2>2. authorizeUserAccess(task.user, index[i], "Write")
    BY <1>2, <2>1 DEF ReplaceInv, Replaced
  <2>3. task'.user = task.user
    BY <1>2, <2>1 DEF ReplaceRemove, Task
  <2>4. \A j \in Ids \ {i} : index'[j] = index[j] /\ disk'[j] = disk[j]
    BY <1>2, DiscardType DEF ReplaceRemove, IInv
  <2> QED BY <2>2, <2>3, <2>4 DEF ChangesOne, MayChange
<1>3. ASSUME IInv, ReplaceInv, [Next]_vars, task' # NoTask
      PROVE  ChangesOne
  <2>1. Request \/ (\E i \in Ids, gone \in BOOLEAN : ReplaceRemove(i, gone))
          \/ UNCHANGED <<index, disk>>
    BY <1>3 DEF Next, BeginWriteIndex, FailWriteIndex, WriteIndexRow, EndWriteIndex,
       LoseIndexRows, Complete, Restart, Crash, Reboot, vars
  <2> QED BY <1>2, <1>3, <2>1, RequestChangesOne DEF IInv, ChangesOne
<1>4. ASSUME IInv, ReplaceInv, [Next]_vars PROVE A
  BY <1>1, <1>3, <1>4
<1> HIDE DEF A
<1>5. IInv /\ ReplaceInv /\ [Next]_vars => [A]_vars
  BY <1>4
<1>6. Spec => [][A]_vars
  BY <1>5, SpecReplaceInv, PTL DEF Spec
<1> QED BY <1>6 DEF A, OnlyWritersChange

=============================================================================
