----------------------------- MODULE FileStore -----------------------------
(***************************************************************************)
(* The file store of the cloud server: class FileManager (worker loop and  *)
(* file handlers, file_manager.cpp) over class FileIndex (file_index.cpp). *)
(*                                                                         *)
(* One worker thread performs one task at a time.  A task changes three    *)
(* places one after the other: a file in the store directory (disk), the   *)
(* index in memory, and the index file, which is truncated and rewritten   *)
(* row by row.  The process may die between any two of these changes and   *)
(* any of the writes may fail.  Only then is the request answered.         *)
(*                                                                         *)
(* Which requests arrive, and in which order, is left open: the queue in   *)
(* front of the worker is the subject of another module.                   *)
(*                                                                         *)
(* Bounds: Ids bounds the number of files that exist at a time (a uuid is  *)
(* reused once every trace of it is gone); MaxFaults bounds the I/O        *)
(* failures and crashes of a behaviour.                                    *)
(***************************************************************************)
EXTENDS Integers, FiniteSets, FiniteSetsExt

CONSTANTS
  Users, RootUser, RootGroup, UserGroup,
  GroupsOf,       \* the groups of each user
  Groups,
  Ids,            \* file ids (uuids)
  Paths,
  Contents,       \* file contents; the index holds their size and checksum
  SizeOf,         \* size of each content
  Modes,          \* access modes a request may set
  Labels, NewLabel,  \* what the version and tags of a file may be, and are first
  Quota,          \* each user's RFileQuota
  MaxFileSize, MaxStoreSize,  \* settings; not positive means unlimited
  MaxFaults,
  NoFile, Torn, Unknown, NoTask

VARIABLES
  index,       \* FileIndex::index: the row of each file, in memory
  indexFile,   \* the rows in index.txt
  disk,        \* the files of the store directory
  totalSize,   \* FileManager::totalSize
  phase,       \* where the worker is in the loop of perform()
  task,        \* the task being performed
  unwritten,   \* rows the index rewrite has still to put out
  faults,      \* failures so far
  \* History, for the properties only:
  known,       \* what the answers so far tell the clients about each file
  indexStale,  \* the last write (or read) of index.txt failed or fell short
  indexLost    \* the process restarted from an incomplete index.txt

diskVars == <<disk, index, totalSize>>
historyVars == <<known, indexStale, indexLost>>
vars == <<index, indexFile, disk, totalSize, phase, task, unwritten, faults,
          known, indexStale, indexLost>>

(***************************************************************************)
(* Types                                                                   *)
(***************************************************************************)
Rights == {"Read", "Write"}

\* RAccessMode: a mask for the owner, for the group and for the others.
Mode == [user : SUBSET Rights, group : SUBSET Rights, other : SUBSET Rights]

\* RFileInfo.  "content" stands for the size and the md5 checksum of the row,
\* "label" for its version and tags; dates are left out.
Info == [owner : Users, group : Groups, mode : Mode, path : Paths,
         content : Contents, label : Labels]

Ops == {"ListFiles", "FileInfo", "StoreFile", "ReplaceFile", "UpdateFile",
        "UpdateFileAccessOwner", "UpdateFileAccessMode", "UpdateFileVersion",
        "UpdateFileTags", "RetrieveFile", "RemoveFile"}

ErrorTypes == {"None", "Unauthorized", "InvalidInput", "WriteFile", "ReadFile"}

\* The task at work: info is the row its answer reports (NoFile when there is
\* none), olds the files replaceFile has still to remove, touched the files
\* whose bytes or row it has changed.
Task == [op : Ops, user : Users, id : Ids, info : Info \cup {NoFile},
         result : ErrorTypes, olds : SUBSET Ids, touched : SUBSET Ids]

Phases == {"idle", "replacing", "index", "rows", "done"}

\* The access mode ActionHandler gives to an uploaded file.
DefaultMode == [user |-> {"Read", "Write"}, group |-> {"Read"}, other |-> {}]

ASSUME FileStoreAssumption ==
  /\ IsFiniteSet(Ids) /\ UserGroup \in Groups
  /\ GroupsOf \in [Users -> SUBSET Groups]
  /\ SizeOf \in [Contents -> Nat]
  /\ Modes \subseteq Mode
  /\ NewLabel \in Labels
  /\ MaxFileSize \in Int /\ MaxStoreSize \in Int
  /\ Quota \in [Users -> [storeSize : Nat, fileSize : Nat, fileCount : Nat]]
  /\ MaxFaults \in Nat
  /\ NoFile \notin Info /\ Unknown \notin Info /\ Unknown # NoFile
  /\ NoFile \notin Contents /\ Torn \notin Contents /\ Torn # NoFile
  /\ NoTask \notin Task

(***************************************************************************)
(* Helpers                                                                 *)
(***************************************************************************)
\* RAccessRights::isUserAuthorized (library), as the store relies on it.
isUserAuthorized(u, info, right) ==
  \/ u = info.owner /\ right \in info.mode.user
  \/ info.group \in GroupsOf[u] /\ right \in info.mode.group
  \/ right \in info.mode.other

authorizeUserAccess(u, info, right) ==
  \/ u = RootUser
  \/ RootGroup \in GroupsOf[u]
  \/ isUserAuthorized(u, info, right)

\* authorizeUserAccess with RAccessMode::None: the owner or root.
authorizeOwner(u, info) == u = RootUser \/ u = info.owner

Stored(rows) == {i \in Ids : rows[i] # NoFile}

Owned(rows, u) == {i \in Stored(rows) : rows[i].owner = u}

SizeSum(rows, S) == MapThenSumSet(LAMBDA i : SizeOf[rows[i].content], S)

findStoreSize(rows) == SizeSum(rows, Stored(rows))

findUserStoreSize(u) == SizeSum(index, Owned(index, u))

findStoreCount(u) == Cardinality(Owned(index, u))

\* RFileQuota::quotaExceeded (library): one of the three limits is passed.
quotaExceeded(u, storeSize, fileSize, fileCount) ==
  \/ storeSize > Quota[u].storeSize
  \/ fileSize > Quota[u].fileSize
  \/ fileCount > Quota[u].fileCount

\* What ActionHandler asks to store for user u.
NewInfo(u, p, c) ==
  [owner |-> u, group |-> UserGroup, mode |-> DefaultMode, path |-> p,
   content |-> c, label |-> NewLabel]

\* QUuid::createUuid: an id no file, row or line of index.txt bears.
Fresh(i) == index[i] = NoFile /\ indexFile[i] = NoFile /\ disk[i] = NoFile

\* Mutant: the flag is forgotten for one kind of task.
WritesIndexNotUpdate ==
  Ops \ {"ListFiles", "FileInfo", "RetrieveFile", "UpdateFile"}

\* The tasks after which perform() rewrites the index file, failed or not.
WritesIndex == Ops \ {"ListFiles", "FileInfo", "RetrieveFile"}

\* The tasks that change a row and no bytes.
ChangesRow == {"UpdateFileAccessOwner", "UpdateFileAccessMode",
               "UpdateFileVersion", "UpdateFileTags"}

(***************************************************************************)
(* Initial state: an empty store directory (FileManager::initialize).      *)
(***************************************************************************)
NoRows == [i \in Ids |-> NoFile]

Init ==
  /\ index = NoRows /\ indexFile = NoRows /\ disk = NoRows
  /\ totalSize = 0
  /\ phase = "idle" /\ task = NoTask /\ unwritten = {}
  /\ faults = 0
  /\ known = NoRows /\ indexStale = FALSE /\ indexLost = FALSE

(***************************************************************************)
(* The worker takes a task (perform).  Each handler below ends by saying   *)
(* how the task is left: Perform sets the task and the phase that follows. *)
(***************************************************************************)
Perform(op, u, i, info, result, touched, olds) ==
  /\ phase = "idle"
  /\ task' = [op |-> op, user |-> u, id |-> i, info |-> info, result |-> result,
              olds |-> olds, touched |-> touched]
  /\ phase' = IF olds # {} THEN "replacing"
              ELSE IF op \in WritesIndex THEN "index" ELSE "done"
  /\ UNCHANGED <<indexFile, unwritten, known, indexStale, indexLost>>

\* The task is answered without touching a file.
Answer(op, u, i, info, result) ==
  /\ Perform(op, u, i, info, result, {}, {})
  /\ UNCHANGED <<index, disk, totalSize, faults>>

Fail == faults < MaxFaults /\ faults' = faults + 1

\* RFileTools::writeBinaryFile (library).  A failure may leave the file as it
\* was or partly written.
writeBinaryFile(i, c, ok) ==
  IF ok
  THEN disk' = [disk EXCEPT ![i] = c] /\ UNCHANGED faults
  ELSE Fail /\ \E left \in {disk[i], Torn} : disk' = [disk EXCEPT ![i] = left]

(***************************************************************************)
(* Queries                                                                 *)
(***************************************************************************)
\* The answer carries the whole list; no single file is addressed.
ListFiles(u, i) == Answer("ListFiles", u, i, NoFile, "None")

FileInfo(u, i) ==
  LET result == IF index[i] = NoFile THEN "InvalidInput"
                ELSE IF ~authorizeUserAccess(u, index[i], "Read")
                     THEN "Unauthorized" ELSE "None"
  IN  Answer("FileInfo", u, i, index[i], result)

RetrieveFile(u, i) ==
  LET result == IF index[i] = NoFile THEN "InvalidInput"
                ELSE IF ~authorizeUserAccess(u, index[i], "Read")
                     THEN "Unauthorized"
                ELSE IF disk[i] = NoFile THEN "ReadFile" ELSE "None"
  IN  Answer("RetrieveFile", u, i, index[i], result)

(***************************************************************************)
(* Store and replace                                                       *)
(***************************************************************************)
\* Mutant: what is being added is not counted.
ExceedsQuotaBeforehand(u, growth, fileSize, added) ==
  quotaExceeded(u, findUserStoreSize(u), fileSize, findStoreCount(u) + added)

\* The quota of executor u if its files grew that much and became that many.
ExceedsQuota(u, growth, fileSize, added) ==
  quotaExceeded(u, findUserStoreSize(u) + growth, fileSize,
                findStoreCount(u) + added)

\* The checks of storeFile; pathValid is RFileInfo::isPathValid.  (Those that
\* end with InvalidInput are put together, the cheapest one first.)
StoreResult(u, info, pathValid) ==
  LET size == SizeOf[info.content]
  IN  IF ~authorizeUserAccess(u, info, "Write") THEN "Unauthorized"
      ELSE IF \/ ~pathValid
              \/ MaxFileSize > 0 /\ size > MaxFileSize
              \/ MaxStoreSize > 0 /\ size + totalSize > MaxStoreSize
              \/ ExceedsQuota(u, size, size, 1)
           THEN "InvalidInput"
      ELSE "None"

\* storeFile, on behalf of a StoreFile or a ReplaceFile task.
Store(op, u, i, info, pathValid, olds) ==
  LET result == StoreResult(u, info, pathValid)
  IN  \/ result # "None" /\ Answer(op, u, i, NoFile, result)
      \/ /\ result = "None"
         /\ writeBinaryFile(i, info.content, TRUE)
         /\ index' = [index EXCEPT ![i] = info]
         /\ totalSize' = totalSize + SizeOf[info.content]
         /\ Perform(op, u, i, info, "None", {i}, olds)
      \/ /\ result = "None"
         /\ writeBinaryFile(i, info.content, FALSE)
         /\ UNCHANGED <<index, totalSize>>
         /\ Perform(op, u, i, NoFile, "WriteFile", {i}, {})

StoreFile(u, i, p, c, pathValid) ==
  Fresh(i) /\ Store("StoreFile", u, i, NewInfo(u, p, c), pathValid, {})

\* The files a replacement removes: same path, owned and writable by u.
Replaced(rows, u, p) ==
  {i \in Stored(rows) : /\ rows[i].path = p
                        /\ u = rows[i].owner
                        /\ authorizeUserAccess(u, rows[i], "Write")}

\* Mutant: the list is made after the new file was stored.
ReplaceFileListLate(u, i, p, c, pathValid) ==
  /\ Fresh(i)
  /\ Store("ReplaceFile", u, i, NewInfo(u, p, c), pathValid,
           Replaced(index, u, p) \cup {i})

\* The list is made before the new file is stored, the removal comes after.
ReplaceFile(u, i, p, c, pathValid) ==
  /\ Fresh(i)
  /\ Store("ReplaceFile", u, i, NewInfo(u, p, c), pathValid, Replaced(index, u, p))

\* removeFile past its checks: the row goes first, then the file; totalSize
\* follows only when the file was removed.  QDir::remove fails on a missing
\* file, and may fail on any.
Discard(i, gone) ==
  /\ index' = [index EXCEPT ![i] = NoFile]
  /\ IF gone
     THEN /\ disk[i] # NoFile
          /\ disk' = [disk EXCEPT ![i] = NoFile]
          /\ totalSize' = totalSize - SizeOf[index[i].content]
          /\ UNCHANGED faults
     ELSE /\ IF disk[i] = NoFile THEN UNCHANGED faults ELSE Fail
          /\ UNCHANGED <<disk, totalSize>>

\* One round of replaceFile's removal loop.  The checks of removeFile cannot
\* fail here: the list was made by the same ones.  The first error ends it.
ReplaceRemove(i, gone) ==
  LET olds == IF gone THEN task.olds \ {i} ELSE {}
  IN  /\ phase = "replacing" /\ i \in task.olds
      /\ Discard(i, gone)
      /\ task' = [task EXCEPT !.olds = olds,
                              !.touched = @ \cup {i},
                              !.result = IF gone THEN @ ELSE "WriteFile"]
      /\ phase' = IF olds = {} THEN "index" ELSE phase
      /\ UNCHANGED <<indexFile, unwritten, historyVars>>

(***************************************************************************)
(* Update                                                                  *)
(***************************************************************************)
\* The checks of updateFile.  The quota is the executor's, and its file size
\* is compared with the growth of the file.
UpdateResult(u, i, c, pathValid) ==
  IF index[i] = NoFile THEN "InvalidInput"
  ELSE LET growth == SizeOf[c] - SizeOf[index[i].content]
       IN  IF ~authorizeUserAccess(u, index[i], "Write") THEN "Unauthorized"
           ELSE IF ~pathValid \/ ExceedsQuota(u, growth, growth, 0)
                THEN "InvalidInput"
           ELSE "None"

\* Mutant: the old size is read after the new one is set.
TotalAfterUpdateLate(i, c) == totalSize

TotalAfterUpdate(i, c) == totalSize + SizeOf[c] - SizeOf[index[i].content]

UpdateFile(u, i, p, c, pathValid) ==
  LET result == UpdateResult(u, i, c, pathValid)
      info == [index[i] EXCEPT !.path = p, !.content = c]
  IN  \/ result # "None" /\ Answer("UpdateFile", u, i, NoFile, result)
      \/ /\ result = "None"
         /\ writeBinaryFile(i, c, TRUE)
         /\ index' = [index EXCEPT ![i] = info]
         /\ totalSize' = TotalAfterUpdate(i, c)
         /\ Perform("UpdateFile", u, i, info, "None", {i}, {})
      \/ /\ result = "None"
         /\ writeBinaryFile(i, c, FALSE)
         /\ UNCHANGED <<index, totalSize>>
         /\ Perform("UpdateFile", u, i, NoFile, "WriteFile", {i}, {})

\* Mutant: the new row is reported but not registered.
RelabelUnregistered(op, u, i, result, info) ==
  \/ result # "None" /\ Answer(op, u, i, NoFile, result)
  \/ /\ result = "None"
     /\ Perform(op, u, i, info, "None", {i}, {})
     /\ UNCHANGED <<index, disk, totalSize, faults>>

\* The handlers that change only the row of a file.
Relabel(op, u, i, result, info) ==
  \/ result # "None" /\ Answer(op, u, i, NoFile, result)
  \/ /\ result = "None"
     /\ index' = [index EXCEPT ![i] = info]
     /\ Perform(op, u, i, info, "None", {i}, {})
     /\ UNCHANGED <<disk, totalSize, faults>>

\* valid: the owner is well formed and UserManager knows its user and group.
\* The handler itself asks for no right on the file.
UpdateFileAccessOwner(u, i, o, g, valid) ==
  LET result == IF index[i] = NoFile \/ ~valid THEN "InvalidInput" ELSE "None"
  IN  Relabel("UpdateFileAccessOwner", u, i, result,
              [index[i] EXCEPT !.owner = o, !.group = g])

UpdateFileAccessMode(u, i, m, valid) ==
  LET result == IF index[i] = NoFile THEN "InvalidInput"
                ELSE IF ~authorizeOwner(u, index[i]) THEN "Unauthorized"
                ELSE IF ~valid THEN "InvalidInput" ELSE "None"
  IN  Relabel("UpdateFileAccessMode", u, i, result, [index[i] EXCEPT !.mode = m])

UpdateFileVersion(u, i, l) ==
  LET result == IF index[i] = NoFile THEN "InvalidInput"
                ELSE IF ~authorizeUserAccess(u, index[i], "Write")
                     THEN "Unauthorized" ELSE "None"
  IN  Relabel("UpdateFileVersion", u, i, result, [index[i] EXCEPT !.label = l])

\* valid: not too many tags, and each of them well formed.
UpdateFileTags(u, i, l, valid) ==
  LET result == IF index[i] = NoFile THEN "InvalidInput"
                ELSE IF ~authorizeUserAccess(u, index[i], "Write")
                     THEN "Unauthorized"
                ELSE IF ~valid THEN "InvalidInput" ELSE "None"
  IN  Relabel("UpdateFileTags", u, i, result, [index[i] EXCEPT !.label = l])

(***************************************************************************)
(* Remove                                                                  *)
(***************************************************************************)
\* Mutant: whoever may read a file may remove it.
RemoveResultReaders(u, i) ==
  IF index[i] = NoFile THEN "InvalidInput"
  ELSE IF ~authorizeUserAccess(u, index[i], "Read") THEN "Unauthorized" ELSE "None"

\* The checks of removeFile.
RemoveResult(u, i) ==
  IF index[i] = NoFile THEN "InvalidInput"
  ELSE IF ~authorizeUserAccess(u, index[i], "Write") THEN "Unauthorized" ELSE "None"

RemoveFile(u, i, gone) ==
  LET result == RemoveResult(u, i)
  IN  \/ result # "None" /\ Answer("RemoveFile", u, i, NoFile, result)
      \/ /\ result = "None"
         /\ Discard(i, gone)
         /\ Perform("RemoveFile", u, i, NoFile,
                    IF gone THEN "None" ELSE "WriteFile", {i}, {})

(***************************************************************************)
(* The index file (FileIndex::writeToFile) and the answer                  *)
(***************************************************************************)
\* Mutant: the rows are appended to those that were there.
BeginWriteIndexAppend ==
  /\ phase = "index"
  /\ unwritten' = Stored(index)
  /\ phase' = "rows"
  /\ UNCHANGED <<index, indexFile, disk, totalSize, task, faults, historyVars>>

\* Opening the file truncates it.
BeginWriteIndex ==
  /\ phase = "index"
  /\ indexFile' = NoRows
  /\ unwritten' = Stored(index)
  /\ phase' = "rows"
  /\ UNCHANGED <<index, disk, totalSize, task, faults, historyVars>>

\* The file does not open: perform() logs the error and answers all the same.
FailWriteIndex ==
  /\ phase = "index" /\ Fail
  /\ phase' = "done"
  /\ indexStale' = TRUE
  /\ UNCHANGED <<index, indexFile, disk, totalSize, task, unwritten, known, indexLost>>

WriteIndexRow(i) ==
  /\ phase = "rows" /\ i \in unwritten
  /\ indexFile' = [indexFile EXCEPT ![i] = index[i]]
  /\ unwritten' = unwritten \ {i}
  /\ UNCHANGED <<index, disk, totalSize, phase, task, faults, historyVars>>

EndWriteIndex ==
  /\ phase = "rows" /\ unwritten = {}
  /\ phase' = "done"
  /\ indexStale' = FALSE
  /\ UNCHANGED <<index, indexFile, disk, totalSize, task, unwritten, faults,
                 known, indexLost>>

\* The stream does not report a write that fails: the rows are missing.
LoseIndexRows ==
  /\ phase = "rows" /\ unwritten # {} /\ Fail
  /\ unwritten' = {}
  /\ phase' = "done"
  /\ indexStale' = TRUE
  /\ UNCHANGED <<index, indexFile, disk, totalSize, task, known, indexLost>>

\* What a client may conclude about file i from the answer to the task.  A
\* write error leaves every file the task touched in doubt, and an answer that
\* says nothing of its bytes does not lift the doubt.
Concluded(i) ==
  IF i \notin task.touched THEN known[i]
  ELSE IF task.result # "None" THEN Unknown
  ELSE IF known[i] = Unknown /\ task.op \in ChangesRow THEN Unknown
  ELSE IF i = task.id THEN task.info ELSE NoFile

\* Mutant: the task is not taken off.
CompleteKeepsTask ==
  /\ phase = "done"
  /\ known' = [i \in Ids |-> Concluded(i)]
  /\ phase' = "idle"
  /\ UNCHANGED <<index, indexFile, disk, totalSize, task, unwritten, faults,
                 indexStale, indexLost>>

\* emit requestCompleted
Complete ==
  /\ phase = "done"
  /\ known' = [i \in Ids |-> Concluded(i)]
  /\ phase' = "idle" /\ task' = NoTask
  /\ UNCHANGED <<index, indexFile, disk, totalSize, unwritten, faults,
                 indexStale, indexLost>>

(***************************************************************************)
(* The process ends and is started again: initialize() reads index.txt.    *)
(* An index file that does not open is logged and taken as empty.  A row   *)
(* that was cut short is taken as missing.                                 *)
(***************************************************************************)
InFlight == IF task = NoTask THEN {} ELSE task.touched

\* Mutant: the size of the store is not taken again from the index.
initializeNoSize(readable) ==
  /\ index' = IF readable THEN indexFile ELSE NoRows
  /\ totalSize' = 0

initialize(readable) ==
  /\ index' = IF readable THEN indexFile ELSE NoRows
  /\ totalSize' = IF readable THEN findStoreSize(indexFile) ELSE 0

Reboot(readable) ==
  /\ initialize(readable)
  /\ phase' = "idle" /\ task' = NoTask /\ unwritten' = {}
  /\ known' = [i \in Ids |-> IF i \in InFlight THEN Unknown ELSE known[i]]
  /\ indexStale' = ~readable
  /\ indexLost' = (indexLost \/ indexStale \/ phase = "rows" \/ ~readable)
  /\ UNCHANGED <<indexFile, disk>>

\* A stop and a new start, between two tasks.
Restart == phase = "idle" /\ Reboot(TRUE) /\ UNCHANGED faults

Crash(readable) == Fail /\ Reboot(readable)

(***************************************************************************)
(* Specification                                                           *)
(***************************************************************************)
Request ==
  \E u \in Users, i \in Ids :
    \/ ListFiles(u, i)
    \/ FileInfo(u, i)
    \/ RetrieveFile(u, i)
    \/ \E p \in Paths, c \in Contents, valid \in BOOLEAN :
         \/ StoreFile(u, i, p, c, valid)
         \/ ReplaceFile(u, i, p, c, valid)
         \/ UpdateFile(u, i, p, c, valid)
    \/ \E o \in Users, g \in Groups, valid \in BOOLEAN :
         UpdateFileAccessOwner(u, i, o, g, valid)
    \/ \E m \in Modes, valid \in BOOLEAN : UpdateFileAccessMode(u, i, m, valid)
    \/ \E l \in Labels : UpdateFileVersion(u, i, l)
    \/ \E l \in Labels, valid \in BOOLEAN : UpdateFileTags(u, i, l, valid)
    \/ \E gone \in BOOLEAN : RemoveFile(u, i, gone)

Next ==
  \/ Request
  \/ \E i \in Ids, gone \in BOOLEAN : ReplaceRemove(i, gone)
  \/ BeginWriteIndex
  \/ FailWriteIndex
  \/ \E i \in Ids : WriteIndexRow(i)
  \/ EndWriteIndex
  \/ LoseIndexRows
  \/ Complete
  \/ Restart
  \/ \E readable \in BOOLEAN : Crash(readable)

Spec == Init /\ [][Next]_vars

(***************************************************************************)
(* Properties                                                              *)
(***************************************************************************)

\* Every variable has its type; a task is there exactly while one is at work.
\* (totalSize is the subject of TotalNeverUndercounts.)
TypeOK ==
  /\ index \in [Ids -> Info \cup {NoFile}]
  /\ indexFile \in [Ids -> Info \cup {NoFile}]
  /\ disk \in [Ids -> Contents \cup {Torn, NoFile}]
  /\ phase \in Phases
  /\ task \in Task \cup {NoTask}
  /\ phase = "idle" <=> task = NoTask
  /\ unwritten \in SUBSET Ids
  /\ faults \in 0..MaxFaults
  /\ known \in [Ids -> Info \cup {NoFile, Unknown}]
  /\ indexStale \in BOOLEAN /\ indexLost \in BOOLEAN

\* What was answered holds.  A file whose last change was answered with
\* success, and that no task at work touches, has the row that was reported
\* and the bytes that go with it; a file reported removed has neither.  This
\* survives failed writes, failed removals and crashes at every point except
\* inside the rewrite of index.txt or while index.txt lags behind because
\* writing it failed.
AnsweredHolds ==
  ~indexLost =>
    \A i \in Ids \ InFlight :
      /\ known[i] \in Info => index[i] = known[i] /\ disk[i] = known[i].content
      /\ known[i] = NoFile => index[i] = NoFile /\ disk[i] = NoFile

\* An answered change is on disk.  Whenever no rewrite is going on and the
\* last one succeeded, a process that died now would come back with the same
\* rows for every file not being changed.
AnsweredPersists ==
  (~indexStale /\ phase # "rows") =>
    \A i \in Ids \ InFlight : indexFile[i] = index[i]

\* Even after rows were lost, the store never takes itself for emptier than
\* it is: totalSize, against which storeFile checks the maximum, is at least
\* the size of all files in the index.
TotalNeverUndercounts == totalSize >= findStoreSize(index)

\* A replacement that has met no error keeps its new file: in the index and with
\* its bytes on disk while the old files are removed one by one, alone among
\* those the executor may replace under the path when they are gone (one the
\* executor may not write stays), and for a restart as well from the rewrite of
\* index.txt on.  Not before: a process that dies after a removal and before that
\* rewrite comes back with the old row without bytes and the new bytes without a
\* row.
ReplaceLeavesOneCopy ==
  (task # NoTask /\ task.op = "ReplaceFile" /\ task.result = "None") =>
    /\ index[task.id] = task.info
    /\ disk[task.id] = task.info.content
    /\ phase # "replacing" =>
         Replaced(index, task.user, task.info.path) = {task.id}
    /\ phase = "done" /\ ~indexStale => indexFile[task.id] = task.info

\* The files of a user outgrow the user's quota only by an update that someone
\* else makes (updateFile charges the executor), by a change of owner, or by
\* the return of a file whose removal was lost in a crash: no store, no
\* replacement and no update by the user leads past the quota.
OwnStepsKeepQuota ==
  [][(index' # index /\ task' # NoTask /\ task'.op # "UpdateFileAccessOwner") =>
       \A u \in Users :
         LET size(rows) == SizeSum(rows, Owned(rows, u))
         IN  size(index') > size(index) =>
               \/ size(index') <= Quota[u].storeSize
               \/ task'.op = "UpdateFile" /\ task'.user # u]_vars

\* Past MaxStoreSize the store grows only by updates: storing and replacing
\* keep the sum of all sizes in the index within the maximum, whatever was
\* removed, failed to be removed or lost before.
OnlyUpdatesOutgrowStore ==
  [][(index' # index /\ task' # NoTask /\ MaxStoreSize > 0) =>
       LET size == findStoreSize(index')
       IN  size > findStoreSize(index) =>
             size <= MaxStoreSize \/ task'.op = "UpdateFile"]_vars

\* No file the executor may not write loses its bytes, its row or its place
\* while the executor's task is performed, in a replacement's removals
\* included.  (Owner and mode have rules of their own.)
OnlyWritersChange ==
  [][\A i \in Ids :
       (task' # NoTask /\ index[i] # NoFile
          /\ task'.op \notin {"UpdateFileAccessOwner", "UpdateFileAccessMode"}) =>
         \/ index'[i] = index[i] /\ disk'[i] = disk[i]
         \/ authorizeUserAccess(task'.user, index[i], "Write")]_vars

=============================================================================
