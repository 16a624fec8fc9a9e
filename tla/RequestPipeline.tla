--------------------------- MODULE RequestPipeline ---------------------------
(***************************************************************************)
(* The way of a request through the server: Application (application.cpp)  *)
(* registers it and sends the answer, ActionHandler (action_handler.cpp)   *)
(* resolves it at once or hands it to the file worker's queue              *)
(* (FileManager, file_manager.cpp) or to a child process (ProcessManager   *)
(* and Process), and the shutdown stops the worker.                        *)
(*                                                                         *)
(* Two threads: the main thread, which handles one event at a time and     *)
(* blocks in between on the worker's mutexes, and the file worker.  What a *)
(* file task does to the store is the subject of FileStore; here it ends   *)
(* well or with an error.                                                  *)
(*                                                                         *)
(* The file task of a request bears the name of the request, and so does   *)
(* the child process of a process request: each request has at most one.   *)
(* Bound: each request arrives once.                                       *)
(***************************************************************************)
EXTENDS Naturals, Sequences, Functions

CONSTANTS
  Requests,
  Kind,               \* what each request asks for
  NoRequest, NoAnswer

VARIABLES
  \* The main thread
  main,                \* where it is: in the event loop, or in a handler
  subject,             \* the request being enqueued or submitted
  received,            \* the requests that have arrived
  handlers,            \* those whose client is still connected to a server
  actionToMessageMap, fileRequests, processRequests, runningProcesses,
  written,             \* shutdown has saved users, actions and processes
  \* The file worker and what it shares with the main thread
  worker,              \* where it is in perform(), or in the job queue
  atWork,              \* the task it performs
  tasks,               \* FileManager::tasks
  stopFlag,
  completed,           \* requestCompleted signals on their way to the main thread
  \* The environment: the child process of each request
  child,
  \* History, for the properties only:
  answers,             \* the answer each request was given
  order,               \* file requests in the order they were enqueued
  stranded             \* tasks the stop threw away

mainVars == <<main, subject, received, handlers, written>>
mapVars == <<actionToMessageMap, fileRequests, processRequests, runningProcesses>>
workerVars == <<worker, atWork, tasks, stopFlag, completed>>
historyVars == <<order, stranded>>
vars == <<mainVars, mapVars, workerVars, child, answers, historyVars>>

(***************************************************************************)
(* Types                                                                   *)
(***************************************************************************)
\* "Direct" stands for every action resolveAction answers itself; "Unknown"
\* for a name it does not know (one that an older actions file still lists).
Kinds == {"Direct", "File", "Process", "Stop", "Unknown"}

Answers == {"ok", "error"}

\* The main thread between two steps: in the event loop, in enqueueTask and
\* the line after it, in the call of QProcess::start, in FileManager::stop and
\* the rest of shutdown, or gone.
MainStates == {"loop", "enqueue", "register", "start",
               "signalStop", "joinService", "clearTasks",
               "awaitWaiting", "awaitRunning", "write", "exited"}

Stopping == {"signalStop", "joinService", "clearTasks",
             "awaitWaiting", "awaitRunning", "write", "exited"}

\* "submitted": in the job queue; "left": out of perform(), the job not over.
WorkerStates == {"submitted", "idle", "performing", "leaving", "left", "ended"}

\* "erred": has reported an error and may still report that it finished.
\* "stillborn": has failed before QProcess::start returned.
ChildStates == {"none", "starting", "running", "erred", "over", "stillborn"}

ASSUME PipelineAssumption ==
  /\ Kind \in [Requests -> Kinds]
  /\ NoRequest \notin Requests
  /\ NoAnswer \notin Answers

(***************************************************************************)
(* The mutexes.  Every critical section of the main thread is one step, so *)
(* only the worker is seen to hold them.                                   *)
(***************************************************************************)
\* Mutant: stop() keeps the mutex while it waits for the worker.
syncMutexFreeHeldByStop == worker # "performing" /\ main # "joinService"

syncMutexFree == worker # "performing"

serviceMutexFree == worker \notin {"idle", "performing", "leaving"}

Init ==
  /\ main = "loop" /\ subject = NoRequest
  /\ received = {} /\ handlers = Requests /\ written = FALSE
  /\ actionToMessageMap = {} /\ fileRequests = {}
  /\ processRequests = {} /\ runningProcesses = {}
  /\ worker = "submitted" /\ atWork = NoRequest
  /\ tasks = <<>> /\ stopFlag = FALSE /\ completed = <<>>
  /\ child = [r \in Requests |-> "none"]
  /\ answers = [r \in Requests |-> NoAnswer]
  /\ order = <<>> /\ stranded = {}

(***************************************************************************)
(* The answer (Application::actionResolved).  messages is the content of   *)
(* actionToMessageMap.  An answer to a Stop, whatever it says, begins the  *)
(* shutdown; without a handler to send it through nothing else happens.    *)
(***************************************************************************)
\* Mutant: the request stays registered after it was answered.
actionResolvedKept(messages, r, answer) ==
  IF r \in messages \cap handlers
  THEN /\ actionToMessageMap' = messages
       /\ answers' = [answers EXCEPT ![r] = answer]
       /\ main' = IF Kind[r] = "Stop" THEN "signalStop" ELSE main
  ELSE actionToMessageMap' = messages \ {r} /\ UNCHANGED <<answers, main>>

actionResolved(messages, r, answer) ==
  /\ actionToMessageMap' = messages \ {r}
  /\ IF r \in messages \cap handlers
     THEN /\ answers' = [answers EXCEPT ![r] = answer]
          /\ main' = IF Kind[r] = "Stop" THEN "signalStop" ELSE main
     ELSE UNCHANGED <<answers, main>>

(***************************************************************************)
(* A request arrives (networkMessageAvailable, resolveAction)              *)
(***************************************************************************)
Receive(r) ==
  /\ main = "loop" /\ r \notin received
  /\ received' = received \cup {r}
  /\ UNCHANGED <<handlers, written, workerVars, historyVars>>

Registered(r) == actionToMessageMap \cup {r}

\* Any request may be refused: no such user, or one not allowed the action.
ResolveDirectly(r, answer) ==
  /\ Receive(r)
  /\ Kind[r] \in {"Direct", "Stop"} \/ answer = "error"
  /\ actionResolved(Registered(r), r, answer)
  /\ UNCHANGED <<subject, fileRequests, processRequests, runningProcesses, child>>

ResolveFile(r) ==
  /\ Receive(r) /\ Kind[r] = "File"
  /\ actionToMessageMap' = Registered(r)
  /\ main' = "enqueue" /\ subject' = r
  /\ UNCHANGED <<fileRequests, processRequests, runningProcesses, child, answers>>

\* ProcessManager::submitProcess, up to the call of QProcess::start.
ResolveProcess(r) ==
  /\ Receive(r) /\ Kind[r] = "Process"
  /\ actionToMessageMap' = Registered(r)
  /\ runningProcesses' = runningProcesses \cup {r}
  /\ child' = [child EXCEPT ![r] = "starting"]
  /\ main' = "start" /\ subject' = r
  /\ UNCHANGED <<fileRequests, processRequests, answers>>

\* The last branch of resolveAction logs and resolves nothing.
ResolveUnknown(r) ==
  /\ Receive(r) /\ Kind[r] = "Unknown"
  /\ actionToMessageMap' = Registered(r)
  /\ UNCHANGED <<main, subject, fileRequests, processRequests, runningProcesses,
                 child, answers>>

(***************************************************************************)
(* A file request: FileManager::enqueueTask under syncMutex, then          *)
(* fileRequests.insert; the worker may complete the task in between.       *)
(***************************************************************************)
enqueueTask ==
  /\ main = "enqueue" /\ syncMutexFree
  /\ tasks' = Append(tasks, subject)
  /\ order' = Append(order, subject)
  /\ main' = "register"
  /\ UNCHANGED <<subject, received, handlers, written, mapVars, worker, atWork,
                 stopFlag, completed, child, answers, stranded>>

insertFileRequest ==
  /\ main = "register"
  /\ fileRequests' = fileRequests \cup {subject}
  /\ main' = "loop" /\ subject' = NoRequest
  /\ UNCHANGED <<received, handlers, written, actionToMessageMap, processRequests,
                 runningProcesses, workerVars, child, answers, historyVars>>

\* The event loop delivers the signal: a request that is not registered is
\* only logged.
onFileRequestCompleted(answer) ==
  LET r == Head(completed)
  IN  /\ main = "loop" /\ completed # <<>>
      /\ completed' = Tail(completed)
      /\ fileRequests' = fileRequests \ {r}
      /\ IF r \in fileRequests
         THEN actionResolved(actionToMessageMap, r, answer)
         ELSE UNCHANGED <<actionToMessageMap, answers, main>>
      /\ UNCHANGED <<subject, received, handlers, written, processRequests,
                     runningProcesses, worker, atWork, tasks, stopFlag, child,
                     historyVars>>

(***************************************************************************)
(* The file worker (FileManager::perform)                                  *)
(***************************************************************************)
startWorker ==
  /\ worker = "submitted"
  /\ worker' = "idle"
  /\ UNCHANGED <<mainVars, mapVars, atWork, tasks, stopFlag, completed, child,
                 answers, historyVars>>

\* Mutant: the task enqueued last is taken first.
takeTaskNewest ==
  /\ worker = "idle" /\ syncMutexFree /\ tasks # <<>>
  /\ atWork' = tasks[Len(tasks)] /\ tasks' = SubSeq(tasks, 1, Len(tasks) - 1)
  /\ worker' = "performing"
  /\ UNCHANGED <<mainVars, mapVars, stopFlag, completed, child, answers, historyVars>>

takeTask ==
  /\ worker = "idle" /\ syncMutexFree /\ tasks # <<>>
  /\ atWork' = Head(tasks) /\ tasks' = Tail(tasks)
  /\ worker' = "performing"
  /\ UNCHANGED <<mainVars, mapVars, stopFlag, completed, child, answers, historyVars>>

\* Mutant: the signal is not emitted when the worker is to stop.
finishTaskUnannounced ==
  /\ worker = "performing"
  /\ completed' = IF stopFlag THEN completed ELSE Append(completed, atWork)
  /\ atWork' = NoRequest
  /\ worker' = IF stopFlag THEN "leaving" ELSE "idle"
  /\ UNCHANGED <<mainVars, mapVars, tasks, stopFlag, child, answers, historyVars>>

\* Mutant: the task stays the current one.
finishTaskKept ==
  /\ worker = "performing"
  /\ completed' = Append(completed, atWork)
  /\ worker' = IF stopFlag THEN "leaving" ELSE "idle"
  /\ UNCHANGED <<mainVars, mapVars, atWork, tasks, stopFlag, child, answers, historyVars>>

\* emit requestCompleted, read the flag, release the mutex.
finishTask ==
  /\ worker = "performing"
  /\ completed' = Append(completed, atWork)
  /\ atWork' = NoRequest
  /\ worker' = IF stopFlag THEN "leaving" ELSE "idle"
  /\ UNCHANGED <<mainVars, mapVars, tasks, stopFlag, child, answers, historyVars>>

\* A round that finds no task changes something only when it is to stop.
stopWorker ==
  /\ worker = "idle" /\ syncMutexFree /\ tasks = <<>> /\ stopFlag
  /\ worker' = "leaving"
  /\ UNCHANGED <<mainVars, mapVars, atWork, tasks, stopFlag, completed, child,
                 answers, historyVars>>

leaveService ==
  /\ worker = "leaving" /\ syncMutexFree
  /\ stopFlag' = FALSE
  /\ worker' = "left"
  /\ UNCHANGED <<mainVars, mapVars, atWork, tasks, completed, child, answers,
                 historyVars>>

endJob ==
  /\ worker = "left"
  /\ worker' = "ended"
  /\ UNCHANGED <<mainVars, mapVars, atWork, tasks, stopFlag, completed, child,
                 answers, historyVars>>

(***************************************************************************)
(* Child processes.  All their signals are handled on the main thread:     *)
(* Process passes them to ProcessManager, which emits processCompleted for *)
(* a process it still counts among the running ones, and ActionHandler     *)
(* answers and calls finalizeProcess.  (finishedProcesses is empty again   *)
(* when the handler returns.)                                              *)
(***************************************************************************)
\* Mutant: a process that fails is finalized without an answer.
processCompletedUnanswered(r, answer) ==
  /\ runningProcesses' = runningProcesses \ {r}
  /\ IF r \in runningProcesses \cap processRequests /\ answer = "ok"
     THEN /\ processRequests' = processRequests \ {r}
          /\ actionResolved(actionToMessageMap, r, answer)
     ELSE UNCHANGED <<processRequests, actionToMessageMap, answers, main>>
  /\ UNCHANGED <<received, handlers, written, fileRequests, workerVars, historyVars>>

processCompleted(r, answer) ==
  /\ runningProcesses' = runningProcesses \ {r}
  /\ IF r \in runningProcesses \cap processRequests
     THEN /\ processRequests' = processRequests \ {r}
          /\ actionResolved(actionToMessageMap, r, answer)
     ELSE UNCHANGED <<processRequests, actionToMessageMap, answers, main>>
  /\ UNCHANGED <<received, handlers, written, fileRequests, workerVars, historyVars>>

\* QProcess::start may report that it failed before it returns: the request is
\* looked for before it is registered.
failInStart ==
  /\ main = "start" /\ child[subject] = "starting"
  /\ child' = [child EXCEPT ![subject] = "stillborn"]
  /\ processCompleted(subject, "error")
  /\ UNCHANGED subject

\* Mutant: the process is submitted but not entered among those waited for.
insertProcessRequestLost ==
  /\ main = "start"
  /\ main' = "loop" /\ subject' = NoRequest
  /\ UNCHANGED <<received, handlers, written, actionToMessageMap, fileRequests,
                 processRequests, runningProcesses, workerVars, child, answers,
                 historyVars>>

\* start() has returned: processRequests.insert.
insertProcessRequest ==
  /\ main = "start"
  /\ processRequests' = processRequests \cup {subject}
  /\ main' = "loop" /\ subject' = NoRequest
  /\ UNCHANGED <<received, handlers, written, actionToMessageMap, fileRequests,
                 runningProcesses, workerVars, child, answers, historyVars>>

onProcessStarted(r) ==
  /\ main = "loop" /\ child[r] = "starting"
  /\ child' = [child EXCEPT ![r] = "running"]
  /\ UNCHANGED <<mainVars, mapVars, workerVars, answers, historyVars>>

\* It did not start, crashed, or could not be read: the last two may still be
\* followed by the signal that it finished.
onErrorOccurred(r) ==
  /\ main = "loop" /\ child[r] \in {"starting", "running"}
  /\ child' = [child EXCEPT ![r] = IF @ = "starting" THEN "over" ELSE "erred"]
  /\ processCompleted(r, "error")
  /\ UNCHANGED subject

\* answer: by the exit code.
onFinished(r, answer) ==
  /\ main = "loop" /\ child[r] \in {"running", "erred"}
  /\ child' = [child EXCEPT ![r] = "over"]
  /\ processCompleted(r, answer)
  /\ UNCHANGED subject

(***************************************************************************)
(* Shutdown, on the main thread (Application::shutdown): FileManager::stop *)
(* signals the worker, waits for serviceMutex and throws the queue away;   *)
(* then no job may be waiting or running any more before the managers'     *)
(* files are written.  (Mailer and the HTTP servers, stopped in between,   *)
(* are left out.)                                                          *)
(***************************************************************************)
onSignal ==
  /\ main = "loop"
  /\ main' = "signalStop"
  /\ UNCHANGED <<subject, received, handlers, written, mapVars, workerVars, child,
                 answers, historyVars>>

signalStop ==
  /\ main = "signalStop" /\ syncMutexFree
  /\ stopFlag' = TRUE
  /\ main' = "joinService"
  /\ UNCHANGED <<subject, received, handlers, written, mapVars, worker, atWork,
                 tasks, completed, child, answers, historyVars>>

joinService ==
  /\ main = "joinService" /\ serviceMutexFree
  /\ main' = "clearTasks"
  /\ UNCHANGED <<subject, received, handlers, written, mapVars, workerVars, child,
                 answers, historyVars>>

clearTasks ==
  /\ main = "clearTasks" /\ syncMutexFree
  /\ stranded' = stranded \cup Range(tasks)
  /\ tasks' = <<>>
  /\ main' = "awaitWaiting"
  /\ UNCHANGED <<subject, received, handlers, written, mapVars, worker, atWork,
                 stopFlag, completed, child, answers, order>>

\* A job that waits does not run yet.
workerRunning == worker \in {"idle", "performing", "leaving", "left"}

\* Mutant: the running jobs are counted before the waiting ones.
awaitWaitingRunning ==
  /\ main = "awaitWaiting" /\ ~workerRunning
  /\ main' = "awaitRunning"
  /\ UNCHANGED <<subject, received, handlers, written, mapVars, workerVars, child,
                 answers, historyVars>>

awaitWaiting ==
  /\ main = "awaitWaiting" /\ worker # "submitted"
  /\ main' = "awaitRunning"
  /\ UNCHANGED <<subject, received, handlers, written, mapVars, workerVars, child,
                 answers, historyVars>>

awaitRunning ==
  /\ main = "awaitRunning" /\ ~workerRunning
  /\ main' = "write"
  /\ UNCHANGED <<subject, received, handlers, written, mapVars, workerVars, child,
                 answers, historyVars>>

\* writeFile throws when a file does not open; nobody catches it.
writeFiles(opened) ==
  /\ main = "write"
  /\ written' = (written \/ opened)
  /\ main' = IF opened THEN "loop" ELSE "exited"
  /\ UNCHANGED <<subject, received, handlers, mapVars, workerVars, child, answers,
                 historyVars>>

\* Once all services have finished, a timer ends the event loop.
onStopped ==
  /\ main = "loop" /\ written
  /\ main' = "exited"
  /\ UNCHANGED <<subject, received, handlers, written, mapVars, workerVars, child,
                 answers, historyVars>>

(***************************************************************************)
(* The client is gone, or its server has closed the connection.            *)
(***************************************************************************)
handlerGone(r) ==
  /\ r \in handlers
  /\ handlers' = handlers \ {r}
  /\ UNCHANGED <<main, subject, received, written, mapVars, workerVars, child,
                 answers, historyVars>>

(***************************************************************************)
(* Specification                                                           *)
(***************************************************************************)
Resolve(r) ==
  \/ \E answer \in Answers : ResolveDirectly(r, answer)
  \/ ResolveFile(r)
  \/ ResolveProcess(r)
  \/ ResolveUnknown(r)

Child(r) ==
  \/ onProcessStarted(r)
  \/ onErrorOccurred(r)
  \/ \E answer \in Answers : onFinished(r, answer)

Worker == startWorker \/ takeTask \/ finishTask \/ stopWorker \/ leaveService \/ endJob

Shutdown ==
  \/ signalStop \/ joinService \/ clearTasks \/ awaitWaiting \/ awaitRunning
  \/ \E opened \in BOOLEAN : writeFiles(opened)

\* What the main thread goes on to do by itself once it has begun a handler.
MainHandler == enqueueTask \/ insertFileRequest \/ insertProcessRequest \/ Shutdown

Next ==
  \/ \E r \in Requests : Resolve(r)
  \/ MainHandler
  \/ failInStart
  \/ \E answer \in Answers : onFileRequestCompleted(answer)
  \/ \E r \in Requests : Child(r)
  \/ \E r \in Requests : handlerGone(r)
  \/ Worker
  \/ onSignal
  \/ onStopped

Spec == Init /\ [][Next]_vars

\* Both threads run, the event loop delivers what is posted to it, and child
\* processes end (a script that hangs is never answered).
Fairness ==
  /\ WF_vars(MainHandler)
  /\ WF_vars(\E answer \in Answers : onFileRequestCompleted(answer))
  /\ WF_vars(Worker)
  /\ \A r \in Requests : WF_vars(Child(r))

FairSpec == Spec /\ Fairness

(***************************************************************************)
(* Properties                                                              *)
(***************************************************************************)

\* Every variable has its type; a request is being enqueued or submitted and a
\* task being performed exactly when main and worker say so.
TypeOK ==
  /\ main \in MainStates /\ subject \in Requests \cup {NoRequest}
  /\ subject # NoRequest <=> main \in {"enqueue", "register", "start"}
  /\ received \subseteq Requests /\ handlers \subseteq Requests
  /\ written \in BOOLEAN /\ stopFlag \in BOOLEAN
  /\ actionToMessageMap \subseteq received
  /\ fileRequests \subseteq received
  /\ processRequests \subseteq received /\ runningProcesses \subseteq received
  /\ worker \in WorkerStates /\ atWork \in Requests \cup {NoRequest}
  /\ atWork # NoRequest <=> worker = "performing"
  /\ tasks \in Seq(Requests) /\ completed \in Seq(Requests)
  /\ order \in Seq(Requests) /\ stranded \subseteq Requests
  /\ child \in [Requests -> ChildStates]
  /\ answers \in [Requests -> Answers \cup {NoAnswer}]

\* The file requests the worker has, had or will have in hand.
InHand == Range(tasks) \cup {atWork} \cup Range(completed)

\* No request is lost.  One that is registered and not yet answered is on its
\* way to an answer: in the main thread's hands, a task in the queue, at the
\* worker or in a signal that will find it in fileRequests, or a running
\* process that will be found in processRequests.  The exceptions are the
\* tasks a stop threw away, the actions the server does not know, and the
\* processes that failed before QProcess::start returned, which nobody answers
\* (see ProcessRequestsAreClosed).
RequestsOnTheirWay ==
  \A r \in actionToMessageMap :
    \/ r = subject
    \/ r \in fileRequests \cap (InHand \cup stranded)
    \/ r \in processRequests \cap runningProcesses
    \/ child[r] = "stillborn"
    \/ Kind[r] = "Unknown"

\* The event loop delivers no completion that nobody waits for: a file task is
\* registered when its signal comes, however early the worker was done with
\* it, and so is a process that is still running when QProcess::start has
\* returned.  (subject is the one request that may not be registered yet; a
\* process that fails in start() is completed just then.)  And the maps keep
\* no entry of a request that has been closed.
NothingUnexpected ==
  /\ InHand \subseteq fileRequests \cup {subject, NoRequest}
  /\ runningProcesses \subseteq processRequests \cup {subject}
  /\ fileRequests \cup processRequests \subseteq actionToMessageMap

\* File requests are closed in the order they were enqueued: a client that
\* uploads and then downloads a file is not answered the second first.
FileAnswersInOrder ==
  \A i, j \in DOMAIN order :
    (i < j /\ order[j] \notin actionToMessageMap) =>
      order[i] \notin actionToMessageMap \/ order[i] \in stranded

\* When shutdown writes the managers' files the worker is done for good: it
\* neither changes the store nor reads users any more.
WorkerEndsBeforeWrite ==
  (main = "write" \/ written) => worker = "ended"

\* The requests as their clients see them.
Status ==
  [r \in Requests |-> IF r \notin received THEN "new"
                      ELSE IF r \in actionToMessageMap THEN "open" ELSE "closed"]

Promise == INSTANCE RequestReply
             WITH status <- Status, answers <- answers, connected <- handlers

\* The pipeline keeps the promise of RequestReply: each request is answered at
\* most once, and dropped only when its client has gone.
KeepsPromise == Promise!Spec

\* Every request is answered or dropped in the end, unless the server is
\* stopped or does not know the action, or its process failed before
\* QProcess::start returned: no handler waits forever for a mutex, no completed
\* task is forgotten.
RequestsAreClosed ==
  \A r \in Requests :
    r \in actionToMessageMap ~>
      \/ r \notin actionToMessageMap
      \/ Kind[r] = "Unknown" \/ child[r] = "stillborn"
      \/ main \in Stopping \/ written

\* A shutdown, once begun, ends, although the main thread waits in it for a
\* worker that may not have started, may be performing a task, or may just be
\* leaving its loop.
ShutdownEnds ==
  main = "signalStop" ~> (main = "loop" /\ written) \/ main = "exited"

\* The API documentation gives every process request the output of the
\* process, or an error, as its response.
ProcessRequestsAreClosed ==
  \A r \in Requests :
    r \in processRequests ~>
      r \notin processRequests \/ main \in Stopping \/ written

=============================================================================
