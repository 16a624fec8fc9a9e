# Range Cloud in TLA+

A verification development for the cloud server of this repository
(`src/cloud`) and the scripts that run it. It models the file store, the way
of a request through the server, the start and end of the services, the users
with their groups and tokens, the mails that bring tokens, the files that keep
settings and access rights, and the start and stop scripts with the container
entrypoint. TLC checks the models on small instances; TLAPS proves the safety
properties and the refinement for all values of the constants.

Paths below are relative to `src/cloud/src` unless they start with `doc/`,
`scripts/` or `processes/`; `generate_containerfile.sh` is in the
repository's own `scripts/`.

## 1. Inventory

| Component | State | Operations | Talks to |
|---|---|---|---|
| `FileManager` (file_manager.cpp) | store directory, `totalSize`, queue `tasks`, `stopFlag`, two mutexes | `perform` (worker loop), `stop`, `request*`/`enqueueTask`, eleven file handlers, `initialize` | emits `requestCompleted`; reads `UserManager` |
| `FileIndex` (file_index.cpp) | map id -> file info; `index.txt` | register, unregister, read, write, sums per user | owned by `FileManager` |
| `Application` (application.cpp) | `actionToMessageMap`, readiness flags, `nStartedServices` | `networkMessageAvailable`, `actionResolved`, service slots, `shutdown` | all managers, HTTP servers, job manager |
| `ActionHandler` (action_handler.cpp) | `fileRequests`, `processRequests` | `resolveAction`, `onFileRequestCompleted`, `onProcessRequestCompleted` | all managers, emits `resolved` |
| `ProcessManager`, `Process` | `runningProcesses`, `finishedProcesses`, `processes` and `processes.json` | `submitProcess`, `finalizeProcess`, slots of `QProcess`, rights | child processes |
| `UserManager` (user_manager.cpp) | users, groups, tokens and the users file | add, set, remove; `validate` a token | saved on every change |
| `ActionManager` (action_manager.cpp) | actions with access rights and their file | `authorizeUser`, `updateActionAccessRights` | saved at start and shutdown |
| `Mailer` (mailer.cpp) | queue of mails, `stopFlag`, two mutexes | `perform`, `stop`, `submitMail` | `sendmail` |
| `ReportManager` | none | `submitReport` writes a new file | |
| `UnixSignalHandler` | a socket pair | turns SIGTERM, SIGINT into an event | `Application::shutdown` |
| `Configuration` (configuration.cpp) | the settings and their file | read, overridden by the command line, written back at every start | `Application::onStarted` |
| settings, statistics | values of `Configuration`; counters | | |
| `cloud_start.sh`, `cloud_stop.sh`, `cloud_status.sh` | pid file | find, launch, await, signal the server | server process, log |
| container entrypoint (`generate_containerfile.sh`) | `.configured` | start, first configuration, signal handler | the scripts, `cloud-tool` |
| setup scripts | certificates, directories | once | |
| `processes/*.sh` | none | plug-in processes | |
| `cloud-tool` | none | one request per call | HTTP |

Threads: the **main thread** runs the Qt event loop and every slot of
`Application`, `ActionHandler`, `UserManager`, `ActionManager` and
`ProcessManager`. `FileManager::perform` and `Mailer::perform` run as jobs on
threads of their own. Signals of the jobs are posted to the event loop; calls
from the main thread into the jobs' objects take `syncMutex`.

What is hard here, and what should hold:

* **File store.** A task changes a file, the index in memory and `index.txt`
  in turn; each write may fail; the process may die between any two; the
  index file is truncated and rewritten. What was answered must hold and
  survive; limits must not be passed; a replacement must not lose the file.
* **Request path.** The worker may finish before the request is registered, a
  process may report two ends, the client may be gone, the server may be
  stopping. Every request is answered once or, for a reason, not at all.
* **Shutdown.** The main thread blocks on the worker, which needs the mutexes
  the main thread takes. It must get through, and write the managers' files
  only when the worker is over.
* **Lifecycle.** Services report in any order; an unsigned count and four
  flags decide about the exit and about the readiness message that
  `scripts/cloud_start.sh` waits for.
* **Users.** A change is in memory first, in a truncated and rewritten file
  next; `removeGroup` and `user-register` have a second half. What was
  answered must be saved, and a token must work once.
* **Mails.** A token is saved and then mailed by another thread through a
  queue that is filled without its mutex. Whoever gets a mail must be able to
  use it; a stop must not wait for the whole queue.
* **Saved state.** Each start rewrites the configuration and the actions file;
  rights change in memory and are written at an orderly end. A crash, a
  failure in the chain or another release must neither lose what was saved nor
  open what was closed.
* **Scripts.** Two shells may look for, launch and stop the server through one
  pid file; a container may be told to stop, or be killed, at any moment of
  its first start.

`PROJECT.json` lists the hazards line by line with the properties that cover
them.

## 2. Plan

Modelled and checked: all modules of section 3. Proved: every invariant and
every action property that a passing run checks, and that `RequestPipeline`
implements `RequestReply` (section 5).

Left, in this order:

1. An abstract durable store (a map that changes when a request is answered),
   which `FileStore` implements where no index write fails, with its proof.
2. That `TokenMail` implements an abstract mail box: a token is issued,
   mailed at most as often as it was submitted, and spent once.
3. The composition of `UserManager`, `RequestPipeline` and `FileStore`, in
   which a queued task runs with the user record of the moment it was
   enqueued.

## 3. Modules

| Module | Models | Checked by |
|---|---|---|
| `FileStore` | `FileManager`'s handlers, `perform`, `initialize`, `FileIndex` | `MCFileStore`, 2 configurations |
| `FileStoreProofs`, `FileSizesProofs` | theorems about `FileStore`, the second about sums of sizes | TLAPS |
| `RequestReply` | abstract: requests are new, open, closed | as a property of `RequestPipeline` |
| `RequestPipeline` | `Application` and `ActionHandler` around a request, the worker's loop and queue, child processes, `shutdown` | `MCRequestPipeline`, 3 configurations |
| `RequestPipelineProofs` | theorems about `RequestPipeline`, the refinement of `RequestReply` included | TLAPS |
| `ServiceLifecycle` | `Application`'s slots, readiness, `shutdown`, exit | `MCServiceLifecycle`, 2 configurations |
| `ServiceLifecycleProofs` | theorems about `ServiceLifecycle` | TLAPS |
| `UserManager` | `UserManager` and the user actions of `ActionHandler` | `MCUserManager`, 2 configurations |
| `UserManagerProofs` | theorems about `UserManager` | TLAPS |
| `Mailer` | the mailer's queue, its job, `stop`, `submitMail` | composed in `TokenMail` |
| `TokenMail` | `UserManager` and `Mailer` together: registrations and tokens until their mail is sent | `MCTokenMail` |
| `TokenMailProofs` | theorems about `TokenMail` with `Mailer`; extends `UserManagerProofs` | TLAPS |
| `SavedState` | `Configuration`, the rights of `ActionManager` and `ProcessManager`, the order of start and shutdown | `MCSavedState` |
| `SavedStateProofs` | theorems about `SavedState` | TLAPS |
| `ControlScripts` | start, stop and status scripts and the container entrypoint | `MCControlScripts` |
| `ControlScriptsProofs` | theorems about `ControlScripts` | TLAPS |

### FileStore

State: `index` (rows in memory), `indexFile` (rows in `index.txt`), `disk`
(files in the store directory, whole or torn), `totalSize`, and where the
worker is in `perform`: `idle`, `replacing` (in `replaceFile`'s removal loop),
`index` (before the rewrite), `rows` (within it), `done` (before
`requestCompleted`). One action per handler: it makes the checks in the
code's order and either is rejected or changes file and row. (That the file
changes before the row is not a step of its own: a crash in between is the
crash after a write that failed.) After it `BeginWriteIndex`, `WriteIndexRow`, `EndWriteIndex` rewrite
the index file; tasks that were rejected rewrite it too, as in the code.
`FailWriteIndex`, `LoseIndexRows` and the `ok`/`gone` arguments are failures;
`Crash` and `Restart` end in `initialize`.

History variables say what the clients know: `known[i]` is the row last
answered, `NoFile` when the answer said removed, `Unknown` when an error
answer or a crash leaves it open. `indexStale` is set while `index.txt` lags
behind; `indexLost` once the process restarted from such a file.

Abstractions: the content of a file stands for size and checksum; version and
tags are one label; dates are left out; a row of `index.txt` that was cut
short is a missing row; the order of rows is open; user records are
constants. `RAccessRights`, `RFileQuota` and `RFileTools` are external.

### RequestPipeline

The main thread (`main`) is in the event loop or between two steps of a
handler: `enqueueTask` and the line after it, or the steps of `shutdown`.
The worker is `submitted`, `idle`, `performing`, `leaving`, `left` or
`ended`; the mutexes are predicates of these states, because every critical
section of the main thread is one step. The maps of the code are sets of
requests: a task and a process bear the name of their request.
`resolveAction` runs a process in two steps, as the code does: `ResolveProcess`
submits it, and `insertProcessRequest` registers it. A process that fails
within `QProcess::start` (`stillborn`) is completed in the first, before it is
registered, and nobody answers it; one that reports its end later is.
`finishedProcesses` is left out, being empty again when a slot returns. File
tasks end well or badly (`FileStore` says which). The mailer and the HTTP
servers are left out of this shutdown and are in `ServiceLifecycle`.
A `Stop` request may be refused like any other.

`Unknown` stands for an action name that the actions file still lists but
`resolveAction` no longer knows.

### ServiceLifecycle

Each of the four services has a queue of signals posted to the event loop;
the loop takes from any of them, which also allows orders across services
that one event queue would not. `nStartedServices` counts modulo
`CountLimit`, standing for 2^32. `Joined` says when `stop()` gets
`serviceMutex`. What an HTTP server does between its signals is external; its
`started` and `ready` may come in either order. A file of the managers that does
not open ends `shutdown` and the process with an exception (`FailWrite`).

### UserManager

`data` holds the three lists, `phase` and `rest` the place within an
operation: the change in memory, `openFile` (which truncates), `writeFile`,
and what follows it, as taking the group out of the users or the token of a
registration. Rejected operations change nothing and are not steps. Tokens
are accepted by `validate`, which the HTTP server calls; it is taken to do so
on the main thread. A users file cut short does not parse and reads as empty
lists.

### Mailer and TokenMail

`Mailer` has the job's place in its loop (`job`) and that of the main thread
in `submitMail` and `stop` (`main`); the mutexes are predicates of `job`.
`submitMail` and the job at the queue at once is a data race: the outcome is
one of the two orders, a lost mail, a mail sent twice, or the end of the
process (`Race`, and `Die`).

`TokenMail` extends `UserManager` with that machine. `due` is the mail a
handler will submit when its saved steps are through; `File`, `FileFails` and
`Die` are `UserManager`'s steps and faults with the mailer's queue lost where
the process ends. The requests about groups and `user-update` are left out; a
client that presents its token is the same step as `user-token-remove`. A mail
is the token it carries.

### SavedState

`phase` walks through `Application::onStarted` (`sync`, then the managers in
their order) and the last lines of `shutdown`. Every write is two steps, the
open that truncates and the write; between them the file is `Torn` and reads
as a document without content. `Launch` overlays defaults, file and command
line; for the keys in `Unset` the default is whatever was in memory. `Install`
changes the set of actions the program knows. Rights matter only in their
right to execute. `told` remembers what requests said of the rights;
`unsaved` what was changed since. A start with `--store-settings` ends after the
write of the configuration, whole or short (`afterSettings`). Starts that only
print are no steps.

### ControlScripts

Two shells run the scripts' lines: the entrypoint's and that of a visitor who
enters the container. `server` is what `ServiceLifecycle` shows of the
program: starting, ready, ready without saying so (`mute`), ending, dead.
`cloud-tool` is one step of the entrypoint, which goes on whatever the answer
was, because the tool exits with success also when its request failed
(`MainTask::taskFailed` only disconnects). `term` is a signal that waits for
the command the entrypoint runs. The end of the container ends all processes
and leaves the files: pid file, marker, users and settings. A server that is
killed or crashes may leave two of them cut off (`Cut`), because each is
truncated and then written. `users.json` then reads as a file without any
user (`account = "lost"`); as the file exists, the default users are not made
again, and user-add and user-update are refused. `configuration.json` reads as
the defaults, whose key files do not exist, so the next server ends in its
start (`FailStart`). Whether a server that gets ready says so is one of two
outcomes of `GetReady`, not a failure. `overlapped` is set when a start and
another script run side by side before the start has written the pid file:
the scripts have no lock, and nothing is claimed about one server after that.

## 4. Runs

| Run | Shows | Bounds |
|---|---|---|
| `file_store_crash` | `TypeOK`, `AnsweredHolds`, `AnsweredPersists`, `TotalNeverUndercounts`, `ReplaceLeavesOneCopy` | 1 user, 3 files under one path, 2 contents, 1 fault |
| `file_store_limits` | `AnsweredHolds`, `OwnStepsKeepQuota`, `OnlyUpdatesOutgrowStore`, `OnlyWritersChange` | 2 users with quotas of size 2, 2 files, 2 modes, store maximum 3, 1 fault |
| `pipeline_requests` | `TypeOK`, `RequestsOnTheirWay`, `NothingUnexpected`, `WorkerEndsBeforeWrite`, `KeepsPromise` | 1 file request, 1 process, 1 Stop, 1 unknown action |
| `pipeline_liveness` | `FileAnswersInOrder`, `RequestsAreClosed`, `ShutdownEnds` | 2 file requests, 1 process |
| `lifecycle_exit` | `TypeOK`, `OrderlyExit`, `ReadinessIsRight`, `ShutdownExits` | 2 shutdowns |
| `users_crash` | `TypeOK`, `AnsweredIsSaved`, `TokenUsedOnce`, `UserGroupsExistIfOrderly` | 3 users of whom 2 are renamed, 2 groups that come and go, 1 token, 1 failed write, 1 crash |
| `token_mail_delivery` | `DeliveryTypeOK`, `MailedTokenWorks`, `TokenlessOnlyByFault`, `OneMailAfterStop`, `MailsAreTried` | 1 user besides root and guest, 2 tokens, 2 faults of which 1 failed write |
| `saved_state_restart` | `TypeOK`, `RightsHold`, `NobodyLetInOrLockedOut`, `SettingsAsGiven` | 2 settings of which 1 has no default, 2 command lines, 3 actions in 2 releases, 1 process, 2 users |
| `control_scripts_container` | `TypeOK`, `OneServerNamed`, `AdminIfConfigured`, `ContainerStopsInOrder`, `StopEnds`, `StartConfigures` | 3 pids, 2 polls, 2 upsets (a server that crashes, a pid given away, a kill, a visit), any number of orderly stops and starts |

Why the bounds suffice: the handlers treat files independently but for sums
and for the removal loop of `replaceFile`, so two files, and three for the
loop, show every interplay. One fault is a failure, or a crash, at every
point; restarts without a crash come on top of it, and the proofs of section
5 cover any number of faults. Two file requests are the least that can
overtake each other, fill the queue while one is performed, and be thrown
away by a stop; a process and a file request meet only in the event loop.
Three users, two of whom can take the same name, show every effect of the
position in the user list. Tokens are independent of each other. Two mails
are the least that leave one in the queue while another is sent. Actions are
independent but for the two that a request needs to change rights, and one
more that a release may lack; the files are written one after the other, so
one fault at every step and any number of restarts show what each loses.
Three pids are two servers and another process; two upsets are the visits of
a stop and a start, two kills within first starts, or a kill and a fault.

Deadlock is checked for `FileStore`, `UserManager`, `SavedState` and
`TokenMail`. The server of `RequestPipeline` and `ServiceLifecycle` really
ends, and a start script really waits for ever for a server that is mute, so
those configurations switch it off; that nobody else waits for ever is what
the liveness properties say.

**Fairness.** `RequestPipeline`: the main thread goes on within a handler, the
event loop delivers what is posted, the worker's thread runs, and child
processes end. The last is an assumption: a script that hangs is never
answered, because the code sets no timeout. Weak fairness is enough, since a
step the code waits for stays possible until it is taken.
`ServiceLifecycle`: services that are started report, services that are told
to stop end, the event loop gets to every event and timer. `TokenMail`: the
main thread finishes what a handler began, and the mailer's thread runs
(sendmail ends or its timeout does). `ControlScripts`: a shell runs its next
line, and a server that was started gets ready, says so or not, or fails, and
one that was told to stop ends; containers are
not assumed to start, stop or be entered. Nothing is assumed about crashes,
failures, clients or signals.

### What the code does otherwise than it says

Three runs expect a violation; each is a finding in `PROJECT.json`.

* `pipeline_start`: a process that fails synchronously at its start leaves
  its request unanswered.
* `lifecycle_ready`: the readiness message is missing when the public HTTP
  server is the last to be ready.
* `users_membership`: after a crash, users can be in a group that was removed.

More can be read off the models, where no run is spent on it:

* `updateFile` ignores the maximum store and file size; `OnlyUpdatesOutgrowStore`
  says that nothing else leads past it (see `UpdateResult`).
* `user-update` can give a user the name of another, of whom then only the
  first is found (see `UserUpdate`).
* `replaceFile` keeps a file of the same name and owner which the owner's mode
  makes read-only (`doc/rest_api.md:256` says that all files are replaced; see
  `Replaced`). A process that dies after it has removed an old file and before
  it has rewritten `index.txt` comes back with the old row without bytes and
  the new bytes without a row; `ReplaceLeavesOneCopy` speaks of a process that
  lives, and of `index.txt` from its rewrite on.
* A request is answered with success although the write of `index.txt` or of
  the users file that it caused has failed (see `FailWriteIndex` and
  `UserManager!FailOpen`).
* The answer to a `Stop` begins the shutdown whatever it says (see
  `actionResolved`).
* `configuration.cpp:63` sets `maxBodySize` from itself, so that it has no
  default until a file gives one (see `Unset`); options of one start are
  written back and become those of the next (see `writeSettings`).
* A processes file that was cut off leaves the server without processes until
  somebody edits it (see `readProcesses`); the actions file repairs itself.
* A file that does not open in the shutdown keeps the later files of the chain
  from being written (see `FailOpen`).
* Mails that wait when the server stops are lost (see `Mailer!End`); tokens of
  a user who was removed stay valid (see `UserRemove`).
* A server that is killed while it truncates and writes `users.json` leaves a
  file without users; the entrypoint then writes `.configured` for a server
  without an administrator, and nothing sets one up again (`account = "lost"`
  in `AdminIfConfigured`). One that is killed while it writes
  `configuration.json` leaves a container whose every start exits with an error
  (`settings = "lost"` in `StartConfigures`).
* The entrypoint writes `.configured` although a request of `cloud-tool`
  failed (see `addAccount`), and `cloud_status.sh`, on which it waits "until
  the service is ready" (`doc/deploy_container.md:77`), looks at the process
  only (see `Poll`).
* A pid file left behind whose pid another process has makes
  `cloud_start.sh` succeed without a server (see `findRunning`), and a start
  waits without end for a server that never says it is ready, and with it
  the signal that should stop the container: the order in which the ready
  signals are handled is enough for that (`Mute` in `StopEnds`).

## 5. Proofs

Every theorem is about the module's specification and holds for all values of
the constants that meet the module's named assumption: any number of users,
files, requests, pids, faults and restarts, where the runs have a few. In each
proof module an inductive invariant comes first, then lemmas about the
module's operators and data, one lemma per action or group of actions with the
same effect, and last the theorems, which combine them with PTL. TLC has
checked each inductive invariant on the instances of section 4.

**Assumptions.** `FileStoreAssumption`: types of the constants, markers that
are no values, and `IsFiniteSet(Ids)`, as sizes are summed over files.
`PipelineAssumption`, `LifecycleAssumption` (the counter of services has more
than four values), `SavedStateAssumption`, `ControlAssumption`,
`UserManagerAssumption` and `DeliveryAssumption` give types and tell names
apart. `FileAssumption` says that the markers `Absent` and `Torn` of the users
file are no data, which holds because what is parsed is an object. TLC
evaluates them in every run. No theorem has a hypothesis of its own. What
cannot hold is excepted in the property: a process that fails within
`QProcess::start` in `NothingUnexpected` and `RequestsOnTheirWay` (its lost
request is the violation of `pipeline_start`), a file that was cut off in
`AdminIfConfigured`.

### FileStoreProofs

`IInv == TypeOK /\ TaskInv /\ PersistInv /\ HoldsInv`, and `ReplaceInv` on top
of it.

* `TypeCorrect`: `TypeOK`.
* `AnswersPersist`: `AnsweredPersists`. By itself it is not inductive: within
  the rewrite nothing can be said of the rows not yet written. `PersistInv`
  adds that a row already written is that of the index, that a task leaves
  files it has not touched alone, and that between the change and the rewrite
  the two agree on all others.
* `AnswersHold`: `AnsweredHolds`. `HoldsInv` adds what the answer of the task
  at work will say: the reported row is in the index with its bytes on disk,
  so that `Complete` may turn it into knowledge; a restart keeps it because
  `PersistInv` says the file gives the same rows.
* `ReplaceKeepsACopy`: `ReplaceLeavesOneCopy`. `ReplaceInv` adds that
  the replaceable files under the path are, all the while, the new one and
  those still on the list of old files; that the rewritten `index.txt` has the
  new row is `PersistInv`.
* `OnlyWriters`: `OnlyWritersChange`, from `ReplaceInv` (the files on the list
  are the executor's to write) and what each handler checks (`ChangesOne`).

### FileSizesProofs

`SizeSum` is a fold over a set, which takes the elements in an order `CHOOSE`
picks; that two sums are equal is therefore something to prove. The library's
induction theorems are out of reach, so `SubsetInduction` states induction
over the subsets of a finite set with a set in the place of a predicate, and
gets it from the well-foundedness of `<` on the naturals. From it follow that
the fold is defined on every finite set (`SumsExist`), that a sum is that of
the others plus any one of them (`SumOfOne`), and what a change of one row
does to it (`SumOfChange`).

* `TotalIsEnough`: `TotalNeverUndercounts`. It is inductive together with
  `IInv`, once one knows what each handler does to the sum.
* `OnlyUpdatesOutgrow`: `OnlyUpdatesOutgrowStore`; it needs `TotalIsEnough`,
  because the maximum is compared with the running total and not with the sum.
* `OwnStepsKeep`: `OwnStepsKeepQuota`, from the checks of each handler against
  the sum of the user's files.

### RequestPipelineProofs

`IInv == TypeOK /\ LineInv /\ MapsInv /\ ClosedInOrder /\ StopInv`. The idea is
`FileLine`, the posted completions, the task at work and the queue, one behind
the other: taking and finishing a task leave it as it is, enqueueing adds at
the end, an answer takes the front, a stop cuts the tail off. It holds each
request once and in the order they were enqueued (`LineInv`); `MapsInv` relates
it to the maps of `Application` and `ActionHandler`.

* `PipelineTypeCorrect`, `NothingIsUnexpected`, `RequestsStayOnTheirWay`,
  `FileAnswersKeepOrder`, `WorkerHasEnded`: the invariants of the runs.
* `PipelineKeepsPromise`: `Spec => KeepsPromise`. Each step maps to a step of
  `RequestReply` or to a stutter; that no request is closed twice, and none
  that was never received, comes from `MapsInv`.

### ServiceLifecycleProofs

`IInv == TypeOK /\ SignalsInv /\ ExitInv /\ ReadyInv /\ CountIsExact /\
NoneForgotten`.

* `LifecycleTypeCorrect`, `ReadinessIsTrue`: types, `ReadinessIsRight`.
* `ExitIsOrderly`: `OrderlyExit`. Nobody is told to stop but by a shutdown,
  and the event loop handles what finishes only after that shutdown has
  written the files, also when a service had started late (`ExitInv`).
* `LastServiceEndsServer`: `CountIsExact`, that the unsigned `nStartedServices`
  is the number of services counted and not yet counted off and so never wraps
  below zero, and `NoneForgotten`, that the timer is set once all are counted
  off. This is the safety half of `ShutdownExits`, which stays with TLC. It
  rests on `SignalsInv`: `finished` is the last signal of a service's queue.

### UserManagerProofs

`IInv == TypeOK /\ SavedInv /\ TokensInv /\ GroupsInv`.

* `UsersTypeCorrect`: `TypeOK`, which needs what `Append`, `RemoveAt`, the
  search for the first user of a name and the visit of all users do to a list.
* `AnswersAreSaved`: `AnsweredIsSaved`. `SavedInv` adds that a group that is
  being taken out of the users is gone from the list of groups: only then is
  the visit that follows the write nothing that would have to be saved.
* `TokensOpenOnce`: `TokenUsedOnce`. A token has to be unused wherever it could
  be accepted from later: in memory, in the file that a start would read, and
  in the operation under way; and its id has to be the only one (`TokensInv`).
* `GroupsExistIfOrderly`: `UserGroupsExistIfOrderly`, which also has to be said
  of the file an orderly shutdown leaves (`GroupsInv`).

### TokenMailProofs

`DeliveryInv` is the `IInv` of the users and `MailerInv /\ MainInv /\ FileInv /\
MailedInv /\ TokenlessInv`. The users' part is not proved again: every step of
`TokenMail` is one of `UserManager` or leaves its variables alone, but for the
last write and the end of an orderly shutdown.

* `DeliveryTypeCorrect`: `DeliveryTypeOK`.
* `MailedTokensWork`: `MailedTokenWorks`. `MailedInv` says of everything that
  was mailed, is queued or is about to be queued that its token is in memory
  and in the file a start would read, or was spent. It holds when a mail is
  submitted because the file then equals memory (`FileInv`), and the race at
  the queue brings no mail into it that was not there.
* `TokenlessByFault`: `TokenlessOnlyByFault`, said of the file as well, whose
  users a start brings back (`TokenlessInv`).
* `OneMoreMail`: `OneMailAfterStop`. A job that has taken a mail under the flag
  has only its end before it (`MailerInv`).

### SavedStateProofs

`IInv` says, phase by phase, where the rights that were told are: in the file
until it is read, then in memory, and in both once written, but while the file
is open (`ActionsHold`, `ProcessesHold`, `DueInv`); that rights let in only
who is entitled or was let in, in memory as in the files (`AllowedInv`); and
that the configuration file has what the last start settled on
(`SettingsInv`).

* `SavedTypeCorrect`, `RightsKeep`, `LetInAsMeant`, `SettingsKeep`: `TypeOK`,
  `RightsHold`, `NobodyLetInOrLockedOut`, `SettingsAsGiven`.

### ControlScriptsProofs

`IInv == TypeOK /\ EntryInv /\ ServerInv /\ AdminInv`.

* `ControlTypeCorrect`: `TypeOK`.
* `ServerCanBeFound`: `OneServerNamed`. `ServerInv` names all the servers there
  are by the place each script has come to: none when one is about to be
  launched, the one a start has to write down, the one a stop has found.
* `MarkerIsTrue`: `AdminIfConfigured`, over any number of kills, each of which
  may cut files off. `AdminInv` speaks of containers in which no server crashed
  and nobody meddled. It follows the entrypoint through its first start
  (`StartInv`): a server serves when the account is made (`ServingInv`), the
  account was made, or the users were lost, when the marker is, and only a kill
  loses them (`AccountInv`), because the entrypoint itself never signals or ends
  a server that could leave a file cut off (`EndInv`).
* `StopsInOrder`: `ContainerStopsInOrder`, an action property, from `ServerInv`.

### Model-checked only

Liveness under fairness, which this prover does not support: `RequestsAreClosed`,
`ShutdownEnds`, `ShutdownExits`, `MailsAreTried`, `StopEnds` and
`StartConfigures`. The runs that expect a violation are counterexamples and
need no proof.

## 6. Not modelled

* Queries that list or describe users, groups, actions, processes: no state.
* Reports: one new file each, which nothing reads again.
* Statistics, logging, the HTTP servers, the command line client but for its
  exit status, installation scripts, process plug-ins.
* The making of directories at the start, and a `cloudDirectory` in the
  configuration file, which would send the write of the settings elsewhere.
* The worker's unlocked reads of the user lists and the main thread's unlocked
  reads of the index for statistics: data races without defined outcomes.
* A file that is there while its row was lost (an orphan) is never removed by
  the code; the models show it in `disk`, no property forbids it.
