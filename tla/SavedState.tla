------------------------------ MODULE SavedState ------------------------------
(***************************************************************************)
(* What the server keeps in JSON files from one start to the next: its     *)
(* settings (Configuration), the access rights of the actions              *)
(* (ActionManager) and those of the processes (ProcessManager).            *)
(*                                                                         *)
(* Application::onStarted reads the settings, overrides them with the      *)
(* command line and writes them back; then it makes the managers, each of  *)
(* which reads its file and may write it.  ActionHandler changes rights in *)
(* memory only; Application::shutdown writes them, the users file first.   *)
(* All of it runs on the main thread.                                      *)
(*                                                                         *)
(* A file is opened, which truncates it, and then written.  A file that    *)
(* was cut off does not parse, and reads as a document without content.    *)
(* The users file is the subject of UserManager; here it is a step that    *)
(* may fail.  A start that only prints the settings changes nothing.       *)
(*                                                                         *)
(* Bounds: MaxUpdates, MaxFaults (opens and writes that fail, services     *)
(* that fail, crashes).                                                    *)
(***************************************************************************)
EXTENDS Naturals

CONSTANTS
  Keys, Values,                      \* of the settings
  DefaultSettings, Unset,            \* Unset: keys whose default is never set
  CommandLines,                      \* the options a start may be given
  Actions, Processes,                \* names
  Releases,                          \* the actions each release knows
  RootActions, OpenActions,          \* as the constructor lists them
  ActionUpdateAccessOwner, ActionUpdateAccessMode,
  ProcessUpdateAccessOwner, ProcessUpdateAccessMode,
  Users, GroupsOf,                   \* the users and their groups
  RootUser, RootGroup, UserGroup,
  Owners, Modes,                     \* what requests may set
  NoRights, NotGiven, Absent, Torn, Unknown,
  MaxUpdates, MaxFaults

VARIABLES
  phase,
  release,                           \* the actions the installed release knows
  given,                             \* the command line of this start
  settings, actions, processes,      \* in memory
  configurationFile, actionsFile, processesFile,
  updates, faults,
  \* History, for the properties only:
  settled,                           \* the settings of the last start
  told,                              \* the rights requests were last told of
  unsaved,                           \* those that changed since they were written
  granted                            \* <<user, name>>: let in by an update

memory == <<given, settings, actions, processes>>
files == <<configurationFile, actionsFile, processesFile>>
bounds == <<updates, faults>>
history == <<settled, told, unsaved, granted>>
vars == <<phase, release, memory, files, bounds, history>>

(***************************************************************************)
(* Types                                                                   *)
(***************************************************************************)
Names == Actions \cup Processes

\* Only the right to execute matters to actions and processes.
Classes == {"user", "group", "other"}
Groups == (UNION {GroupsOf[u] : u \in Users}) \cup {RootGroup, UserGroup}
Owner == [user : Users, group : Groups]
Rights == [owner : Owner, mode : SUBSET Classes]

Settings == [Keys -> Values]

ASSUME SavedStateAssumption ==
  /\ DefaultSettings \in Settings /\ Unset \subseteq Keys
  /\ NotGiven \notin Values
  /\ CommandLines \subseteq [Keys -> Values \cup {NotGiven}]
  /\ Actions \cap Processes = {}
  /\ Releases \subseteq SUBSET Actions
  /\ RootUser \in Users /\ RootGroup \in GroupsOf[RootUser]
  /\ Owners \subseteq Owner /\ Modes \subseteq SUBSET Classes
  /\ NoRights \notin Rights /\ Unknown \notin Rights
  /\ Absent # Torn
  /\ {Absent, Torn} \cap (Settings \cup [Actions -> Rights \cup {NoRights}]
                           \cup [Processes -> Rights \cup {NoRights}]) = {}
  /\ Unknown \notin Settings
  /\ MaxUpdates \in Nat /\ MaxFaults \in Nat

\* "sync", "make...": a start, before the file is opened; "save...": shutdown;
\* "write...": the file is open; "ending": the shutdown has saved everything.
StartPhases == {"sync", "writeSettings", "makeManagers", "makeActions",
                "writeNewActions", "makeProcesses", "writeNewProcesses"}
SavePhases == {"saveUsers", "saveActions", "writeActions", "saveProcesses",
               "writeProcesses"}
Phases == StartPhases \cup SavePhases \cup {"down", "running", "ending"}

\* The event loop runs and requests are handled, late ones after the shutdown.
Serving == phase \in {"running", "ending"}

NoActions == [a \in Actions |-> NoRights]
NoProcesses == [p \in Processes |-> NoRights]

Init ==
  /\ phase = "down" /\ release \in Releases
  /\ given = [k \in Keys |-> NotGiven] /\ settings = DefaultSettings
  /\ actions = NoActions /\ processes = NoProcesses
  /\ configurationFile = Absent /\ actionsFile = Absent /\ processesFile = Absent
  /\ updates = 0 /\ faults = 0
  /\ settled = Unknown /\ told = [x \in Names |-> Unknown]
  /\ unsaved = {} /\ granted = {}

(***************************************************************************)
(* Rights                                                                  *)
(***************************************************************************)
\* RAccessRights::isUserAuthorized (library) for RAccessMode::Execute.
isUserAuthorized(u, rights) ==
  \/ u = rights.owner.user /\ "user" \in rights.mode
  \/ rights.owner.group \in GroupsOf[u] /\ "group" \in rights.mode
  \/ "other" \in rights.mode

DefaultActionRights(a) ==
  [owner |-> [user |-> RootUser, group |-> IF a \in RootActions THEN RootGroup ELSE UserGroup],
   mode |-> {"user", "group"} \cup IF a \in OpenActions THEN {"other"} ELSE {}]

DefaultProcessRights ==
  [owner |-> [user |-> RootUser, group |-> RootGroup], mode |-> {"user", "group"}]

DefaultRights(x) == IF x \in Actions THEN DefaultActionRights(x) ELSE DefaultProcessRights

RightsOf(x) == IF x \in Actions THEN actions[x] ELSE processes[x]

authorizeUser(u, x) == RightsOf(x) # NoRights /\ isUserAuthorized(u, RightsOf(x))

(***************************************************************************)
(* The end of the server, however it comes: what it had not written is not *)
(* known any more.                                                         *)
(***************************************************************************)
\* The rights a file loses that the server leaves open.
LeftOpen ==
  CASE phase \in {"writeNewActions", "writeActions"} -> Actions
    [] phase \in {"writeNewProcesses", "writeProcesses"} -> Processes
    [] OTHER -> {}

\* Mutant: what was not written is still due.
EndUnsettled(lost) ==
  /\ phase' = "down"
  /\ given' = [k \in Keys |-> NotGiven] /\ settings' = DefaultSettings
  /\ actions' = NoActions /\ processes' = NoProcesses
  /\ told' = [x \in Names |-> IF x \in unsaved \cup lost THEN Unknown ELSE told[x]]
  /\ UNCHANGED unsaved

End(lost) ==
  /\ phase' = "down"
  /\ given' = [k \in Keys |-> NotGiven] /\ settings' = DefaultSettings
  /\ actions' = NoActions /\ processes' = NoProcesses
  /\ told' = [x \in Names |-> IF x \in unsaved \cup lost THEN Unknown ELSE told[x]]
  /\ unsaved' = {}

Fault == faults < MaxFaults /\ faults' = faults + 1

(***************************************************************************)
(* The start (Application::onStarted)                                      *)
(***************************************************************************)
\* Configuration::fromJson over what the constructor has set.
readSettings(built) == IF configurationFile \in {Absent, Torn} THEN built ELSE configurationFile

\* Mutant: the command line counts only for what the file does not say.
LaunchFileFirst(line, built) ==
  /\ phase = "down"
  /\ \A k \in Keys \ Unset : built[k] = DefaultSettings[k]
  /\ given' = line
  /\ settings' = readSettings([k \in Keys |->
       IF line[k] # NotGiven THEN line[k] ELSE built[k]])
  /\ phase' = "sync"
  /\ UNCHANGED <<release, actions, processes, files, bounds, history>>

\* built: what the constructor leaves, whatever was in memory where it sets
\* nothing.  That the directories cannot be made is not looked at.
Launch(line, built) ==
  /\ phase = "down"
  /\ \A k \in Keys \ Unset : built[k] = DefaultSettings[k]
  /\ given' = line
  /\ settings' = [k \in Keys |->
       IF line[k] # NotGiven THEN line[k] ELSE readSettings(built)[k]]
  /\ phase' = "sync"
  /\ UNCHANGED <<release, actions, processes, files, bounds, history>>

sync ==
  /\ phase = "sync"
  /\ configurationFile' = Torn /\ phase' = "writeSettings"
  /\ UNCHANGED <<release, memory, actionsFile, processesFile, bounds, history>>

\* With store-settings the program exits here, however the write went.
afterSettings(stored) ==
  IF stored THEN End({}) ELSE phase' = "makeManagers" /\ UNCHANGED <<memory, told, unsaved>>

writeSettings(stored) ==
  /\ phase = "writeSettings"
  /\ configurationFile' = settings /\ settled' = settings
  /\ afterSettings(stored)
  /\ UNCHANGED <<release, actionsFile, processesFile, bounds, granted>>

\* Mutant: the actions of a file that exists are all there are.
actionsFromFileOnly ==
  IF actionsFile = Absent
  THEN [a \in Actions |-> IF a \in release THEN DefaultActionRights(a) ELSE NoRights]
  ELSE IF actionsFile = Torn THEN NoActions ELSE actionsFile

\* Mutant: the defaults replace what the file says of a known action.
actionsFromFileReset ==
  LET read == IF actionsFile \in {Absent, Torn} THEN NoActions ELSE actionsFile
  IN  [a \in Actions |-> IF a \in release THEN DefaultActionRights(a) ELSE read[a]]

\* The constructor: what the file says, then the actions it does not name.
actionsFromFile ==
  LET read == IF actionsFile \in {Absent, Torn} THEN NoActions ELSE actionsFile
  IN  [a \in Actions |-> IF a \in release /\ read[a] = NoRights
                         THEN DefaultActionRights(a) ELSE read[a]]

\* UserManager comes first (see UserManager), then ActionManager.
makeManagers ==
  /\ phase = "makeManagers"
  /\ actions' = actionsFromFile
  /\ phase' = "makeActions"
  /\ UNCHANGED <<release, given, settings, processes, files, bounds, history>>

openNewActions ==
  /\ phase = "makeActions"
  /\ actionsFile' = Torn /\ phase' = "writeNewActions"
  /\ UNCHANGED <<release, memory, configurationFile, processesFile, bounds, history>>

writeNewActions ==
  /\ phase = "writeNewActions"
  /\ actionsFile' = actions /\ phase' = "makeProcesses"
  /\ UNCHANGED <<release, memory, configurationFile, processesFile, bounds, history>>

\* Requests may ask for the rights from now on (list-actions, list-processes).
Begin(newActions, newProcesses) ==
  LET Listed(x) == IF x \in Actions THEN newActions[x] ELSE newProcesses[x]
  IN  /\ phase' = "running"
      /\ told' = [x \in Names |->
           IF told[x] = Unknown /\ Listed(x) # NoRights THEN Listed(x) ELSE told[x]]

\* ProcessManager: its defaults are for a file that does not exist, and only
\* they are written.
readProcesses ==
  /\ phase = "makeProcesses" /\ processesFile # Absent
  /\ LET read == IF processesFile = Torn THEN NoProcesses ELSE processesFile
     IN  processes' = read /\ Begin(actions, read)
  /\ UNCHANGED <<release, given, settings, actions, files, bounds, settled, unsaved,
                 granted>>

openNewProcesses ==
  /\ phase = "makeProcesses" /\ processesFile = Absent
  /\ processes' = [p \in Processes |-> DefaultProcessRights]
  /\ processesFile' = Torn /\ phase' = "writeNewProcesses"
  /\ UNCHANGED <<release, given, settings, actions, configurationFile, actionsFile,
                 bounds, history>>

writeNewProcesses ==
  /\ phase = "writeNewProcesses"
  /\ processesFile' = processes
  /\ Begin(actions, processes)
  /\ UNCHANGED <<release, memory, configurationFile, actionsFile, bounds, settled,
                 unsaved, granted>>

Start ==
  \/ \E line \in CommandLines, built \in Settings : Launch(line, built)
  \/ sync \/ \E stored \in BOOLEAN : writeSettings(stored)
  \/ makeManagers \/ openNewActions \/ writeNewActions
  \/ readProcesses \/ openNewProcesses \/ writeNewProcesses

(***************************************************************************)
(* Requests that change rights (ActionHandler): find, change one half of   *)
(* the rights, update.  A request that is refused, or names nothing, or    *)
(* brings invalid rights changes nothing and is no step.                   *)
(***************************************************************************)
AllowedTo(rights, x) == {<<u, x>> : u \in {v \in Users : isUserAuthorized(v, rights)}}

Update(x, rights) ==
  /\ Serving /\ updates < MaxUpdates
  /\ updates' = updates + 1
  /\ told' = [told EXCEPT ![x] = rights]
  /\ unsaved' = unsaved \cup {x}
  /\ granted' = granted \cup AllowedTo(rights, x)
  /\ UNCHANGED <<phase, release, given, settings, files, faults, settled>>

updateActionAccessRights(a, rights) ==
  /\ actions[a] # NoRights
  /\ actions' = [actions EXCEPT ![a] = rights]
  /\ Update(a, rights)
  /\ UNCHANGED processes

updateProcessAccessRights(p, rights) ==
  /\ processes[p] # NoRights
  /\ processes' = [processes EXCEPT ![p] = rights]
  /\ Update(p, rights)
  /\ UNCHANGED actions

actionUpdateAccessOwner(u, a, owner) ==
  /\ authorizeUser(u, ActionUpdateAccessOwner)
  /\ updateActionAccessRights(a, [actions[a] EXCEPT !.owner = owner])

actionUpdateAccessMode(u, a, mode) ==
  /\ authorizeUser(u, ActionUpdateAccessMode)
  /\ updateActionAccessRights(a, [actions[a] EXCEPT !.mode = mode])

processUpdateAccessOwner(u, p, owner) ==
  /\ authorizeUser(u, ProcessUpdateAccessOwner)
  /\ updateProcessAccessRights(p, [processes[p] EXCEPT !.owner = owner])

processUpdateAccessMode(u, p, mode) ==
  /\ authorizeUser(u, ProcessUpdateAccessMode)
  /\ updateProcessAccessRights(p, [processes[p] EXCEPT !.mode = mode])

Request(u) ==
  \/ \E a \in Actions, owner \in Owners : actionUpdateAccessOwner(u, a, owner)
  \/ \E a \in Actions, mode \in Modes : actionUpdateAccessMode(u, a, mode)
  \/ \E p \in Processes, owner \in Owners : processUpdateAccessOwner(u, p, owner)
  \/ \E p \in Processes, mode \in Modes : processUpdateAccessMode(u, p, mode)

(***************************************************************************)
(* The shutdown (Application::shutdown, its last three lines), by a Stop   *)
(* or a signal; also a second one, while the services are still ending.    *)
(***************************************************************************)
shutdown ==
  /\ Serving /\ phase' = "saveUsers"
  /\ UNCHANGED <<release, memory, files, bounds, history>>

saveUsers ==
  /\ phase = "saveUsers" /\ phase' = "saveActions"
  /\ UNCHANGED <<release, memory, files, bounds, history>>

openActions ==
  /\ phase = "saveActions"
  /\ actionsFile' = Torn /\ phase' = "writeActions"
  /\ UNCHANGED <<release, memory, configurationFile, processesFile, bounds, history>>

writeActions ==
  /\ phase = "writeActions"
  /\ actionsFile' = actions /\ unsaved' = unsaved \ Actions
  /\ phase' = "saveProcesses"
  /\ UNCHANGED <<release, memory, configurationFile, processesFile, bounds, settled,
                 told, granted>>

openProcesses ==
  /\ phase = "saveProcesses"
  /\ processesFile' = Torn /\ phase' = "writeProcesses"
  /\ UNCHANGED <<release, memory, configurationFile, actionsFile, bounds, history>>

writeProcesses ==
  /\ phase = "writeProcesses"
  /\ processesFile' = processes /\ unsaved' = unsaved \ Processes
  /\ phase' = "ending"
  /\ UNCHANGED <<release, memory, configurationFile, actionsFile, bounds, settled,
                 told, granted>>

\* The timer that follows the last service ends the event loop.
onStopped ==
  /\ phase = "ending"
  /\ End({})
  /\ UNCHANGED <<release, files, bounds, settled, granted>>

Shutdown ==
  \/ shutdown \/ saveUsers \/ openActions \/ writeActions
  \/ openProcesses \/ writeProcesses \/ onStopped

(***************************************************************************)
(* Faults                                                                  *)
(***************************************************************************)
\* A file that does not open throws: at the start the program exits, in the
\* shutdown nobody catches it.
FailOpen ==
  /\ phase \in {"sync", "makeManagers", "makeActions", "makeProcesses",
                "saveUsers", "saveActions", "saveProcesses"}
  /\ Fault /\ End({})
  /\ UNCHANGED <<release, files, updates, settled, granted>>

\* A write that comes short is not noticed: the program goes on, and what it
\* holds is not in the file.
FailWrite(from, names) ==
  /\ phase = from /\ Fault
  /\ unsaved' = unsaved \cup names
  /\ UNCHANGED <<release, memory, files, updates, granted>>

FailSettings(stored) ==
  /\ phase = "writeSettings" /\ Fault
  /\ settled' = Unknown /\ afterSettings(stored)
  /\ UNCHANGED <<release, files, updates, granted>>

ShortWrite ==
  \/ \E stored \in BOOLEAN : FailSettings(stored)
  \/ /\ FailWrite("writeNewActions", Actions)
     /\ phase' = "makeProcesses" /\ UNCHANGED <<settled, told>>
  \/ /\ FailWrite("writeNewProcesses", Processes)
     /\ Begin(actions, processes) /\ UNCHANGED settled
  \/ /\ FailWrite("writeActions", Actions)
     /\ phase' = "saveProcesses" /\ UNCHANGED <<settled, told>>
  \/ /\ FailWrite("writeProcesses", Processes)
     /\ phase' = "ending" /\ UNCHANGED <<settled, told>>

\* The process dies, or a service fails and the program exits with 1 without
\* a shutdown (serviceStopped(true)).
Crash ==
  /\ phase # "down"
  /\ Fault /\ End(LeftOpen)
  /\ settled' = IF phase = "writeSettings" THEN Unknown ELSE settled
  /\ UNCHANGED <<release, files, updates, granted>>

\* Another release is installed while the server is down.
Install(known) ==
  /\ phase = "down" /\ known # release
  /\ release' = known
  /\ UNCHANGED <<phase, memory, files, bounds, history>>

Next ==
  \/ Start
  \/ \E u \in Users : Request(u)
  \/ Shutdown
  \/ FailOpen \/ ShortWrite \/ Crash
  \/ \E known \in Releases : Install(known)

Spec == Init /\ [][Next]_vars

(***************************************************************************)
(* Properties                                                              *)
(***************************************************************************)

\* Every variable has its type; while the server is down it holds nothing.
TypeOK ==
  /\ phase \in Phases /\ release \in Releases
  /\ given \in [Keys -> Values \cup {NotGiven}] /\ settings \in Settings
  /\ actions \in [Actions -> Rights \cup {NoRights}]
  /\ processes \in [Processes -> Rights \cup {NoRights}]
  /\ configurationFile \in Settings \cup {Absent, Torn}
  /\ actionsFile \in [Actions -> Rights \cup {NoRights}] \cup {Absent, Torn}
  /\ processesFile \in [Processes -> Rights \cup {NoRights}] \cup {Absent, Torn}
  /\ updates \in 0..MaxUpdates /\ faults \in 0..MaxFaults
  /\ settled \in Settings \cup {Unknown}
  /\ told \in [Names -> Rights \cup {Unknown}]
  /\ unsaved \subseteq Names /\ granted \subseteq Users \X Names
  /\ phase = "down" => unsaved = {}

\* The rights a request was last told of hold, over any number of restarts,
\* releases that come and go, and second shutdowns.  Only these may be lost:
\* rights that were changed after the last time their file was written, and
\* those of a file that was cut off.
RightsHold ==
  Serving => \A x \in Names : told[x] # Unknown => RightsOf(x) = told[x]

\* Who may execute an action or a process from the beginning.
Entitled(u, x) ==
  \/ u = RootUser \/ RootGroup \in GroupsOf[u]
  \/ x \in Actions \ RootActions /\ UserGroup \in GroupsOf[u]
  \/ x \in OpenActions

\* Nobody is let in or locked out by accident: every action the release knows can
\* be authorized, also after the actions file was cut off or was written by
\* another release; and who may execute an action or a process may do so from
\* the beginning or because an update said so.
NobodyLetInOrLockedOut ==
  Serving =>
    /\ \A a \in release : actions[a] # NoRights
    /\ \A u \in Users, x \in Names :
         authorizeUser(u, x) => Entitled(u, x) \/ <<u, x>> \in granted

\* A start obeys its command line, and but for that finds the settings of the
\* start before it, whatever happened in between but to the file itself.
SettingsAsGiven ==
  phase # "down" => \A k \in Keys :
    IF given[k] # NotGiven THEN settings[k] = given[k]
    ELSE settled # Unknown => settings[k] = settled[k]

=============================================================================
