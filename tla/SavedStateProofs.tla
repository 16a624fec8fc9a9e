--------------------------- MODULE SavedStateProofs ---------------------------
(***************************************************************************)
(* Proofs about SavedState: its types, that rights outlive restarts,       *)
(* releases and second shutdowns, that nobody is let in or locked out by   *)
(* accident, and that a start obeys its command line; for every set of     *)
(* actions, processes, users, releases and settings, and any number of     *)
(* updates and faults.                                                     *)
(***************************************************************************)
EXTENDS SavedState, TLAPS

(***************************************************************************)
(* The inductive invariant                                                 *)
(***************************************************************************)

\* What a manager would read from its file now.
ActionsRead == IF actionsFile \in {Absent, Torn} THEN NoActions ELSE actionsFile
ProcessesRead == IF processesFile \in {Absent, Torn} THEN NoProcesses ELSE processesFile

\* The phases in which a manager has not read its file yet, or, for the
\* actions, has not opened it to write them back.
BeforeActions == {"down", "sync", "writeSettings", "makeManagers"}
BeforeProcesses == BeforeActions \cup {"makeActions", "writeNewActions", "makeProcesses"}

\* Rights told of an action stand in the file until it is read, then in
\* memory; and what is not due to be written stands in both, but while the
\* file is open.
ActionsHold ==
  /\ phase \in BeforeActions \cup {"makeActions"} =>
       \A a \in Actions : told[a] # Unknown => ActionsRead[a] = told[a]
  /\ phase \notin BeforeActions =>
       \A a \in Actions : told[a] # Unknown => actions[a] = told[a]
  /\ phase \notin BeforeActions \cup {"makeActions", "writeNewActions", "writeActions"} =>
       \A a \in Actions \ unsaved : ActionsRead[a] = actions[a]

\* The same of processes, whose file is written only if there was none.
ProcessesHold ==
  /\ phase \in BeforeProcesses =>
       \A p \in Processes : told[p] # Unknown => ProcessesRead[p] = told[p]
  /\ phase = "writeNewProcesses" => \A p \in Processes : told[p] = Unknown
  /\ phase \notin BeforeProcesses =>
       \A p \in Processes : told[p] # Unknown => processes[p] = told[p]
  /\ phase \notin BeforeProcesses \cup {"writeNewProcesses", "writeProcesses"} =>
       \A p \in Processes \ unsaved : ProcessesRead[p] = processes[p]

\* Nothing is due before it is in memory.
DueInv ==
  /\ phase \in BeforeActions \cup {"makeActions", "writeNewActions"} => unsaved = {}
  /\ phase \in BeforeProcesses \cup {"writeNewProcesses"} => unsaved \cap Processes = {}

\* Whoever rights let in is entitled to it, or was let in by an update.
Justified(rights, x) ==
  rights # NoRights =>
    \A u \in Users : isUserAuthorized(u, rights) => Entitled(u, x) \/ <<u, x>> \in granted

\* So it is in memory and in the files; and every action of the release has
\* rights once the manager has read its file.
AllowedInv ==
  /\ \A a \in Actions : Justified(actions[a], a) /\ Justified(ActionsRead[a], a)
  /\ \A p \in Processes : Justified(processes[p], p) /\ Justified(ProcessesRead[p], p)
  /\ phase \notin BeforeActions => \A a \in release : actions[a] # NoRights

\* The settings file says what the last start settled on, but while it is open.
SettingsInv ==
  /\ SettingsAsGiven
  /\ (phase # "writeSettings" /\ settled # Unknown) => configurationFile = settled

IInv == TypeOK /\ ActionsHold /\ ProcessesHold /\ DueInv /\ AllowedInv /\ SettingsInv

(***************************************************************************)
(* Rights and files                                                        *)
(***************************************************************************)

\* What a manager would read are rights of its names.
LEMMA ReadType ==
  ASSUME TypeOK
  PROVE  /\ ActionsRead \in [Actions -> Rights \cup {NoRights}]
         /\ ProcessesRead \in [Processes -> Rights \cup {NoRights}]
  BY DEF TypeOK, ActionsRead, ProcessesRead, NoActions, NoProcesses

\* The default rights are rights, and let in who is entitled to it.
LEMMA DefaultRightsJustified ==
  /\ \A a \in Actions : DefaultActionRights(a) \in Rights /\ Justified(DefaultActionRights(a), a)
  /\ \A p \in Processes : DefaultProcessRights \in Rights /\ Justified(DefaultProcessRights, p)
<1>1. RootUser \in Users /\ {RootGroup, UserGroup} \subseteq Groups
  BY SavedStateAssumption DEF Groups
<1>2. ASSUME NEW a \in Actions
      PROVE  DefaultActionRights(a) \in Rights
  <2>1. DefaultActionRights(a).owner \in Owner
    BY <1>1 DEF DefaultActionRights, Owner
  <2>2. DefaultActionRights(a).mode \subseteq Classes
    BY DEF DefaultActionRights, Classes
  <2>3. DefaultActionRights(a) = [owner |-> DefaultActionRights(a).owner,
                                  mode |-> DefaultActionRights(a).mode]
    BY DEF DefaultActionRights
  <2> QED BY <2>1, <2>2, <2>3 DEF Rights
<1>3. ASSUME NEW a \in Actions
      PROVE  Justified(DefaultActionRights(a), a)
  BY DEF DefaultActionRights, Justified, isUserAuthorized, Entitled
<1>4. DefaultProcessRights \in Rights
  BY <1>1 DEF DefaultProcessRights, Rights, Owner, Classes
<1>5. ASSUME NEW p \in Processes
      PROVE  Justified(DefaultProcessRights, p)
  BY DEF DefaultProcessRights, Justified, isUserAuthorized, Entitled
<1> QED BY <1>2, <1>3, <1>4, <1>5

\* What ActionManager's constructor makes of its file.
LEMMA ActionsMade ==
  ASSUME TypeOK
  PROVE  /\ actionsFromFile \in [Actions -> Rights \cup {NoRights}]
         /\ \A a \in Actions :
              actionsFromFile[a] = IF a \in release /\ ActionsRead[a] = NoRights
                                   THEN DefaultActionRights(a) ELSE ActionsRead[a]
<1>1. actionsFromFile = [a \in Actions |-> IF a \in release /\ ActionsRead[a] = NoRights
                                           THEN DefaultActionRights(a) ELSE ActionsRead[a]]
  BY DEF actionsFromFile, ActionsRead
<1> QED BY <1>1, ReadType, DefaultRightsJustified

\* Which rights a crash leaves to chance.
LEMMA OpenFile ==
  /\ phase \in {"writeNewActions", "writeActions"} => LeftOpen = Actions
  /\ phase \in {"writeNewProcesses", "writeProcesses"} => LeftOpen = Processes
  /\ phase \notin {"writeNewActions", "writeActions", "writeNewProcesses", "writeProcesses"}
       => LeftOpen = {}
  /\ LeftOpen \subseteq Names
  BY DEF LeftOpen, Names

\* What Begin tells are rights, of names nothing was told of.
LEMMA BeginTells ==
  ASSUME TypeOK,
         NEW newActions \in [Actions -> Rights \cup {NoRights}],
         NEW newProcesses \in [Processes -> Rights \cup {NoRights}],
         Begin(newActions, newProcesses)
  PROVE  /\ phase' = "running" /\ told' \in [Names -> Rights \cup {Unknown}]
         /\ \A a \in Actions : told'[a] # Unknown => told'[a] = told[a] \/ told'[a] = newActions[a]
         /\ \A p \in Processes : told'[p] # Unknown => told'[p] = told[p] \/ told'[p] = newProcesses[p]
<1> DEFINE Listed(x) == IF x \in Actions THEN newActions[x] ELSE newProcesses[x]
<1>1. /\ phase' = "running"
      /\ told' = [x \in Names |->
           IF told[x] = Unknown /\ Listed(x) # NoRights THEN Listed(x) ELSE told[x]]
  BY DEF Begin
<1>2. \A x \in Names : Listed(x) \in Rights \cup {NoRights}
  BY DEF Names
<1>3. told \in [Names -> Rights \cup {Unknown}]
  BY DEF TypeOK
<1>4. told' \in [Names -> Rights \cup {Unknown}]
  BY <1>1, <1>2, <1>3
<1>5. \A x \in Names : told'[x] # Unknown => told'[x] = told[x] \/ told'[x] = Listed(x)
  BY <1>1
<1>6. \A p \in Processes : Listed(p) = newProcesses[p] /\ p \in Names
  BY SavedStateAssumption DEF Names
<1>7. \A a \in Actions : Listed(a) = newActions[a] /\ a \in Names
  BY DEF Names
<1> QED BY <1>1, <1>4, <1>5, <1>6, <1>7

\* A fault is counted within its bound.
LEMMA FaultType == ASSUME TypeOK, Fault PROVE faults' \in 0..MaxFaults
  BY SavedStateAssumption DEF TypeOK, Fault

(***************************************************************************)
(* Steps                                                                   *)
(***************************************************************************)

LEMMA InitIInv == Init => IInv
<1> SUFFICES ASSUME Init PROVE IInv
  OBVIOUS
<1> USE DEF Init
<1>1. TypeOK
  <2>1. /\ given \in [Keys -> Values \cup {NotGiven}] /\ settings \in Settings
        /\ updates \in 0..MaxUpdates /\ faults \in 0..MaxFaults
    BY SavedStateAssumption
  <2>2. /\ actions \in [Actions -> Rights \cup {NoRights}]
        /\ processes \in [Processes -> Rights \cup {NoRights}]
        /\ told \in [Names -> Rights \cup {Unknown}]
    BY DEF NoActions, NoProcesses
  <2> QED BY <2>1, <2>2 DEF TypeOK, Phases
<1>2. ActionsRead = NoActions /\ ProcessesRead = NoProcesses
  BY DEF ActionsRead, ProcessesRead
<1>3. ActionsHold /\ ProcessesHold
  BY DEF ActionsHold, ProcessesHold, BeforeActions, BeforeProcesses, Names
<1>4. DueInv /\ SettingsInv
  BY DEF DueInv, SettingsInv, SettingsAsGiven
<1>5. AllowedInv
  BY <1>2 DEF AllowedInv, Justified, NoActions, NoProcesses, BeforeActions
<1> QED BY <1>1, <1>3, <1>4, <1>5 DEF IInv

\* A step that has nothing to do with the settings or their file.
LEMMA SettingsStay ==
  ASSUME IInv, UNCHANGED <<given, settings, configurationFile, settled>>,
         phase \notin {"down", "writeSettings"}, phase' # "writeSettings"
  PROVE  SettingsInv'
  BY DEF IInv, SettingsInv, SettingsAsGiven

\* The end of the server: what it keeps is what the files say.
LEMMA EndStep ==
  ASSUME IInv, NEW lost \in SUBSET Names, LeftOpen \subseteq lost, End(lost),
         UNCHANGED <<release, actionsFile, processesFile, granted>>
  PROVE  /\ ActionsHold' /\ ProcessesHold' /\ DueInv' /\ AllowedInv'
         /\ actions' = NoActions /\ processes' = NoProcesses
         /\ told' \in [Names -> Rights \cup {Unknown}]
         /\ given' \in [Keys -> Values \cup {NotGiven}] /\ settings' \in Settings
         /\ phase' = "down" /\ unsaved' = {}
<1> USE DEF IInv
<1>1. /\ phase' = "down" /\ unsaved' = {}
      /\ actions' = NoActions /\ processes' = NoProcesses
      /\ given' = [k \in Keys |-> NotGiven] /\ settings' = DefaultSettings
      /\ told' = [x \in Names |-> IF x \in unsaved \cup lost THEN Unknown ELSE told[x]]
  BY DEF End
<1>2. told \in [Names -> Rights \cup {Unknown}]
  BY DEF TypeOK
<1>3. told' \in [Names -> Rights \cup {Unknown}]
  BY <1>1, <1>2
<1>4. \A x \in Names : told'[x] # Unknown =>
        x \notin unsaved \cup LeftOpen /\ told'[x] = told[x]
  BY <1>1
<1>5. given' \in [Keys -> Values \cup {NotGiven}] /\ settings' \in Settings
  BY <1>1, SavedStateAssumption
<1>6. ActionsRead' = ActionsRead /\ ProcessesRead' = ProcessesRead
  BY DEF ActionsRead, ProcessesRead, NoActions, NoProcesses
<1>7. ASSUME NEW a \in Actions, told'[a] # Unknown
      PROVE  ActionsRead[a] = told[a] /\ told'[a] = told[a]
  <2>1. a \notin unsaved \cup LeftOpen /\ told'[a] = told[a]
    BY <1>4, <1>7 DEF Names
  <2>2. phase \notin {"writeNewActions", "writeActions"}
    BY <2>1, OpenFile
  <2> QED BY <1>7, <2>1, <2>2 DEF ActionsHold
<1>8. ASSUME NEW p \in Processes, told'[p] # Unknown
      PROVE  ProcessesRead[p] = told[p] /\ told'[p] = told[p]
  <2>1. p \notin unsaved \cup LeftOpen /\ told'[p] = told[p]
    BY <1>4, <1>8 DEF Names
  <2>2. phase \notin {"writeNewProcesses", "writeProcesses"}
    BY <2>1, OpenFile
  <2> QED BY <1>8, <2>1, <2>2 DEF ProcessesHold
<1>9. ActionsHold'
  BY <1>1, <1>6, <1>7 DEF ActionsHold, BeforeActions
<1>10. ProcessesHold'
  BY <1>1, <1>6, <1>8 DEF ProcessesHold, BeforeProcesses, BeforeActions
<1>11. DueInv'
  BY <1>1 DEF DueInv
<1>12. AllowedInv'
  <2>1. \A a \in Actions : actions'[a] = NoRights
    BY <1>1 DEF NoActions
  <2>2. \A p \in Processes : processes'[p] = NoRights
    BY <1>1 DEF NoProcesses
  <2> QED BY <1>1, <1>6, <2>1, <2>2 DEF AllowedInv, Justified, BeforeActions
<1> QED BY <1>1, <1>3, <1>5, <1>9, <1>10, <1>11, <1>12

\* The first steps of a start, up to the managers.
LEMMA LaunchStep ==
  ASSUME IInv, NEW line \in CommandLines, NEW built \in Settings, Launch(line, built)
  PROVE  IInv'
<1> USE DEF IInv, files, bounds, history
<1> DEFINE read == readSettings(built)
<1>1. /\ phase = "down" /\ phase' = "sync" /\ given' = line
      /\ settings' = [k \in Keys |->
           IF line[k] # NotGiven THEN line[k] ELSE read[k]]
      /\ UNCHANGED <<release, actions, processes, files, bounds, history>>
  BY DEF Launch
<1>2. /\ read \in Settings
      /\ configurationFile \in Settings => read = configurationFile
  BY SavedStateAssumption DEF readSettings, TypeOK
<1> HIDE DEF read
<1>3. line \in [Keys -> Values \cup {NotGiven}]
  BY SavedStateAssumption
<1>4. settings' \in Settings
  <2>1. \A k \in Keys : line[k] # NotGiven => line[k] \in Values
    BY <1>3
  <2>2. \A k \in Keys : read[k] \in Values
    BY <1>2 DEF Settings
  <2> QED BY <1>1, <2>1, <2>2 DEF Settings
<1>5. TypeOK'
  BY <1>1, <1>3, <1>4 DEF TypeOK, Phases, StartPhases
<1>6. ActionsHold' /\ ProcessesHold' /\ DueInv'
  BY <1>1 DEF ActionsHold, ProcessesHold, DueInv, ActionsRead, ProcessesRead,
              BeforeActions, BeforeProcesses
<1>7. AllowedInv'
  BY <1>1 DEF AllowedInv, Justified, ActionsRead, ProcessesRead, BeforeActions
<1>8. SettingsInv'
  <2>1. settled # Unknown => configurationFile = settled /\ configurationFile \in Settings
    BY <1>1 DEF SettingsInv, TypeOK
  <2>2. SettingsAsGiven'
    BY <1>1, <1>2, <2>1 DEF SettingsAsGiven
  <2>3. (settled # Unknown => configurationFile = settled)'
    BY <1>1, <2>1
  <2> QED BY <2>2, <2>3 DEF SettingsInv
<1> QED BY <1>5, <1>6, <1>7, <1>8

\* The settings are written back, or come short.
LEMMA SettingsStep ==
  ASSUME IInv,
         \/ sync
         \/ \E stored \in BOOLEAN : writeSettings(stored) \/ FailSettings(stored)
  PROVE  IInv'
<1> USE DEF IInv, memory, files, bounds, history
<1>1. CASE writeSettings(TRUE) \/ FailSettings(TRUE)
  <2>1. /\ phase = "writeSettings" /\ End({})
        /\ \/ configurationFile' = settings /\ settled' = settings
           \/ configurationFile' = configurationFile /\ settled' = Unknown
        /\ UNCHANGED <<release, actionsFile, processesFile, updates, granted>>
        /\ faults' \in 0..MaxFaults
    BY <1>1, FaultType DEF writeSettings, FailSettings, afterSettings, TypeOK
  <2>2. LeftOpen \subseteq {} /\ {} \in SUBSET Names
    BY <2>1, OpenFile
  <2>3. /\ ActionsHold' /\ ProcessesHold' /\ DueInv' /\ AllowedInv'
        /\ actions' = NoActions /\ processes' = NoProcesses
        /\ told' \in [Names -> Rights \cup {Unknown}]
        /\ given' \in [Keys -> Values \cup {NotGiven}] /\ settings' \in Settings
        /\ phase' = "down" /\ unsaved' = {}
    BY <2>1, <2>2, EndStep
  <2>4. TypeOK'
    BY <2>1, <2>3 DEF TypeOK, Phases, NoActions, NoProcesses
  <2>5. SettingsInv'
    BY <2>1, <2>3 DEF SettingsInv, SettingsAsGiven
  <2> QED BY <2>3, <2>4, <2>5
<1>2. CASE sync \/ writeSettings(FALSE) \/ FailSettings(FALSE)
  <2>1. /\ phase \in {"sync", "writeSettings"}
        /\ phase' = IF phase = "sync" THEN "writeSettings" ELSE "makeManagers"
        /\ UNCHANGED <<release, memory, actionsFile, processesFile, updates, told,
                       unsaved, granted>>
        /\ faults' \in 0..MaxFaults
        /\ configurationFile' \in Settings \cup {Absent, Torn}
    BY <1>2, FaultType DEF sync, writeSettings, FailSettings, afterSettings, TypeOK
  <2>2. settled' \in Settings \cup {Unknown}
    BY <1>2 DEF sync, writeSettings, FailSettings, TypeOK
  <2>3. TypeOK'
    BY <2>1, <2>2 DEF TypeOK, Phases, StartPhases
  <2>4. ActionsHold' /\ ProcessesHold' /\ DueInv'
    BY <2>1 DEF ActionsHold, ProcessesHold, DueInv, ActionsRead, ProcessesRead,
                BeforeActions, BeforeProcesses
  <2>5. AllowedInv'
    BY <2>1 DEF AllowedInv, Justified, ActionsRead, ProcessesRead, BeforeActions
  <2>6. SettingsInv'
    BY <1>2 DEF sync, writeSettings, FailSettings, afterSettings, SettingsInv, SettingsAsGiven
  <2> QED BY <2>3, <2>4, <2>5, <2>6
<1> QED BY <1>1, <1>2

\* ActionManager takes the actions from its file and from the release.
LEMMA MakeStep ==
  ASSUME IInv, makeManagers
  PROVE  IInv'
<1> USE DEF IInv, files, bounds, history
<1>1. /\ phase = "makeManagers" /\ phase' = "makeActions" /\ actions' = actionsFromFile
      /\ UNCHANGED <<release, given, settings, processes, files, bounds, history>>
  BY DEF makeManagers
<1>2. /\ actions' \in [Actions -> Rights \cup {NoRights}]
      /\ \A a \in Actions :
           actions'[a] = IF a \in release /\ ActionsRead[a] = NoRights
                         THEN DefaultActionRights(a) ELSE ActionsRead[a]
  BY <1>1, ActionsMade
<1>3. /\ \A a \in Actions : DefaultActionRights(a) \in Rights
      /\ release \subseteq Actions /\ told \in [Names -> Rights \cup {Unknown}]
      /\ NoRights \notin Rights /\ Actions \subseteq Names
  BY DefaultRightsJustified, SavedStateAssumption DEF TypeOK, Names
<1>4. ActionsRead' = ActionsRead /\ ProcessesRead' = ProcessesRead
  BY <1>1 DEF ActionsRead, ProcessesRead, NoActions, NoProcesses
<1>5. TypeOK'
  BY <1>1, <1>2 DEF TypeOK, Phases, StartPhases
<1>6. ActionsHold'
  <2>1. \A a \in Actions : told[a] # Unknown => ActionsRead[a] = told[a] /\ told[a] \in Rights
    BY <1>1, <1>3 DEF ActionsHold, BeforeActions
  <2>2. \A a \in Actions : told[a] # Unknown => actions'[a] = told[a]
    BY <1>2, <1>3, <2>1
  <2> QED BY <1>1, <1>4, <2>1, <2>2 DEF ActionsHold, BeforeActions
<1>7. ProcessesHold' /\ DueInv'
  BY <1>1, <1>4 DEF ProcessesHold, DueInv, BeforeActions, BeforeProcesses
<1>8. AllowedInv'
  <2>1. \A a \in Actions : Justified(DefaultActionRights(a), a) /\ Justified(ActionsRead[a], a)
    BY DefaultRightsJustified DEF AllowedInv
  <2>2. \A a \in Actions : Justified(actions'[a], a)
    BY <1>2, <2>1
  <2>3. \A a \in release : actions'[a] # NoRights
    BY <1>2, <1>3
  <2> QED BY <1>1, <1>4, <2>1, <2>2, <2>3 DEF AllowedInv, BeforeActions, Justified
<1>9. SettingsInv'
  BY <1>1, SettingsStay
<1> QED BY <1>5, <1>6, <1>7, <1>8, <1>9

\* What a manager would read after a step that opens its file, writes it, or
\* leaves it alone.
LEMMA ReadAfter ==
  ASSUME TypeOK
  PROVE  /\ actionsFile' = Torn => ActionsRead' = NoActions
         /\ actionsFile' = actions => ActionsRead' = actions
         /\ actionsFile' = actionsFile => ActionsRead' = ActionsRead
         /\ processesFile' = Torn => ProcessesRead' = NoProcesses
         /\ processesFile' = processes => ProcessesRead' = processes
         /\ processesFile' = processesFile => ProcessesRead' = ProcessesRead
  BY SavedStateAssumption
     DEF TypeOK, ActionsRead, ProcessesRead, NoActions, NoProcesses

\* Writing what is in memory lets nobody in.
LEMMA AllowedStays ==
  ASSUME IInv, UNCHANGED <<release, actions, processes, granted>>,
         ActionsRead' \in {ActionsRead, actions, NoActions},
         ProcessesRead' \in {ProcessesRead, processes, NoProcesses},
         phase \notin BeforeActions
  PROVE  AllowedInv'
<1>1. \A a \in Actions : Justified(NoActions[a], a)
  BY DEF Justified, NoActions
<1>2. \A p \in Processes : Justified(NoProcesses[p], p)
  BY DEF Justified, NoProcesses
<1>3. \A a \in Actions : Justified(ActionsRead'[a], a)
  BY <1>1 DEF IInv, AllowedInv
<1>4. \A p \in Processes : Justified(ProcessesRead'[p], p)
  BY <1>2 DEF IInv, AllowedInv
<1> QED BY <1>3, <1>4 DEF IInv, AllowedInv, Justified

\* The actions file is written on the way up, wholly or not.
LEMMA NewActionsStep ==
  ASSUME IInv,
         \/ openNewActions \/ writeNewActions
         \/ /\ FailWrite("writeNewActions", Actions)
            /\ phase' = "makeProcesses" /\ UNCHANGED <<settled, told>>
  PROVE  IInv'
<1> USE DEF IInv, memory, files, bounds, history
<1>1. /\ phase \in {"makeActions", "writeNewActions"}
      /\ phase' = IF phase = "makeActions" THEN "writeNewActions" ELSE "makeProcesses"
      /\ UNCHANGED <<release, memory, configurationFile, processesFile, updates,
                     settled, told, granted>>
      /\ faults' \in 0..MaxFaults
      /\ phase = "makeActions" => actionsFile' = Torn /\ unsaved' = unsaved
      /\ phase = "writeNewActions" =>
           \/ actionsFile' = actions /\ unsaved' = unsaved
           \/ actionsFile' = actionsFile /\ unsaved' = unsaved \cup Actions
  BY FaultType DEF openNewActions, writeNewActions, FailWrite, TypeOK
<1>2. TypeOK'
  BY <1>1 DEF TypeOK, Phases, StartPhases, Names
<1>3. /\ ProcessesRead' = ProcessesRead
      /\ ActionsRead' \in {ActionsRead, actions, NoActions}
      /\ (phase = "writeNewActions" /\ unsaved' = unsaved) =>
           ActionsRead' = actions \/ Actions \subseteq unsaved
  BY <1>1, ReadAfter
<1>4. ActionsHold'
  BY <1>1, <1>3 DEF ActionsHold, BeforeActions
<1>5. ProcessesHold'
  BY <1>1, <1>3 DEF ProcessesHold, BeforeProcesses, BeforeActions
<1>6. DueInv'
  BY <1>1, SavedStateAssumption DEF DueInv, BeforeActions, BeforeProcesses
<1>7. AllowedInv'
  BY <1>1, <1>3, AllowedStays DEF BeforeActions
<1>8. SettingsInv'
  BY <1>1, SettingsStay
<1> QED BY <1>2, <1>4, <1>5, <1>6, <1>7, <1>8

\* ProcessManager finds its file, or is about to write one.
LEMMA MakeProcessesStep ==
  ASSUME IInv, readProcesses \/ openNewProcesses
  PROVE  IInv'
<1> USE DEF IInv, memory, files, bounds, history
<1>1. /\ phase = "makeProcesses"
      /\ UNCHANGED <<release, given, settings, actions, configurationFile, actionsFile,
                     bounds, settled, unsaved, granted>>
  BY DEF readProcesses, openNewProcesses
<1>2. unsaved \cap Processes = {} /\ ActionsRead' = ActionsRead
  BY <1>1, ReadAfter DEF DueInv, BeforeProcesses, BeforeActions
<1>3. CASE readProcesses
  <2>1. processesFile # Absent /\ processes' = ProcessesRead /\ processesFile' = processesFile
    BY <1>3 DEF readProcesses, ProcessesRead
  <2>2. Begin(actions, ProcessesRead)
    BY <1>3 DEF readProcesses, ProcessesRead
  <2>3. /\ ProcessesRead \in [Processes -> Rights \cup {NoRights}]
        /\ actions \in [Actions -> Rights \cup {NoRights}]
        /\ ProcessesRead' = ProcessesRead
    BY <2>1, ReadType, ReadAfter DEF TypeOK
  <2>4. /\ phase' = "running" /\ told' \in [Names -> Rights \cup {Unknown}]
        /\ \A a \in Actions : told'[a] # Unknown => told'[a] = told[a] \/ told'[a] = actions[a]
        /\ \A p \in Processes :
             told'[p] # Unknown => told'[p] = told[p] \/ told'[p] = ProcessesRead[p]
    BY <2>2, <2>3, BeginTells
  <2>5. TypeOK'
    BY <1>1, <2>1, <2>3, <2>4 DEF TypeOK, Phases
  <2>6. ActionsHold'
    BY <1>1, <1>2, <2>4 DEF ActionsHold, BeforeActions
  <2>7. ProcessesHold' /\ DueInv'
    BY <1>1, <2>1, <2>3, <2>4
       DEF ProcessesHold, DueInv, BeforeProcesses, BeforeActions
  <2>8. AllowedInv'
    BY <1>1, <1>2, <2>1, <2>3, <2>4 DEF AllowedInv, Justified, BeforeActions
  <2>9. SettingsInv'
    BY <1>1, <2>4, SettingsStay
  <2> QED BY <2>5, <2>6, <2>7, <2>8, <2>9
<1>4. CASE openNewProcesses
  <2>1. /\ processesFile = Absent /\ processesFile' = Torn
        /\ processes' = [p \in Processes |-> DefaultProcessRights]
        /\ phase' = "writeNewProcesses" /\ told' = told
    BY <1>4 DEF openNewProcesses
  <2>2. \A p \in Processes :
          DefaultProcessRights \in Rights /\ Justified(DefaultProcessRights, p)
    BY DefaultRightsJustified
  <2>3. TypeOK'
    BY <1>1, <2>1, <2>2 DEF TypeOK, Phases, StartPhases
  <2>4. \A p \in Processes : ProcessesRead[p] = NoRights /\ ProcessesRead'[p] = NoRights
    BY <2>1 DEF ProcessesRead, NoProcesses
  <2>5. \A p \in Processes : told[p] = Unknown
    BY <1>1, <2>4, SavedStateAssumption
       DEF ProcessesHold, BeforeProcesses, TypeOK, Names
  <2>6. ActionsHold'
    BY <1>1, <1>2, <2>1 DEF ActionsHold, BeforeActions
  <2>7. ProcessesHold' /\ DueInv'
    BY <1>1, <1>2, <2>1, <2>5 DEF ProcessesHold, DueInv, BeforeProcesses, BeforeActions
  <2>8. AllowedInv'
    BY <1>1, <1>2, <2>1, <2>2, <2>4 DEF AllowedInv, Justified, BeforeActions
  <2>9. SettingsInv'
    BY <1>1, <2>1, SettingsStay
  <2> QED BY <2>3, <2>6, <2>7, <2>8, <2>9
<1> QED BY <1>3, <1>4

\* The new processes file is written, wholly or not.
LEMMA NewProcessesStep ==
  ASSUME IInv,
         \/ writeNewProcesses
         \/ /\ FailWrite("writeNewProcesses", Processes)
            /\ Begin(actions, processes) /\ UNCHANGED settled
  PROVE  IInv'
<1> USE DEF IInv, memory, files, bounds, history
<1>1. /\ phase = "writeNewProcesses" /\ Begin(actions, processes)
      /\ UNCHANGED <<release, memory, configurationFile, actionsFile, updates,
                     settled, granted>>
      /\ faults' \in 0..MaxFaults
      /\ \/ processesFile' = processes /\ unsaved' = unsaved
         \/ processesFile' = processesFile /\ unsaved' = unsaved \cup Processes
  BY FaultType DEF writeNewProcesses, FailWrite, TypeOK
<1>2. /\ phase' = "running" /\ told' \in [Names -> Rights \cup {Unknown}]
      /\ \A a \in Actions : told'[a] # Unknown => told'[a] = told[a] \/ told'[a] = actions[a]
      /\ \A p \in Processes :
           told'[p] # Unknown => told'[p] = told[p] \/ told'[p] = processes[p]
  BY <1>1, BeginTells DEF TypeOK
<1>3. /\ ActionsRead' = ActionsRead
      /\ ProcessesRead' \in {ProcessesRead, processes, NoProcesses}
      /\ ProcessesRead' = processes \/ Processes \subseteq unsaved'
  BY <1>1, ReadAfter
<1>4. TypeOK'
  BY <1>1, <1>2 DEF TypeOK, Phases, Names
<1>5. ActionsHold'
  BY <1>1, <1>2, <1>3, SavedStateAssumption DEF ActionsHold, BeforeActions
<1>6. ProcessesHold' /\ DueInv'
  BY <1>1, <1>2, <1>3 DEF ProcessesHold, DueInv, BeforeProcesses, BeforeActions
<1>7. AllowedInv'
  BY <1>1, <1>3, AllowedStays DEF BeforeActions
<1>8. SettingsInv'
  BY <1>1, <1>2, SettingsStay
<1> QED BY <1>4, <1>5, <1>6, <1>7, <1>8

\* An update is told, is due, and lets in whom it says.
LEMMA UpdateStep ==
  ASSUME IInv, NEW u \in Users, Request(u)
  PROVE  IInv'
<1> USE DEF IInv, memory, files, bounds, history
<1>1. \E x \in Names, rights \in Rights :
        /\ Update(x, rights)
        /\ \/ x \in Actions /\ updateActionAccessRights(x, rights)
           \/ x \in Processes /\ updateProcessAccessRights(x, rights)
  <2>1. CASE \E a \in Actions, owner \in Owners : actionUpdateAccessOwner(u, a, owner)
    <3>1. PICK a \in Actions, owner \in Owners : actionUpdateAccessOwner(u, a, owner)
      BY <2>1
    <3>2. [actions[a] EXCEPT !.owner = owner] \in Rights
      BY <3>1, SavedStateAssumption
         DEF actionUpdateAccessOwner, updateActionAccessRights, TypeOK, Rights
    <3> QED BY <3>1, <3>2 DEF actionUpdateAccessOwner, updateActionAccessRights, Names
  <2>2. CASE \E a \in Actions, mode \in Modes : actionUpdateAccessMode(u, a, mode)
    <3>1. PICK a \in Actions, mode \in Modes : actionUpdateAccessMode(u, a, mode)
      BY <2>2
    <3>2. [actions[a] EXCEPT !.mode = mode] \in Rights
      BY <3>1, SavedStateAssumption
         DEF actionUpdateAccessMode, updateActionAccessRights, TypeOK, Rights
    <3> QED BY <3>1, <3>2 DEF actionUpdateAccessMode, updateActionAccessRights, Names
  <2>3. CASE \E p \in Processes, owner \in Owners : processUpdateAccessOwner(u, p, owner)
    <3>1. PICK p \in Processes, owner \in Owners : processUpdateAccessOwner(u, p, owner)
      BY <2>3
    <3>2. [processes[p] EXCEPT !.owner = owner] \in Rights
      BY <3>1, SavedStateAssumption
         DEF processUpdateAccessOwner, updateProcessAccessRights, TypeOK, Rights
    <3> QED BY <3>1, <3>2 DEF processUpdateAccessOwner, updateProcessAccessRights, Names
  <2>4. CASE \E p \in Processes, mode \in Modes : processUpdateAccessMode(u, p, mode)
    <3>1. PICK p \in Processes, mode \in Modes : processUpdateAccessMode(u, p, mode)
      BY <2>4
    <3>2. [processes[p] EXCEPT !.mode = mode] \in Rights
      BY <3>1, SavedStateAssumption
         DEF processUpdateAccessMode, updateProcessAccessRights, TypeOK, Rights
    <3> QED BY <3>1, <3>2 DEF processUpdateAccessMode, updateProcessAccessRights, Names
  <2> QED BY <2>1, <2>2, <2>3, <2>4 DEF Request
<1>2. PICK x \in Names, rights \in Rights :
        /\ Update(x, rights)
        /\ \/ x \in Actions /\ updateActionAccessRights(x, rights)
           \/ x \in Processes /\ updateProcessAccessRights(x, rights)
  BY <1>1
<1>3. /\ phase \in {"running", "ending"} /\ updates' \in 0..MaxUpdates
      /\ told' = [told EXCEPT ![x] = rights] /\ unsaved' = unsaved \cup {x}
      /\ granted' = granted \cup AllowedTo(rights, x)
      /\ UNCHANGED <<phase, release, given, settings, files, faults, settled>>
  BY <1>2, SavedStateAssumption DEF Update, Serving, TypeOK
<1>4. \/ x \in Actions /\ actions' = [actions EXCEPT ![x] = rights] /\ processes' = processes
      \/ x \in Processes /\ processes' = [processes EXCEPT ![x] = rights] /\ actions' = actions
  BY <1>2 DEF updateActionAccessRights, updateProcessAccessRights
<1>5. ActionsRead' = ActionsRead /\ ProcessesRead' = ProcessesRead
  BY <1>3, ReadAfter
<1>6. AllowedTo(rights, x) \subseteq Users \X Names
      /\ \A v \in Users : isUserAuthorized(v, rights) => <<v, x>> \in granted'
  BY <1>3 DEF AllowedTo
<1>7. TypeOK'
  BY <1>3, <1>4, <1>6 DEF TypeOK
<1>8. ActionsHold'
  BY <1>3, <1>4, <1>5, SavedStateAssumption
     DEF ActionsHold, BeforeActions, TypeOK, Names
<1>9. ProcessesHold'
  BY <1>3, <1>4, <1>5, SavedStateAssumption
     DEF ProcessesHold, BeforeProcesses, BeforeActions, TypeOK, Names
<1>10. DueInv'
  BY <1>3 DEF DueInv, BeforeProcesses, BeforeActions
<1>11. AllowedInv'
  <2>1. granted \subseteq granted'
    BY <1>3
  <2>2. (\A a \in Actions : Justified(actions[a], a))'
    <3> SUFFICES ASSUME NEW a \in Actions, actions'[a] # NoRights, NEW v \in Users,
                        isUserAuthorized(v, actions'[a])
                 PROVE  Entitled(v, a) \/ <<v, a>> \in granted'
      BY DEF Justified
    <3>1. CASE actions'[a] = actions[a]
      BY <2>1, <3>1 DEF AllowedInv, Justified
    <3>2. CASE a = x /\ actions'[a] = rights
      BY <1>6, <3>2
    <3> QED BY <1>4, <3>1, <3>2 DEF TypeOK
  <2>3. (\A p \in Processes : Justified(processes[p], p))'
    <3> SUFFICES ASSUME NEW p \in Processes, processes'[p] # NoRights, NEW v \in Users,
                        isUserAuthorized(v, processes'[p])
                 PROVE  Entitled(v, p) \/ <<v, p>> \in granted'
      BY DEF Justified
    <3>1. CASE processes'[p] = processes[p]
      BY <2>1, <3>1 DEF AllowedInv, Justified
    <3>2. CASE p = x /\ processes'[p] = rights
      BY <1>6, <3>2
    <3> QED BY <1>4, <3>1, <3>2 DEF TypeOK
  <2>4. (/\ \A a \in Actions : Justified(ActionsRead[a], a)
         /\ \A p \in Processes : Justified(ProcessesRead[p], p))'
    BY <1>5, <2>1 DEF AllowedInv, Justified
  <2>5. \A a \in release' : actions'[a] # NoRights
    BY <1>3, <1>4, SavedStateAssumption DEF AllowedInv, TypeOK, BeforeActions
  <2> QED BY <1>3, <2>2, <2>3, <2>4, <2>5 DEF AllowedInv, BeforeActions
<1>12. SettingsInv'
  BY <1>3, SettingsStay
<1> QED BY <1>7, <1>8, <1>9, <1>10, <1>11, <1>12

\* The shutdown opens each file and writes what is in memory, wholly or not.
LEMMA SaveStep ==
  ASSUME IInv,
         \/ shutdown \/ saveUsers \/ openActions \/ writeActions
         \/ openProcesses \/ writeProcesses
         \/ /\ FailWrite("writeActions", Actions)
            /\ phase' = "saveProcesses" /\ UNCHANGED <<settled, told>>
         \/ /\ FailWrite("writeProcesses", Processes)
            /\ phase' = "ending" /\ UNCHANGED <<settled, told>>
  PROVE  IInv'
<1> USE DEF IInv, memory, files, bounds, history
<1>1. /\ phase \in {"running", "ending"} \cup SavePhases
      /\ phase' \in SavePhases \cup {"ending"}
      /\ UNCHANGED <<release, memory, configurationFile, updates, settled, told, granted>>
      /\ faults' \in 0..MaxFaults
      /\ unsaved' \in {unsaved, unsaved \ Actions, unsaved \cup Actions,
                       unsaved \ Processes, unsaved \cup Processes}
      /\ actionsFile' \in {actionsFile, actions, Torn}
      /\ processesFile' \in {processesFile, processes, Torn}
  BY FaultType
     DEF shutdown, saveUsers, openActions, writeActions, openProcesses,
         writeProcesses, FailWrite, Serving, SavePhases, TypeOK
<1>2. /\ phase = "writeActions" =>
           /\ phase' = "saveProcesses" /\ processesFile' = processesFile
           /\ \/ actionsFile' = actions /\ unsaved' = unsaved \ Actions
              \/ actionsFile' = actionsFile /\ unsaved' = unsaved \cup Actions
      /\ phase = "writeProcesses" =>
           /\ phase' = "ending" /\ actionsFile' = actionsFile
           /\ \/ processesFile' = processes /\ unsaved' = unsaved \ Processes
              \/ processesFile' = processesFile /\ unsaved' = unsaved \cup Processes
      /\ phase \notin {"writeActions", "writeProcesses"} =>
           /\ unsaved' = unsaved
           /\ phase' = "writeActions" \/ actionsFile' = actionsFile
           /\ phase' = "writeProcesses" \/ processesFile' = processesFile
  BY DEF shutdown, saveUsers, openActions, writeActions, openProcesses,
         writeProcesses, FailWrite, Serving
<1>3. /\ ActionsRead' \in {ActionsRead, actions, NoActions}
      /\ ProcessesRead' \in {ProcessesRead, processes, NoProcesses}
  BY <1>1, ReadAfter
<1>4. TypeOK'
  BY <1>1 DEF TypeOK, Phases, SavePhases, Names
<1>5. ActionsHold'
  <2>1. \A a \in Actions : told'[a] # Unknown => actions'[a] = told'[a]
    BY <1>1 DEF ActionsHold, BeforeActions, SavePhases
  <2>2. phase' # "writeActions" => \A a \in Actions \ unsaved' : ActionsRead'[a] = actions'[a]
    BY <1>1, <1>2, ReadAfter, SavedStateAssumption
       DEF ActionsHold, BeforeActions, SavePhases
  <2> QED BY <1>1, <2>1, <2>2 DEF ActionsHold, BeforeActions, SavePhases
<1>6. ProcessesHold'
  <2>1. \A p \in Processes : told'[p] # Unknown => processes'[p] = told'[p]
    BY <1>1 DEF ProcessesHold, BeforeProcesses, BeforeActions, SavePhases
  <2>2. phase' # "writeProcesses" =>
          \A p \in Processes \ unsaved' : ProcessesRead'[p] = processes'[p]
    BY <1>1, <1>2, ReadAfter, SavedStateAssumption
       DEF ProcessesHold, BeforeProcesses, BeforeActions, SavePhases
  <2> QED BY <1>1, <2>1, <2>2 DEF ProcessesHold, BeforeProcesses, BeforeActions, SavePhases
<1>7. DueInv'
  BY <1>1 DEF DueInv, BeforeActions, BeforeProcesses, SavePhases
<1>8. AllowedInv'
  BY <1>1, <1>3, AllowedStays DEF BeforeActions, SavePhases
<1>9. SettingsInv'
  BY <1>1, SettingsStay DEF SavePhases
<1> QED BY <1>4, <1>5, <1>6, <1>7, <1>8, <1>9

\* The server ends by itself, because a file does not open, or by a crash.
LEMMA DownStep ==
  ASSUME IInv, onStopped \/ FailOpen \/ Crash
  PROVE  IInv'
<1> USE DEF IInv, memory, files, bounds, history
<1>1. \E lost \in SUBSET Names : LeftOpen \subseteq lost /\ End(lost)
  <2>1. CASE onStopped \/ FailOpen
    BY <2>1, OpenFile DEF onStopped, FailOpen
  <2>2. CASE Crash
    BY <2>2, OpenFile DEF Crash
  <2> QED BY <2>1, <2>2
<1>2. /\ UNCHANGED <<release, files, updates, granted>>
      /\ faults' \in 0..MaxFaults
      /\ settled' = IF phase = "writeSettings" THEN Unknown ELSE settled
  BY FaultType DEF onStopped, FailOpen, Crash, TypeOK
<1>3. /\ ActionsHold' /\ ProcessesHold' /\ DueInv' /\ AllowedInv'
      /\ actions' = NoActions /\ processes' = NoProcesses
      /\ told' \in [Names -> Rights \cup {Unknown}]
      /\ given' \in [Keys -> Values \cup {NotGiven}] /\ settings' \in Settings
      /\ phase' = "down" /\ unsaved' = {}
  BY <1>1, <1>2, EndStep
<1>4. TypeOK'
  BY <1>2, <1>3 DEF TypeOK, Phases, NoActions, NoProcesses
<1>5. SettingsInv'
  BY <1>2, <1>3 DEF SettingsInv, SettingsAsGiven
<1> QED BY <1>3, <1>4, <1>5

\* Another release changes nothing that is kept.
LEMMA InstallStep ==
  ASSUME IInv, NEW known \in Releases, Install(known)
  PROVE  IInv'
<1> USE DEF IInv, Install, memory, files, bounds, history
<1>1. TypeOK'
  BY DEF TypeOK
<1>2. ActionsHold' /\ ProcessesHold' /\ DueInv' /\ SettingsInv'
  BY DEF ActionsHold, ProcessesHold, DueInv, ActionsRead, ProcessesRead,
         SettingsInv, SettingsAsGiven
<1>3. AllowedInv'
  BY DEF AllowedInv, Justified, ActionsRead, ProcessesRead, BeforeActions
<1> QED BY <1>1, <1>2, <1>3

\* Every step keeps the invariant.
LEMMA NextIInv == IInv /\ [Next]_vars => IInv'
<1> SUFFICES ASSUME IInv, [Next]_vars
             PROVE  IInv'
  OBVIOUS
<1>1. CASE UNCHANGED vars
  BY <1>1 DEF vars, memory, files, bounds, history, IInv, TypeOK, ActionsHold,
              ProcessesHold, DueInv, AllowedInv, Justified, SettingsInv,
              SettingsAsGiven, ActionsRead, ProcessesRead
<1>2. CASE Start
  BY <1>2, LaunchStep, SettingsStep, MakeStep, NewActionsStep, MakeProcessesStep,
     NewProcessesStep DEF Start
<1>3. CASE Shutdown
  BY <1>3, SaveStep, DownStep DEF Shutdown
<1>4. CASE ShortWrite
  BY <1>4, SettingsStep, NewActionsStep, NewProcessesStep, SaveStep DEF ShortWrite
<1> QED
  BY <1>1, <1>2, <1>3, <1>4, UpdateStep, DownStep, InstallStep DEF Next

LEMMA SpecIInv == Spec => []IInv
  BY InitIInv, NextIInv, PTL DEF Spec

(***************************************************************************)
(* The theorems                                                            *)
(***************************************************************************)

\* The types of SavedState hold in every reachable state.
THEOREM SavedTypeCorrect == Spec => []TypeOK
<1>1. IInv => TypeOK
  BY DEF IInv
<1> QED BY <1>1, SpecIInv, PTL

\* The rights a request was last told of hold over restarts, releases and
\* second shutdowns, unless they were due or their file was cut off.
THEOREM RightsKeep == Spec => []RightsHold
<1>1. IInv => RightsHold
  <2> SUFFICES ASSUME IInv, Serving, NEW x \in Names, told[x] # Unknown
               PROVE  RightsOf(x) = told[x]
    BY DEF RightsHold
  <2>1. phase \notin BeforeProcesses /\ phase \notin BeforeActions
    BY DEF Serving, BeforeProcesses, BeforeActions
  <2> QED BY <2>1 DEF IInv, ActionsHold, ProcessesHold, RightsOf, Names
<1> QED BY <1>1, SpecIInv, PTL

\* Nobody is let in or locked out by accident, whatever happens to the files.
THEOREM LetInAsMeant == Spec => []NobodyLetInOrLockedOut
<1>1. IInv => NobodyLetInOrLockedOut
  <2> SUFFICES ASSUME IInv, Serving
               PROVE  /\ \A a \in release : actions[a] # NoRights
                      /\ \A u \in Users, x \in Names :
                           authorizeUser(u, x) => Entitled(u, x) \/ <<u, x>> \in granted
    BY DEF NobodyLetInOrLockedOut
  <2>1. \A a \in release : actions[a] # NoRights
    BY DEF IInv, AllowedInv, Serving, BeforeActions
  <2>2. ASSUME NEW u \in Users, NEW x \in Names, authorizeUser(u, x)
        PROVE  Entitled(u, x) \/ <<u, x>> \in granted
    BY <2>2 DEF IInv, AllowedInv, Justified, authorizeUser, RightsOf, Names
  <2> QED BY <2>1, <2>2
<1> QED BY <1>1, SpecIInv, PTL

\* A start obeys its command line and otherwise finds its last settings.
THEOREM SettingsKeep == Spec => []SettingsAsGiven
<1>1. IInv => SettingsAsGiven
  BY DEF IInv, SettingsInv
<1> QED BY <1>1, SpecIInv, PTL

===============================================================================
