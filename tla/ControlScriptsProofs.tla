------------------------- MODULE ControlScriptsProofs -------------------------
(***************************************************************************)
(* Proofs about ControlScripts: its types, that one server runs at most    *)
(* and can be found, that a container that is told to stop lets it end,    *)
(* and what the marker .configured says of the administrator; for every    *)
(* set of pids and any number of polls, faults, kills and visits.          *)
(***************************************************************************)
EXTENDS ControlScripts, FiniteSetTheorems, TLAPS

(***************************************************************************)
(* The inductive invariant                                                 *)
(***************************************************************************)

\* Which script the entrypoint runs when.
EntryInv ==
  /\ entry = "starting" => script["entrypoint"] \in StartStates \cup {"succeeded", "failed"}
  /\ entry \in {"cleaning", "givingUp"} =>
       script["entrypoint"] \in StopStates \cup {"succeeded", "failed"}
  /\ entry \in {"polling", "adding", "updating", "marking", "resting"} =>
       script["entrypoint"] = "none"

\* All the servers there are, where nothing overlapped: none when one is about
\* to be launched or the pid file to be removed, the one a start has to write
\* down, the one a stop has found, or else the one in the pid file.
ServerInv ==
  ~overlapped =>
    /\ \A s \in Shells :
         /\ script[s] \in {"launch", "removePid"} => Servers = {}
         /\ script[s] \in {"writePid", "kill", "awaitEnd"} => Servers \subseteq {lastPid[s]}
    /\ (\A s \in Shells : script[s] # "writePid") => Servers \subseteq {pidFile}

\* Nobody meddled and no server crashed.
Calm == faults = 0 /\ visits = 0

Later == {"polling", "adding", "updating", "marking", "resting"}

\* The entrypoint's own start of its only server, which may end of itself.
StartInv ==
  /\ ~Up \/ script["entrypoint"] \in {"findRunning", "launch"} => ~logged["entrypoint"]
  /\ script["entrypoint"] \in {"findRunning", "launch"} => Servers = {}
  /\ script["entrypoint"] \in {"writePid", "awaitReady"} =>
       /\ Servers \subseteq {lastPid["entrypoint"]}
       /\ \A p \in Servers :
            /\ server[p] \in {"starting", "ready", "mute"}
            /\ logged["entrypoint"] => server[p] = "ready"

\* Once its start script has ended, the entrypoint kills no server that could
\* leave a file cut off: there is none when it ends the container, and its
\* signal meets none in its start.
EndInv ==
  /\ entry = "starting" /\ script["entrypoint"] = "failed" => Servers = {}
  /\ entry \in {"cleaning", "givingUp"} /\ script["entrypoint"] \in {"succeeded", "failed"} =>
       Servers = {}
  /\ \/ entry = "starting" /\ script["entrypoint"] = "succeeded"
     \/ entry \in Later \cup {"cleaning", "givingUp"}
     => \A p \in Pids : server[p] # "starting"

\* There is a server to serve when the account is made.
ServingInv ==
  (entry = "starting" /\ script["entrypoint"] = "succeeded") \/ entry \in Later => Serving

\* The account was made when the marker is, and only a kill loses it.
AccountInv ==
  /\ Serving => account # "absent"
  /\ entry = "updating" => account \notin {"absent", "none"}
  /\ entry = "marking" \/ configured => account \in {"root", "lost"}
  /\ account = "lost" => kills > 0

AdminInv ==
  Calm =>
    /\ ~overlapped /\ foreign = {} /\ script["visitor"] = "none"
    /\ StartInv /\ EndInv /\ ServingInv /\ AccountInv

IInv == TypeOK /\ EntryInv /\ ServerInv /\ AdminInv

(***************************************************************************)
(* Types                                                                   *)
(***************************************************************************)

\* The states of scripts and of the entrypoint are told apart by name.
LEMMA ScriptStates ==
  /\ StartStates \cup StopStates \cup {"none", "succeeded", "failed"} = Scripts
  /\ \A s : Active(s) <=> script[s] \in StartStates \cup StopStates
  BY DEF Scripts, Active

\* What killed servers leave of the files; nobody's end leaves them whole.
LEMMA CutData ==
  ASSUME TypeOK
  PROVE  /\ Defaults \in Accounts \ {"absent"}
         /\ account # "lost" => Defaults # "lost"
         /\ account # "absent" => Defaults = account
         /\ \A killed : Cut(killed) => /\ account' \in {account, "none", "lost"}
                                       /\ account' = "none" => account \in {"absent", "none"}
                                       /\ account' \in Accounts
                                       /\ settings' \in {"whole", "lost"}
         /\ Cut({}) => UNCHANGED data
<1>1. account \in Accounts /\ settings \in {"whole", "lost"}
  BY DEF TypeOK
<1>2. /\ Defaults \in Accounts \ {"absent"}
      /\ account # "lost" => Defaults # "lost"
      /\ account # "absent" => Defaults = account
  BY <1>1 DEF Defaults, Accounts
<1>3. ASSUME NEW killed, Cut(killed)
      PROVE  /\ account' \in {account, "none", "lost"}
             /\ account' = "none" => account \in {"absent", "none"}
             /\ settings' \in {"whole", "lost"}
  BY <1>1, <1>3 DEF Cut
<1>4. Cut({}) => UNCHANGED data
  BY DEF Cut, data
<1>5. {account, "none", "lost"} \subseteq Accounts
  BY <1>1 DEF Accounts
<1> QED BY <1>2, <1>3, <1>4, <1>5

\* A step of a script leaves the entrypoint and the bounds alone, and moves the
\* script of its shell only.
LEMMA StepOfScript ==
  ASSUME TypeOK, NEW s \in Shells, Step(s)
  PROVE  /\ Active(s) /\ Up
         /\ UNCHANGED <<entry, term, retries, configured, faults, kills, visits>>
         /\ account' \in Accounts /\ settings' \in {"whole", "lost"}
         /\ server' \in [Pids -> ServerStates] /\ foreign' \subseteq foreign
         /\ pidFile' \in Pids \cup {Absent}
         /\ script' \in [Shells -> Scripts] /\ \A t \in Shells \ {s} : script'[t] = script[t]
         /\ lastPid' \in [Shells -> Pids \cup {Absent}] /\ logged' \in [Shells -> BOOLEAN]
         /\ \A t \in Shells \ {s} : lastPid'[t] = lastPid[t] /\ logged'[t] = logged[t]
         /\ overlapped' \in BOOLEAN
<1> USE DEF TypeOK, atEntrypoint, bounds, processes, locals, Goto, Return
<1>1. Active(s)
  BY DEF Step, findRunning, launch, writePid, awaitReady, findPid, kill, awaitEnd, removePid,
         Active, StartStates, StopStates
<1>2. Up
  BY <1>1
<1>3. UNCHANGED <<entry, term, retries, configured, faults, kills, visits>>
  BY DEF Step, findRunning, launch, writePid, awaitReady, findPid, kill, awaitEnd, removePid
<1>4. overlapped' \in BOOLEAN
  BY DEF Step
<1>5. \E state \in Scripts : script' = [script EXCEPT ![s] = state]
  BY DEF Step, findRunning, launch, writePid, awaitReady, findPid, kill, awaitEnd, removePid,
         Scripts, StartStates, StopStates
<1>6. \/ UNCHANGED <<lastPid, logged>>
      \/ \E p \in Pids \cup {Absent} :
           lastPid' = [lastPid EXCEPT ![s] = p] /\ logged' \in {logged, [logged EXCEPT ![s] = FALSE]}
  BY DEF Step, findRunning, launch, writePid, awaitReady, findPid, kill, awaitEnd, removePid
<1>7. pidFile' \in Pids \cup {Absent}
  BY DEF Step, findRunning, launch, writePid, awaitReady, findPid, kill, awaitEnd, removePid
<1>8. server' \in [Pids -> ServerStates] /\ foreign' \subseteq foreign
  <2>1. CASE findRunning(s) \/ writePid(s) \/ awaitReady(s) \/ findPid(s) \/ awaitEnd(s) \/ removePid(s)
    BY <2>1 DEF findRunning, writePid, awaitReady, findPid, awaitEnd, removePid
  <2>2. CASE launch(s)
    BY <2>2 DEF launch, ServerStates
  <2>3. CASE kill(s)
    BY <2>3 DEF kill, Signal, ServerStates
  <2> QED BY <2>1, <2>2, <2>3 DEF Step
<1>9. /\ script' \in [Shells -> Scripts] /\ \A t \in Shells \ {s} : script'[t] = script[t]
  BY <1>5
<1>10. /\ lastPid' \in [Shells -> Pids \cup {Absent}] /\ logged' \in [Shells -> BOOLEAN]
       /\ \A t \in Shells \ {s} : lastPid'[t] = lastPid[t] /\ logged'[t] = logged[t]
  BY <1>6
<1>11. account' \in Accounts /\ settings' \in {"whole", "lost"}
  <2>1. CASE kill(s)
    BY <2>1, CutData DEF kill, Signal, data
  <2>2. CASE ~kill(s)
    BY <2>2 DEF Step, findRunning, launch, writePid, awaitReady, findPid, awaitEnd, removePid, data
  <2> QED BY <2>1, <2>2
<1> QED BY <1>1, <1>2, <1>3, <1>4, <1>7, <1>8, <1>9, <1>10, <1>11

\* What the container's end leaves.
LEMMA EndOfContainer ==
  ASSUME TypeOK, NEW state \in {"down", "exited"}, Ended(state)
  PROVE  /\ entry' = state /\ ~term' /\ server' = NoProcess /\ foreign' = {}
         /\ \A s \in Shells : script'[s] = "none" /\ lastPid'[s] = Absent /\ ~logged'[s]
         /\ ~overlapped' /\ Servers' = {} /\ ~Up'
         /\ account' \in {account, "none", "lost"}
         /\ account' = "none" => account \in {"absent", "none"}
         /\ Servers = {} => UNCHANGED data
         /\ (/\ UNCHANGED <<pidFile, configured>> /\ {faults', kills', visits'} \subseteq Nat
             /\ faults' + kills' + visits' \in 0..MaxUpsets) => TypeOK'
<1>1. /\ entry' = state /\ ~term' /\ server' = NoProcess /\ foreign' = {}
      /\ script' = [s \in Shells |-> "none"] /\ retries' = MaxRetries /\ ~overlapped'
      /\ lastPid' = [s \in Shells |-> Absent] /\ logged' = [s \in Shells |-> FALSE]
      /\ term' = FALSE /\ overlapped' = FALSE
  BY DEF Ended
<1>2. Servers' = {} /\ ~Up'
  BY <1>1 DEF Servers, NoProcess, Up
<1>3. /\ account' \in {account, "none", "lost"}
      /\ account' = "none" => account \in {"absent", "none"}
      /\ account' \in Accounts /\ settings' \in {"whole", "lost"}
      /\ Servers = {} => UNCHANGED data
  BY CutData DEF Ended
<1>4. ASSUME UNCHANGED <<pidFile, configured>>, {faults', kills', visits'} \subseteq Nat,
             faults' + kills' + visits' \in 0..MaxUpsets
      PROVE  TypeOK'
  <2>1. /\ script' \in [Shells -> Scripts] /\ lastPid' \in [Shells -> Pids \cup {Absent}]
        /\ logged' \in [Shells -> BOOLEAN] /\ server' \in [Pids -> ServerStates]
    BY <1>1 DEF Scripts, NoProcess, ServerStates
  <2>2. entry' \in EntryStates /\ retries' \in 0..MaxRetries
    BY <1>1, ControlAssumption DEF EntryStates
  <2>3. \A s \in Shells : ~Active(s)'
    BY <1>1 DEF Active, StartStates, StopStates
  <2> QED BY <1>1, <1>3, <1>4, <2>1, <2>2, <2>3 DEF TypeOK
<1> QED BY <1>1, <1>2, <1>3, <1>4

\* The entrypoint's next command, or the handler of the signal.
LEMMA NextCommand ==
  ASSUME TypeOK, NEW state \in EntryStates, NEW first \in Scripts, Proceed(state, first)
  PROVE  /\ script' \in [Shells -> Scripts] /\ term' \in BOOLEAN
         /\ script'["visitor"] = script["visitor"]
         /\ \/ entry' = state /\ script'["entrypoint"] = first
            \/ entry' = "cleaning" /\ script'["entrypoint"] = "findPid"
<1>1. \/ /\ entry' = state /\ script' = [script EXCEPT !["entrypoint"] = first] /\ term' = term
      \/ /\ entry' = "cleaning" /\ script' = [script EXCEPT !["entrypoint"] = "findPid"]
         /\ term' = FALSE
  BY DEF Proceed, cleanup, Goto
<1>2. "findPid" \in Scripts /\ script \in [Shells -> Scripts] /\ term \in BOOLEAN
  BY DEF Scripts, StopStates, TypeOK
<1>3. {"entrypoint", "visitor"} = Shells
  BY DEF Shells
<1> QED BY <1>1, <1>2, <1>3

\* A step of the entrypoint ends the container, or moves only the entrypoint,
\* between two scripts.
EntrypointMoves ==
  /\ UNCHANGED <<server, foreign, lastPid, logged, pidFile, settings, faults, kills, visits,
                 overlapped>>
  /\ script["entrypoint"] \notin StartStates \cup StopStates
  /\ script'["visitor"] = script["visitor"] /\ Up /\ Up'
  /\ \/ entry' \in {"polling", "adding", "updating", "marking", "resting"}
          /\ script'["entrypoint"] = "none"
     \/ entry' \in {"cleaning", "givingUp"} /\ script'["entrypoint"] = "findPid"

LEMMA StepOfEntrypoint ==
  ASSUME TypeOK, EntryInv, entrypoint
  PROVE  \/ /\ \E state \in {"down", "exited"} : Ended(state)
            /\ UNCHANGED <<pidFile, configured, faults, kills, visits>>
         \/ EntrypointMoves /\ TypeOK'
<1> DEFINE Kept == UNCHANGED <<server, foreign, lastPid, logged, pidFile, settings, faults, kills,
                               visits, overlapped>>
<1>1. /\ {"polling", "adding", "updating", "marking", "resting", "givingUp"} \subseteq EntryStates
      /\ {"none", "findPid"} \subseteq Scripts
  BY DEF EntryStates, Scripts, StopStates
<1>2. ASSUME NEW state \in {"polling", "adding", "updating", "marking", "resting", "givingUp"},
             NEW first \in {"none", "findPid"}, Proceed(state, first),
             state = "givingUp" <=> first = "findPid", Kept,
             script["entrypoint"] \notin StartStates \cup StopStates, Up,
             retries' \in 0..MaxRetries, configured' \in BOOLEAN,
             account' \in Accounts
      PROVE  EntrypointMoves /\ TypeOK'
  <2>1. /\ script' \in [Shells -> Scripts] /\ term' \in BOOLEAN
        /\ script'["visitor"] = script["visitor"]
        /\ \/ entry' = state /\ script'["entrypoint"] = first
           \/ entry' = "cleaning" /\ script'["entrypoint"] = "findPid"
    BY <1>1, <1>2, NextCommand
  <2>2. entry' \in EntryStates /\ Up'
    BY <2>1 DEF EntryStates, Up
  <2>3. EntrypointMoves
    BY <1>2, <2>1, <2>2 DEF EntrypointMoves
  <2>4. TypeOK'
    BY <1>2, <2>1, <2>2 DEF TypeOK
  <2> QED BY <2>3, <2>4
<1>3. retries \in 0..MaxRetries /\ configured \in BOOLEAN /\ account \in Accounts
      /\ term \in BOOLEAN /\ MaxRetries \in Nat
  BY ControlAssumption DEF TypeOK
<1>4. {"added", "root"} \subseteq Accounts
      /\ {"none", "succeeded", "failed"} \cap (StartStates \cup StopStates) = {}
  BY DEF StartStates, StopStates, Accounts
<1>5. term /\ cleanup => Proceed("polling", "none")
  BY DEF Proceed
<1> USE DEF processes, locals, saved, data, bounds
<1>6. CASE Started
  <2>1. Kept \/ Ended("exited")
    BY <1>6 DEF Started
  <2>2. ASSUME ~Ended("exited")
        PROVE  /\ Kept /\ UNCHANGED <<retries, configured, account>>
               /\ script["entrypoint"] \in {"succeeded", "failed"} /\ Up
               /\ Proceed("resting", "none") \/ Proceed("polling", "none")
    BY <1>5, <1>6, <2>2 DEF Started, Up
  <2>3. UNCHANGED <<pidFile, configured, faults, kills, visits>>
    BY <1>6 DEF Started
  <2>4. CASE ~Ended("exited")
    BY <1>2, <1>3, <1>4, <2>2, <2>4
  <2> QED BY <2>3, <2>4
<1>7. CASE Poll
  <2>1. script["entrypoint"] = "none" /\ Up
    BY <1>7 DEF Poll, EntryInv, Up
  <2>2. /\ Kept /\ UNCHANGED <<configured, account>> /\ retries' \in 0..MaxRetries
        /\ \/ Proceed("adding", "none") \/ Proceed("polling", "none")
           \/ Proceed("givingUp", "findPid")
    BY <1>3, <1>7 DEF Poll
  <2> QED BY <1>2, <1>3, <1>4, <2>1, <2>2
<1>8. CASE addAccount
  <2>1. script["entrypoint"] = "none" /\ Up
    BY <1>8 DEF addAccount, EntryInv, Up
  <2>2. /\ Kept /\ UNCHANGED <<configured, retries>> /\ account' \in Accounts
        /\ Proceed("updating", "none")
    BY <1>3, <1>4, <1>8 DEF addAccount
  <2> QED BY <1>2, <1>3, <1>4, <2>1, <2>2
<1>9. CASE updateAccount
  <2>1. script["entrypoint"] = "none" /\ Up
    BY <1>9 DEF updateAccount, EntryInv, Up
  <2>2. /\ Kept /\ UNCHANGED <<configured, retries>> /\ account' \in Accounts
        /\ Proceed("marking", "none")
    BY <1>3, <1>4, <1>9 DEF updateAccount
  <2> QED BY <1>2, <1>3, <1>4, <2>1, <2>2
<1>10. CASE touchConfigured
  <2>1. script["entrypoint"] = "none" /\ Up
    BY <1>10 DEF touchConfigured, EntryInv, Up
  <2>2. Kept /\ UNCHANGED <<account, retries>> /\ configured' = TRUE /\ Proceed("resting", "none")
    BY <1>10 DEF touchConfigured
  <2> QED BY <1>2, <1>3, <1>4, <2>1, <2>2
<1>11. CASE Rest
  <2>1. script["entrypoint"] = "none" /\ Up
    BY <1>11 DEF Rest, EntryInv, Up
  <2>2. Kept /\ UNCHANGED <<configured, account, retries>> /\ Proceed("polling", "none")
    BY <1>5, <1>11 DEF Rest
  <2> QED BY <1>2, <1>3, <1>4, <2>1, <2>2
<1>12. CASE Stopped
  BY <1>12 DEF Stopped
<1> QED BY <1>6, <1>7, <1>8, <1>9, <1>10, <1>11, <1>12 DEF entrypoint

\* A server moves itself only, and none begins.
ServerStep(p) == GetReady(p) \/ FailStart(p) \/ Stop(p) \/ ServerFault(p)

LEMMA StepOfServer ==
  ASSUME TypeOK, NEW p \in Pids, ServerStep(p)
  PROVE  /\ UNCHANGED serverAsIs /\ TypeOK' /\ Servers' \subseteq Servers
         /\ logged' # logged => GetReady(p)
         /\ \E state \in ServerStates : server' = [server EXCEPT ![p] = state]
<1>1. UNCHANGED serverAsIs /\ server[p] # "dead"
  BY DEF ServerStep, GetReady, FailStart, Stop, ServerFault
<1>2. PICK state \in ServerStates : server' = [server EXCEPT ![p] = state]
  BY DEF ServerStep, GetReady, FailStart, Stop, ServerFault, ServerStates, TypeOK
<1>3. logged' \in [Shells -> BOOLEAN] /\ (logged' # logged => GetReady(p))
  <2>1. GetReady(p) \/ logged' = logged
    BY DEF ServerStep, FailStart, Stop, ServerFault
  <2>2. ASSUME GetReady(p)
        PROVE  logged' \in [Shells -> BOOLEAN]
    <3>1. \/ logged' = [s \in Shells |-> script[s] \in {"launch", "writePid", "awaitReady"}]
          \/ logged' = logged
      BY <2>2 DEF GetReady
    <3>2. logged \in [Shells -> BOOLEAN]
      BY DEF TypeOK
    <3>3. CASE logged' = logged
      BY <3>2, <3>3
    <3>4. CASE logged' = [s \in Shells |-> script[s] \in {"launch", "writePid", "awaitReady"}]
      BY <3>4
    <3> QED BY <3>1, <3>3, <3>4
  <2> QED BY <2>1, <2>2 DEF TypeOK
<1>4. faults' \in Nat /\ faults' + kills + visits \in 0..MaxUpsets
  <2>1. /\ MaxUpsets \in Nat /\ faults \in Nat /\ kills \in Nat /\ visits \in Nat
        /\ faults + kills + visits \in 0..MaxUpsets
    BY ControlAssumption DEF TypeOK
  <2>2. faults' = faults \/ (faults' = faults + 1 /\ faults + kills + visits < MaxUpsets)
    BY DEF ServerStep, GetReady, FailStart, Stop, ServerFault, Quiet
  <2> QED BY <2>1, <2>2
<1>5. Up
  BY <1>1 DEF TypeOK, NoProcess
<1>6. account' \in Accounts /\ settings' \in {"whole", "lost"}
  <2>1. account \in Accounts /\ settings \in {"whole", "lost"}
    BY DEF TypeOK
  <2> QED BY <2>1, CutData DEF ServerStep, GetReady, FailStart, Stop, ServerFault, data
<1>7. TypeOK'
  BY <1>1, <1>2, <1>3, <1>4, <1>5, <1>6 DEF TypeOK, serverAsIs, Up
<1>8. Servers' \subseteq Servers
  BY <1>1, <1>2 DEF Servers, TypeOK
<1> QED BY <1>1, <1>2, <1>3, <1>7, <1>8

\* What the environment does to the scripts and the files is little.
LEMMA StepOfEnvironment ==
  ASSUME TypeOK, environment
  PROVE  \/ /\ Ended("down") /\ UNCHANGED <<pidFile, configured, faults, visits>> /\ kills' = kills + 1
            /\ TypeOK'
         \/ /\ UNCHANGED <<server, pidFile, lastPid, logged, configured, data, kills, overlapped>>
            /\ TypeOK'
            /\ \/ ContainerStart /\ foreign' = foreign
               \/ Visit /\ entry' = entry /\ ~Active("visitor")
               \/ UNCHANGED <<script, entry>> /\ (foreign' \subseteq foreign \/ faults' # 0)
<1> USE DEF processes, locals, saved, data, bounds
<1>1. /\ MaxUpsets \in Nat /\ faults \in Nat /\ kills \in Nat /\ visits \in Nat
      /\ faults + kills + visits \in 0..MaxUpsets
  BY ControlAssumption DEF TypeOK
<1>2. CASE ContainerStart
  <2>1. /\ entry' = "starting" /\ script' = [script EXCEPT !["entrypoint"] = "findRunning"]
        /\ UNCHANGED <<server, foreign, pidFile, lastPid, logged, configured, data, overlapped,
                       term, retries, faults, kills, visits>>
    BY <1>2 DEF ContainerStart, Goto
  <2>2. script' \in [Shells -> Scripts] /\ entry' \in EntryStates /\ Up'
    BY <2>1 DEF TypeOK, Scripts, StartStates, EntryStates, Up
  <2>3. TypeOK'
    BY <2>1, <2>2 DEF TypeOK
  <2> QED BY <1>2, <2>1, <2>3
<1>3. CASE ReusePid
  <2>1. /\ UNCHANGED <<server, pidFile, lastPid, logged, configured, data, overlapped, script,
                       entry, term, retries, kills, visits>>
        /\ Up /\ faults' = faults + 1 /\ faults + kills + visits < MaxUpsets
        /\ foreign' \subseteq Pids
    BY <1>3 DEF ReusePid, Quiet, TypeOK
  <2>2. faults' \in Nat /\ faults' # 0 /\ faults' + kills + visits \in 0..MaxUpsets
    BY <1>1, <2>1
  <2>3. TypeOK'
    BY <2>1, <2>2 DEF TypeOK, Up
  <2> QED BY <2>1, <2>2, <2>3
<1>4. CASE OtherEnds
  <2>1. /\ UNCHANGED <<server, pidFile, lastPid, logged, configured, data, overlapped, script,
                       entry, term, retries, faults, kills, visits>>
        /\ foreign' \subseteq foreign
    BY <1>4 DEF OtherEnds
  <2>2. TypeOK'
    BY <2>1 DEF TypeOK, Up, Active
  <2> QED BY <2>1, <2>2
<1>5. CASE Terminate
  <2>1. /\ UNCHANGED <<server, foreign, pidFile, lastPid, logged, configured, data, overlapped,
                       script, entry, retries, faults, kills, visits>>
        /\ term' = TRUE /\ Up
    BY <1>5 DEF Terminate
  <2>2. TypeOK'
    BY <2>1 DEF TypeOK, Up
  <2> QED BY <2>1, <2>2
<1>6. CASE Kill
  <2>1. Ended("down") /\ kills' = kills + 1 /\ faults + kills + visits < MaxUpsets
        /\ UNCHANGED <<pidFile, configured, faults, visits>>
    BY <1>6 DEF Kill, Quiet
  <2>2. {faults', kills', visits'} \subseteq Nat /\ faults' + kills' + visits' \in 0..MaxUpsets
    BY <1>1, <2>1
  <2> QED BY <2>1, <2>2, EndOfContainer
<1>7. CASE Visit
  <2>1. /\ UNCHANGED <<server, foreign, pidFile, lastPid, logged, configured, data, overlapped,
                       entry, term, retries, faults, kills>>
        /\ Up /\ visits' = visits + 1 /\ faults + kills + visits < MaxUpsets /\ ~Active("visitor")
        /\ \E first \in {"findRunning", "findPid"} : script' = [script EXCEPT !["visitor"] = first]
    BY <1>7 DEF Visit, Quiet, Goto
  <2>2. visits' \in Nat /\ faults + kills + visits' \in 0..MaxUpsets
    BY <1>1, <2>1
  <2>3. script' \in [Shells -> Scripts]
    BY <2>1 DEF TypeOK, Scripts, StartStates, StopStates
  <2>4. TypeOK'
    BY <2>1, <2>2, <2>3 DEF TypeOK, Up
  <2> QED BY <1>7, <2>1, <2>4
<1> QED BY <1>2, <1>3, <1>4, <1>5, <1>6, <1>7 DEF environment

LEMMA TypeStep ==
  ASSUME TypeOK, EntryInv, [Next]_vars
  PROVE  TypeOK'
<1>1. ASSUME NEW s \in Shells, Step(s)
      PROVE  TypeOK'
  <2>1. Up' /\ foreign' \subseteq Pids
    BY <1>1, StepOfScript DEF Up, TypeOK
  <2> QED BY <1>1, <2>1, StepOfScript DEF TypeOK
<1>2. CASE entrypoint
  <2>1. faults + kills + visits \in 0..MaxUpsets /\ {faults, kills, visits} \subseteq Nat
    BY DEF TypeOK
  <2> QED BY <1>2, <2>1, StepOfEntrypoint, EndOfContainer
<1>3. ASSUME NEW p \in Pids, GetReady(p) \/ FailStart(p) \/ Stop(p) \/ ServerFault(p)
      PROVE  TypeOK'
  BY <1>3, StepOfServer DEF ServerStep
<1>4. CASE environment
  BY <1>4, StepOfEnvironment
<1>5. CASE UNCHANGED vars
  BY <1>5 DEF vars, processes, locals, saved, data, bounds, TypeOK, Up, Active
<1> QED BY <1>1, <1>2, <1>3, <1>4, <1>5 DEF Next

(***************************************************************************)
(* The entrypoint's place and its script                                   *)
(***************************************************************************)

LEMMA EntryStep ==
  ASSUME TypeOK, EntryInv, [Next]_vars
  PROVE  EntryInv'
<1>1. ASSUME NEW s \in Shells, Step(s)
      PROVE  EntryInv'
  <2>1. entry' = entry /\ Active(s) /\ \A t \in Shells \ {s} : script'[t] = script[t]
    BY <1>1, StepOfScript
  <2>2. CASE s # "entrypoint"
    BY <2>1, <2>2 DEF EntryInv, Shells
  <2>3. CASE s = "entrypoint"
    <3>1. /\ script[s] \in StartStates => script'[s] \in StartStates \cup {"succeeded", "failed"}
          /\ script[s] \in StopStates => script'[s] \in StopStates \cup {"succeeded", "failed"}
      BY <1>1, <2>3 DEF Step, findRunning, launch, writePid, awaitReady, findPid, kill, awaitEnd,
         removePid, Goto, Return, StartStates, StopStates, TypeOK
    <3>2. script[s] \in StartStates \cup StopStates
      BY <2>1 DEF Active
    <3>3. StartStates \cap (StopStates \cup {"succeeded", "failed", "none"}) = {}
          /\ StopStates \cap {"succeeded", "failed", "none"} = {}
      BY DEF StartStates, StopStates
    <3> QED BY <2>1, <2>3, <3>1, <3>2, <3>3 DEF EntryInv
  <2> QED BY <2>2, <2>3
<1>2. CASE entrypoint
  BY <1>2, StepOfEntrypoint, EndOfContainer DEF EntrypointMoves, EntryInv, StopStates, Up
<1>3. ASSUME NEW p \in Pids, GetReady(p) \/ FailStart(p) \/ Stop(p) \/ ServerFault(p)
      PROVE  EntryInv'
  BY <1>3, StepOfServer DEF ServerStep, serverAsIs, EntryInv
<1>4. CASE environment
  <2>1. ContainerStart =>
          entry' = "starting" /\ script'["entrypoint"] = "findRunning"
    BY DEF ContainerStart, Goto, TypeOK, Shells
  <2>2. Visit => script'["entrypoint"] = script["entrypoint"]
    BY DEF Visit, Goto, TypeOK, Shells
  <2> QED BY <1>4, <2>1, <2>2, StepOfEnvironment, EndOfContainer DEF EntryInv, StartStates
<1>5. CASE UNCHANGED vars
  BY <1>5 DEF vars, EntryInv
<1> QED BY <1>1, <1>2, <1>3, <1>4, <1>5 DEF Next

(***************************************************************************)
(* The servers                                                             *)
(***************************************************************************)

\* Where only one shell is at a script, or neither is about to write a pid, no
\* other script has a server in its hands that the pid file does not name.
LEMMA ServerStepOfScript ==
  ASSUME TypeOK, ServerInv, NEW s \in Shells, Step(s)
  PROVE  ServerInv'
<1> SUFFICES ASSUME ~overlapped'
             PROVE  ServerInv'
  BY DEF ServerInv
<1>1. /\ ~overlapped
      /\ (\A t \in Shells : script[t] \notin {"findRunning", "launch", "writePid"})
           \/ \E t \in Shells : ~Active(t)
  BY DEF Step
<1>2. Active(s) /\ \A t \in Shells \ {s} : script'[t] = script[t] /\ lastPid'[t] = lastPid[t]
  BY StepOfScript
<1>3. \A t \in Shells : script[t] \in {"findRunning", "launch", "writePid", "removePid", "kill",
                                       "awaitEnd"} => Active(t)
  BY DEF Active, StartStates, StopStates
<1>4. ASSUME script[s] \in {"findRunning", "launch", "writePid"}, NEW t \in Shells \ {s}
      PROVE  script[t] \notin {"launch", "removePid", "writePid", "kill", "awaitEnd"}
  BY <1>1, <1>2, <1>3, <1>4 DEF Shells
<1>5. ASSUME NEW t \in Shells \ {s}
      PROVE  script[t] # "writePid"
  BY <1>1, <1>2, <1>3, <1>5 DEF Shells
<1>6. /\ \A t \in Shells : /\ script[t] \in {"launch", "removePid"} => Servers = {}
                           /\ script[t] \in {"writePid", "kill", "awaitEnd"} => Servers \subseteq {lastPid[t]}
      /\ script[s] # "writePid" => Servers \subseteq {pidFile}
  BY <1>1, <1>5 DEF ServerInv
<1>7. Servers = {q \in Pids : server[q] # "dead"} /\ Servers' = {q \in Pids : server'[q] # "dead"}
  BY DEF Servers
<1>8. \A q \in Servers : Alive(q)
  BY DEF Servers, Alive
<1>9. Absent \notin Pids /\ script \in [Shells -> Scripts]
      /\ lastPid \in [Shells -> Pids \cup {Absent}]
  BY ControlAssumption DEF TypeOK
<1>10. ASSUME Servers' \subseteq Servers,
              script'[s] \in {"launch", "removePid"} => Servers' = {},
              script'[s] \in {"writePid", "kill", "awaitEnd"} => Servers' \subseteq {lastPid'[s]},
              script'[s] # "writePid" => Servers' \subseteq {pidFile'}
       PROVE  ServerInv'
  <2>1. ASSUME NEW t \in Shells
        PROVE  /\ script'[t] \in {"launch", "removePid"} => Servers' = {}
               /\ script'[t] \in {"writePid", "kill", "awaitEnd"} => Servers' \subseteq {lastPid'[t]}
    BY <1>2, <1>6, <1>10
  <2> QED BY <1>10, <2>1 DEF ServerInv
<1> USE DEF Goto, Return, processes, locals
<1>11. CASE findRunning(s)
  <2>1. /\ script[s] = "findRunning" /\ Servers' = Servers /\ pidFile' = pidFile
        /\ script'[s] \in {"none", "succeeded"} \/ (script'[s] = "launch" /\ ~Alive(pidFile))
    BY <1>7, <1>9, <1>11 DEF findRunning
  <2> QED BY <1>6, <1>8, <1>10, <2>1
<1>12. CASE launch(s)
  <2>1. PICK p \in Pids : server' = [server EXCEPT ![p] = "starting"]
                          /\ lastPid' = [lastPid EXCEPT ![s] = p]
    BY <1>12 DEF launch
  <2>2. script[s] = "launch" /\ script'[s] = "writePid" /\ lastPid'[s] = p
    BY <1>9, <1>12, <2>1 DEF launch
  <2>3. Servers = {}
    BY <1>6, <2>2
  <2>4. Servers' \subseteq {p}
    BY <1>7, <2>1, <2>3 DEF TypeOK
  <2>5. ASSUME NEW t \in Shells \ {s}
        PROVE  script'[t] \notin {"launch", "removePid", "writePid", "kill", "awaitEnd"}
    BY <1>2, <1>4, <2>2
  <2> QED BY <2>2, <2>4, <2>5 DEF ServerInv
<1>13. CASE writePid(s)
  <2>1. /\ script[s] = "writePid" /\ Servers' = Servers /\ pidFile' = lastPid[s]
        /\ script'[s] = "awaitReady"
    BY <1>7, <1>9, <1>13 DEF writePid
  <2> QED BY <1>6, <1>10, <2>1
<1>14. CASE awaitReady(s)
  <2>1. /\ script[s] = "awaitReady" /\ Servers' = Servers /\ pidFile' = pidFile
        /\ script'[s] \in {"none", "succeeded", "failed"}
    BY <1>7, <1>9, <1>14 DEF awaitReady
  <2> QED BY <1>6, <1>10, <2>1
<1>15. CASE findPid(s)
  <2>1. /\ script[s] = "findPid" /\ Servers' = Servers /\ pidFile' = pidFile
        /\ \/ script'[s] \in {"none", "succeeded"}
           \/ script'[s] \in {"kill", "awaitEnd"} /\ lastPid'[s] = pidFile
    BY <1>7, <1>9, <1>15 DEF findPid
  <2> QED BY <1>6, <1>10, <2>1
<1>16. CASE kill(s)
  <2>1. script[s] = "kill" /\ pidFile' = pidFile
    BY <1>16 DEF kill
  <2>2. Servers' \subseteq Servers
    <3>1. \/ UNCHANGED server
          \/ Alive(lastPid[s]) /\ \E force \in BOOLEAN : Signal(lastPid[s], force)
      BY <1>16 DEF kill
    <3>2. ASSUME NEW p \in Pids, Alive(p), NEW force \in BOOLEAN, Signal(p, force)
          PROVE  Servers' \subseteq Servers
      BY <1>7, <3>2 DEF Signal, Alive, TypeOK
    <3> QED BY <1>7, <3>1, <3>2 DEF Alive
  <2>3. \/ script'[s] = "awaitEnd" /\ lastPid'[s] = lastPid[s]
        \/ script'[s] \in {"none", "failed"}
    BY <1>9, <1>16 DEF kill
  <2> QED BY <1>6, <1>10, <2>1, <2>2, <2>3
<1>17. CASE awaitEnd(s)
  <2>1. /\ script[s] = "awaitEnd" /\ Servers' = Servers /\ pidFile' = pidFile
        /\ script'[s] = "removePid" /\ ~Alive(lastPid[s])
    BY <1>7, <1>9, <1>17 DEF awaitEnd
  <2> QED BY <1>6, <1>8, <1>10, <2>1
<1>18. CASE removePid(s)
  <2>1. /\ script[s] = "removePid" /\ Servers' = Servers
        /\ script'[s] \in {"none", "succeeded", "failed"}
    BY <1>7, <1>9, <1>18 DEF removePid
  <2> QED BY <1>6, <1>10, <2>1
<1> QED BY <1>11, <1>12, <1>13, <1>14, <1>15, <1>16, <1>17, <1>18 DEF Step

LEMMA ServerStepOfOthers ==
  ASSUME TypeOK, EntryInv, ServerInv,
         entrypoint \/ environment \/ UNCHANGED vars \/ \E p \in Pids : ServerStep(p)
  PROVE  ServerInv'
<1>1. ASSUME Servers' \subseteq Servers, overlapped' = overlapped, pidFile' = pidFile,
             lastPid' = lastPid,
             \A s \in Shells : \/ script'[s] = script[s]
                               \/ /\ script[s] # "writePid"
                                  /\ script'[s] \notin {"launch", "removePid", "writePid", "kill",
                                                       "awaitEnd"}
      PROVE  ServerInv'
  BY <1>1 DEF ServerInv
<1>2. ASSUME Servers' = {}
      PROVE  ServerInv'
  BY <1>2 DEF ServerInv
<1>3. ASSUME server' = server
      PROVE  Servers' = Servers
  BY <1>3 DEF Servers
<1>4. CASE entrypoint
  <2>1. CASE \E state \in {"down", "exited"} : Ended(state)
    BY <1>2, <2>1, EndOfContainer
  <2>2. CASE EntrypointMoves
    BY <1>1, <1>3, <2>2 DEF EntrypointMoves, Shells, StartStates
  <2> QED BY <1>4, <2>1, <2>2, StepOfEntrypoint
<1>5. CASE environment
  <2>1. CASE Ended("down")
    BY <1>2, <2>1, EndOfContainer
  <2>2. CASE ContainerStart
    <3>1. /\ Servers = {} /\ UNCHANGED <<pidFile, lastPid, overlapped>> /\ server' = server
      BY <2>2 DEF ContainerStart, TypeOK, NoProcess, Servers, processes, locals, saved
    <3> QED BY <1>2, <1>3, <3>1
  <2>3. CASE Visit
    <3>1. /\ UNCHANGED <<server, pidFile, lastPid, overlapped>> /\ ~Active("visitor")
          /\ script'["entrypoint"] = script["entrypoint"]
          /\ script'["visitor"] \in {"findRunning", "findPid"}
      BY <2>3 DEF Visit, Goto, TypeOK, processes, locals, saved, Shells
    <3>2. script["visitor"] # "writePid"
      BY <3>1 DEF Active, StartStates
    <3> QED BY <1>1, <1>3, <3>1, <3>2 DEF Shells
  <2>4. CASE UNCHANGED <<server, pidFile, lastPid, overlapped, script>>
    BY <1>1, <1>3, <2>4
  <2> QED BY <1>5, <2>1, <2>2, <2>3, <2>4, StepOfEnvironment
<1>6. ASSUME NEW p \in Pids, ServerStep(p)
      PROVE  ServerInv'
  BY <1>1, <1>6, StepOfServer DEF serverAsIs
<1>7. CASE UNCHANGED vars
  BY <1>1, <1>3, <1>7 DEF vars, processes, locals, saved
<1> QED BY <1>4, <1>5, <1>6, <1>7

(***************************************************************************)
(* The administrator's account                                             *)
(***************************************************************************)

\* Faults and visits are counted for good.
LEMMA CalmBefore ==
  ASSUME TypeOK, EntryInv, [Next]_vars, Calm'
  PROVE  Calm
<1>1. faults \in Nat /\ visits \in Nat
  BY DEF TypeOK
<1>2. ASSUME NEW s \in Shells, Step(s)
      PROVE  UNCHANGED <<faults, visits>>
  BY <1>2, StepOfScript
<1>3. CASE entrypoint
  BY <1>3, StepOfEntrypoint DEF EntrypointMoves, Calm
<1>4. ASSUME NEW p \in Pids, GetReady(p) \/ FailStart(p) \/ Stop(p) \/ ServerFault(p)
      PROVE  Calm
  BY <1>1, <1>4 DEF GetReady, FailStart, Stop, ServerFault, serverAsIs, Calm
<1>5. CASE environment
  BY <1>1, <1>5 DEF environment, ContainerStart, ReusePid, OtherEnds, Terminate, Kill, Visit,
     bounds, Calm
<1>6. CASE UNCHANGED vars
  BY <1>6 DEF vars, bounds, Calm
<1> QED BY <1>2, <1>3, <1>4, <1>5, <1>6 DEF Next, Calm

\* A server that is ready or mute is one.
LEMMA ServingServer == Serving <=> \E p \in Servers : server[p] \in {"ready", "mute"}
  BY DEF Servers, Serving

\* The scripts: only the entrypoint runs any; it starts its server alone, and its
\* signal cuts nothing off.
LEMMA AdminStepOfScript ==
  ASSUME TypeOK, EntryInv, ServerInv, AdminInv, Calm, NEW s \in Shells, Step(s)
  PROVE  AdminInv'
<1> DEFINE e == "entrypoint"
           NoneStarting == \A p \in Pids : server[p] # "starting"
<1>1. /\ ~overlapped /\ foreign = {} /\ script["visitor"] = "none"
      /\ StartInv /\ EndInv /\ ServingInv /\ AccountInv
  BY DEF AdminInv
<1>2. s = e /\ Active(e)
  BY <1>1, StepOfScript DEF Active, Shells, StartStates, StopStates
<1>3. /\ UNCHANGED <<entry, configured, kills>> /\ Up /\ Up' /\ foreign' = {}
      /\ script'["visitor"] = "none"
  BY <1>1, <1>2, StepOfScript DEF Shells, Up
<1>4. ~overlapped'
  <2>1. ~Active("visitor") /\ "visitor" \in Shells
    BY <1>1 DEF Active, Shells, StartStates, StopStates
  <2> QED BY <1>1, <2>1 DEF Step
<1>5. /\ entry \notin Later
      /\ script[e] \in StartStates => entry = "starting"
      /\ script[e] \in StopStates => entry \in {"cleaning", "givingUp"} /\ NoneStarting
  <2>1. entry \notin Later
    BY <1>2 DEF EntryInv, Active, StartStates, StopStates, Later
  <2>2. entry \in {"starting", "cleaning", "givingUp"}
    BY <1>3, <2>1 DEF TypeOK, EntryStates, Up, Later
  <2>3. StartStates \cap StopStates = {} /\ {"succeeded", "failed"} \cap (StartStates \cup StopStates) = {}
    BY DEF StartStates, StopStates
  <2> QED BY <1>1, <2>1, <2>2, <2>3 DEF EntryInv, EndInv
<1>6. /\ e \in Shells /\ script \in [Shells -> Scripts] /\ logged \in [Shells -> BOOLEAN]
      /\ lastPid \in [Shells -> Pids \cup {Absent}] /\ server \in [Pids -> ServerStates]
      /\ Absent \notin Pids
  BY ControlAssumption DEF TypeOK, Shells
<1>7. Servers = {q \in Pids : server[q] # "dead"} /\ Servers' = {q \in Pids : server'[q] # "dead"}
  BY DEF Servers
<1>8. ASSUME Serving' => Serving, account' \in {account, Defaults}
      PROVE  AccountInv'
  BY <1>1, <1>3, <1>5, <1>8, CutData DEF AccountInv, Later
<1>9. ASSUME server' = server, UNCHANGED data
      PROVE  AccountInv' /\ (NoneStarting' <=> NoneStarting) /\ Servers' = Servers
             /\ (Serving' <=> Serving)
  BY <1>7, <1>8, <1>9 DEF Serving, data
<1>10. ASSUME AccountInv', script[e] \in StartStates, StartInv',
              script'[e] = "failed" => Servers' = {},
              script'[e] = "succeeded" => Serving' /\ NoneStarting'
       PROVE  AdminInv'
  <2>1. EndInv' /\ ServingInv'
    BY <1>3, <1>5, <1>10 DEF EndInv, ServingInv, Later
  <2> QED BY <1>1, <1>3, <1>4, <1>10, <2>1 DEF AdminInv
<1>11. ASSUME AccountInv', script[e] \in StopStates,
              script'[e] \in {"kill", "awaitEnd", "removePid", "succeeded", "failed"},
              script'[e] \in {"succeeded", "failed"} => Servers' = {}, NoneStarting'
       PROVE  AdminInv'
  <2>1. StartInv'
    BY <1>3, <1>11 DEF StartInv
  <2>2. EndInv' /\ ServingInv'
    BY <1>3, <1>5, <1>11 DEF EndInv, ServingInv, Later
  <2> QED BY <1>1, <1>3, <1>4, <1>11, <2>1, <2>2 DEF AdminInv
<1>12. /\ {"findRunning", "launch", "writePid", "awaitReady"} = StartStates
       /\ {"findPid", "kill", "awaitEnd", "removePid"} = StopStates
  BY DEF StartStates, StopStates
<1>13. /\ script[e] = "removePid" => Servers = {}
       /\ script[e] \in {"kill", "awaitEnd"} => Servers \subseteq {lastPid[e]}
       /\ script[e] = "findPid" => Servers \subseteq {pidFile}
  <2>1. script[e] = "findPid" => \A t \in Shells : script[t] # "writePid"
    BY <1>1 DEF Shells
  <2> QED BY <1>1, <1>6, <2>1 DEF ServerInv
<1> HIDE DEF e, NoneStarting
<1> USE <1>2 DEF Goto, Return, processes, locals
<1>14. CASE findRunning(e)
  <2>1. script[e] = "findRunning" /\ Servers = {} /\ ~logged[e]
    BY <1>1, <1>14 DEF findRunning, StartInv, e
  <2>2. ~Alive(pidFile)
    BY <1>1, <2>1 DEF Alive, Servers
  <2>3. script'[e] = "launch" /\ logged' = logged /\ server' = server /\ UNCHANGED data
    BY <1>6, <1>14, <2>2 DEF findRunning
  <2>4. StartInv'
    BY <1>3, <1>6, <1>9, <2>1, <2>3 DEF StartInv, e
  <2> QED BY <1>9, <1>10, <1>12, <2>1, <2>3, <2>4
<1>15. CASE launch(e)
  <2>1. script[e] = "launch" /\ Servers = {} /\ ~logged[e]
    BY <1>1, <1>15 DEF launch, StartInv, e
  <2>2. PICK p \in Pids : server' = [server EXCEPT ![p] = "starting"]
                          /\ lastPid' = [lastPid EXCEPT ![e] = p]
    BY <1>15 DEF launch
  <2>3. script'[e] = "writePid" /\ logged' = logged /\ lastPid'[e] = p /\ UNCHANGED data
    BY <1>6, <1>15, <2>2 DEF launch
  <2>4. Servers' = {p} /\ server'[p] = "starting"
    BY <1>6, <1>7, <2>1, <2>2
  <2>5. StartInv'
    BY <1>3, <1>6, <2>1, <2>3, <2>4 DEF StartInv, e
  <2>6. ~Serving'
    BY <1>7, <2>4 DEF Serving
  <2>7. AccountInv'
    BY <1>8, <2>3, <2>6 DEF data
  <2> QED BY <1>10, <1>12, <2>1, <2>3, <2>5, <2>7
<1>16. CASE writePid(e)
  <2>1. script[e] = "writePid" /\ script'[e] = "awaitReady"
        /\ UNCHANGED <<server, lastPid, logged>> /\ UNCHANGED data
    BY <1>6, <1>16 DEF writePid
  <2>2. StartInv'
    BY <1>1, <1>3, <1>6, <1>9, <2>1 DEF StartInv, e
  <2> QED BY <1>9, <1>10, <1>12, <2>1, <2>2
<1>17. CASE awaitReady(e)
  <2>1. /\ script[e] = "awaitReady" /\ server' = server /\ UNCHANGED data
        /\ \/ script'[e] = "failed" /\ ~Alive(lastPid[e])
           \/ script'[e] = "succeeded" /\ Alive(lastPid[e]) /\ logged[e]
    BY <1>6, <1>17 DEF awaitReady, e
  <2>2. Servers \subseteq {lastPid[e]} /\ \A p \in Servers : logged[e] => server[p] = "ready"
    BY <1>1, <2>1 DEF StartInv, e
  <2>3. StartInv'
    BY <1>3, <2>1 DEF StartInv, e
  <2>4. CASE script'[e] = "failed"
    <3>1. Servers = {}
      BY <2>1, <2>2, <2>4 DEF Servers, Alive
    <3> QED BY <1>9, <1>10, <1>12, <2>1, <2>3, <2>4, <3>1
  <2>5. CASE script'[e] = "succeeded"
    <3>1. lastPid[e] \in Servers /\ server[lastPid[e]] = "ready"
      BY <1>1, <2>1, <2>2, <2>5 DEF Servers, Alive
    <3>2. Serving
      BY <3>1, ServingServer
    <3>3. NoneStarting
      BY <1>7, <2>2, <3>1 DEF NoneStarting
    <3> QED BY <1>9, <1>10, <1>12, <2>1, <2>3, <2>5, <3>2, <3>3
  <2> QED BY <2>1, <2>4, <2>5
<1>18. CASE findPid(e)
  <2>1. /\ script[e] = "findPid" /\ server' = server /\ UNCHANGED data
        /\ \/ script'[e] = "succeeded" /\ pidFile = Absent
           \/ script'[e] \in {"kill", "awaitEnd"}
    BY <1>6, <1>18 DEF findPid, e
  <2>2. script'[e] = "succeeded" => Servers = {}
    BY <1>6, <1>7, <1>13, <2>1
  <2> QED BY <1>5, <1>9, <1>11, <1>12, <2>1, <2>2
<1>19. CASE kill(e)
  <2>1. /\ script[e] = "kill"
        /\ \/ /\ Alive(lastPid[e]) /\ script'[e] = "awaitEnd"
              /\ \E force \in BOOLEAN : (force => e = "visitor") /\ Signal(lastPid[e], force)
           \/ /\ ~Alive(lastPid[e]) /\ script'[e] = "failed" /\ server' = server /\ UNCHANGED data
    BY <1>6, <1>19 DEF kill, e
  <2>2. CASE ~Alive(lastPid[e]) /\ script'[e] = "failed" /\ server' = server /\ UNCHANGED data
    <3>1. Servers = {}
      BY <1>7, <1>13, <2>1, <2>2 DEF Alive
    <3> QED BY <1>5, <1>9, <1>11, <1>12, <2>1, <2>2, <3>1
  <2>3. CASE /\ Alive(lastPid[e]) /\ script'[e] = "awaitEnd"
             /\ \E force \in BOOLEAN : (force => e = "visitor") /\ Signal(lastPid[e], force)
    <3>1. NoneStarting /\ lastPid[e] \in Pids /\ Signal(lastPid[e], FALSE)
      BY <1>5, <1>12, <2>1, <2>3 DEF Alive, e
    <3>2. /\ server' = [server EXCEPT ![lastPid[e]] = "ending"]
          /\ account' = Defaults
      BY <1>1, <3>1 DEF Signal, NoneStarting
    <3>3. NoneStarting'
      BY <1>6, <3>1, <3>2 DEF NoneStarting
    <3>4. Serving' => Serving
      BY <1>6, <3>1, <3>2 DEF Serving
    <3>5. AccountInv'
      BY <1>8, <3>2, <3>4
    <3> QED BY <1>11, <1>12, <2>1, <2>3, <3>3, <3>5
  <2> QED BY <2>1, <2>2, <2>3
<1>20. CASE awaitEnd(e)
  <2>1. /\ script[e] = "awaitEnd" /\ script'[e] = "removePid" /\ server' = server /\ UNCHANGED data
    BY <1>6, <1>20 DEF awaitEnd
  <2> QED BY <1>5, <1>9, <1>11, <1>12, <2>1
<1>21. CASE removePid(e)
  <2>1. /\ script[e] = "removePid" /\ script'[e] \in {"succeeded", "failed"}
        /\ server' = server /\ UNCHANGED data
    BY <1>6, <1>21 DEF removePid, e
  <2> QED BY <1>5, <1>9, <1>11, <1>12, <1>13, <2>1
<1> QED BY <1>14, <1>15, <1>16, <1>17, <1>18, <1>19, <1>20, <1>21 DEF Step, e

\* The entrypoint makes the account while a server is there to make it, and ends
\* the container when none is there.
LEMMA AdminStepOfEntrypoint ==
  ASSUME TypeOK, EntryInv, AdminInv, Calm, entrypoint
  PROVE  AdminInv'
<1> DEFINE e == "entrypoint"
<1>1. /\ ~overlapped /\ foreign = {} /\ script["visitor"] = "none"
      /\ StartInv /\ EndInv /\ ServingInv /\ AccountInv
  BY DEF AdminInv
<1>2. ASSUME NEW state \in {"down", "exited"}, Ended(state),
             UNCHANGED <<pidFile, configured, faults, kills, visits>>
      PROVE  AdminInv'
  <2>1. /\ entry' = state /\ foreign' = {} /\ ~overlapped' /\ Servers' = {} /\ ~Up'
        /\ script'[e] = "none" /\ script'["visitor"] = "none" /\ ~logged'[e]
        /\ Servers = {} => UNCHANGED data
    BY <1>2, EndOfContainer DEF Shells
  <2>2. Servers = {}
    <3>1. Started \/ Stopped
      BY <1>2, <2>1 DEF entrypoint, Poll, addAccount, updateAccount, touchConfigured, Rest,
         Proceed, cleanup
    <3>2. Started => entry = "starting" /\ script[e] = "failed"
      BY <1>2, <2>1 DEF Started, Proceed, cleanup
    <3>3. Stopped => entry \in {"cleaning", "givingUp"} /\ script[e] \in {"succeeded", "failed"}
      BY DEF Stopped
    <3> QED BY <1>1, <3>1, <3>2, <3>3 DEF EndInv
  <2>3. StartInv' /\ EndInv' /\ ServingInv'
    BY <1>2, <2>1 DEF StartInv, EndInv, ServingInv, Later
  <2>4. ~Serving' /\ account' = account
    BY <2>1, <2>2 DEF Servers, Serving, data
  <2>5. AccountInv'
    BY <1>1, <1>2, <2>1, <2>4 DEF AccountInv
  <2> QED BY <2>1, <2>3, <2>5 DEF AdminInv
<1>3. CASE EntrypointMoves
  <2>1. /\ UNCHANGED <<server, foreign, lastPid, logged, kills, overlapped>> /\ Up'
        /\ script[e] \notin StartStates \cup StopStates
        /\ script'["visitor"] = "none" /\ script'[e] \in {"none", "findPid"}
        /\ \/ entry' \in Later /\ script'[e] = "none"
           \/ entry' \in {"cleaning", "givingUp"} /\ script'[e] = "findPid"
    BY <1>1, <1>3 DEF EntrypointMoves, Later
  <2>2. StartInv'
    BY <2>1 DEF StartInv
  <2>3. (Serving' <=> Serving) /\ Servers' = Servers
    BY <2>1 DEF Serving, Servers
  <2>4. /\ entry \in Later \/ (entry = "starting" /\ script[e] \in {"succeeded", "failed"})
        /\ entry' \in Later => entry \in Later \/ (entry = "starting" /\ script[e] = "succeeded")
    <3>1. ~Stopped
      BY <2>1 DEF Stopped, Ended, Later
    <3>2. ~Ended("exited")
      BY <2>1 DEF Ended, Later
    <3>3. CASE Started
      BY <3>2, <3>3 DEF Started, cleanup, Later
    <3>4. ~Started => entry \in Later
      BY <3>1 DEF entrypoint, Poll, addAccount, updateAccount, touchConfigured, Rest, Later
    <3> QED BY <3>3, <3>4
  <2>5. \A p \in Pids : server[p] # "starting"
    BY <1>1, <2>4 DEF EndInv, Servers
  <2>6. EndInv' /\ ServingInv'
    BY <1>1, <2>1, <2>3, <2>4, <2>5 DEF EndInv, ServingInv, Later
  <2>7. \/ account' = account
        \/ addAccount /\ account = "none" /\ account' = "added"
        \/ updateAccount /\ account = "added" /\ account' = "root"
    BY <1>3 DEF EntrypointMoves, entrypoint, Started, Poll, addAccount, updateAccount,
       touchConfigured, Rest, Stopped, Ended, saved, data, Up
  <2>8. entry' = "updating" => account' \notin {"absent", "none"}
    <3>1. entry' = "updating" => addAccount
      BY <2>1 DEF entrypoint, Started, Poll, addAccount, updateAccount, touchConfigured, Rest,
         Stopped, Ended, Proceed, cleanup
    <3>2. addAccount => Serving /\ account' = IF account = "none" THEN "added" ELSE account
      BY <1>1 DEF addAccount, ServingInv, Later
    <3> QED BY <1>1, <3>1, <3>2 DEF AccountInv
  <2>9. entry' = "marking" => account' \in {"root", "lost"}
    <3>1. entry' = "marking" => updateAccount
      BY <2>1 DEF entrypoint, Started, Poll, addAccount, updateAccount, touchConfigured, Rest,
         Stopped, Ended, Proceed, cleanup
    <3>2. updateAccount => /\ Serving /\ account \notin {"absent", "none"}
                           /\ account' = IF account = "added" THEN "root" ELSE account
      BY <1>1 DEF updateAccount, ServingInv, AccountInv, Later
    <3>3. account \in Accounts
      BY DEF TypeOK
    <3> QED BY <3>1, <3>2, <3>3 DEF Accounts
  <2>10. configured' => account' \in {"root", "lost"}
    <3>1. configured' => configured \/ entry = "marking"
      BY <2>1 DEF entrypoint, Started, Poll, addAccount, updateAccount, touchConfigured, Rest,
         Stopped, saved
    <3>2. configured' => account \in {"root", "lost"}
      BY <1>1, <3>1 DEF AccountInv
    <3> QED BY <2>7, <3>2
  <2>11. AccountInv'
    BY <1>1, <2>1, <2>3, <2>7, <2>8, <2>9, <2>10 DEF AccountInv
  <2> QED BY <1>1, <2>1, <2>2, <2>6, <2>11 DEF AdminInv
<1> QED BY <1>2, <1>3, StepOfEntrypoint

\* The entrypoint's server gets ready, or ends, and goes on to serve.
LEMMA AdminStepOfServer ==
  ASSUME TypeOK, AdminInv, Calm, Calm', NEW p \in Pids, ServerStep(p)
  PROVE  AdminInv'
<1> DEFINE e == "entrypoint"
<1>1. /\ ~overlapped /\ foreign = {} /\ script["visitor"] = "none"
      /\ StartInv /\ EndInv /\ ServingInv /\ AccountInv
  BY DEF AdminInv
<1>2. /\ UNCHANGED <<foreign, lastPid, script, entry, configured, kills, overlapped>>
      /\ server \in [Pids -> ServerStates] /\ p \in Servers /\ Up /\ Up' /\ Servers' \subseteq Servers
  <2>1. /\ UNCHANGED <<foreign, lastPid, script, entry, configured, kills, overlapped>>
        /\ Servers' \subseteq Servers
    BY StepOfServer DEF serverAsIs
  <2>2. p \in Servers
    BY DEF ServerStep, GetReady, FailStart, Stop, ServerFault, Servers
  <2>3. Up
    BY <2>2 DEF TypeOK, NoProcess, Servers
  <2> QED BY <2>1, <2>2, <2>3 DEF TypeOK, Up
<1>3. GetReady(p) \/ FailStart(p) \/ Stop(p)
  <2>1. ~ServerFault(p)
    BY DEF ServerFault, Calm, TypeOK
  <2> QED BY <2>1 DEF ServerStep
<1>4. PICK state \in {"ready", "mute", "dead"} :
        /\ server' = [server EXCEPT ![p] = state]
        /\ state \in {"ready", "mute"} => GetReady(p)
        /\ state = "mute" => logged' = logged
        /\ state = "dead" => logged' = logged
  BY <1>3 DEF GetReady, FailStart, Stop
<1>5. /\ server[p] \notin {"ready", "mute"}
      /\ GetReady(p) => server[p] = "starting"
      /\ server[p] = "ending" => Stop(p)
  BY <1>3 DEF GetReady, FailStart, Stop
<1>6. \A q \in Pids : /\ server[q] \in {"ready", "mute"} => server'[q] = server[q]
                      /\ server'[q] = "starting" => server[q] = "starting"
  BY <1>2, <1>4, <1>5
<1>7. Serving => Serving'
  BY <1>6 DEF Serving
<1>8. EndInv' /\ ServingInv'
  BY <1>1, <1>2, <1>6, <1>7 DEF EndInv, ServingInv
<1>9. StartInv'
  <2>1. script[e] \notin {"findRunning", "launch"}
    BY <1>1, <1>2 DEF StartInv
  <2>2. ASSUME script[e] \in {"writePid", "awaitReady"}, NEW q \in Servers'
        PROVE  /\ q = lastPid[e]
               /\ server'[q] \in {"starting", "ready", "mute"}
               /\ logged'[e] => server'[q] = "ready"
    <3>1. p = lastPid[e] /\ q = p /\ server[p] \in {"starting", "ready", "mute"}
          /\ (logged[e] => server[p] = "ready")
      BY <1>1, <1>2, <2>2 DEF StartInv
    <3>2. server'[p] = state /\ state # "dead"
      BY <1>2, <1>4, <2>2, <3>1 DEF Servers
    <3>3. ~logged[e]
      BY <1>5, <3>1
    <3> QED BY <1>4, <3>1, <3>2, <3>3
  <2> QED BY <1>2, <2>1, <2>2 DEF StartInv
<1>10. AccountInv'
  <2>1. CASE GetReady(p) \/ FailStart(p)
    <3>1. account' = Defaults
      BY <2>1 DEF GetReady, FailStart
    <3> QED BY <1>1, <1>2, <3>1, CutData DEF AccountInv
  <2>2. CASE Stop(p)
    <3>1. account' = account /\ server' = [server EXCEPT ![p] = "dead"]
      BY <2>2 DEF Stop, data
    <3>2. Serving' => Serving
      BY <1>2, <3>1 DEF Serving
    <3> QED BY <1>1, <1>2, <3>1, <3>2 DEF AccountInv
  <2> QED BY <1>3, <2>1, <2>2
<1> QED BY <1>1, <1>2, <1>8, <1>9, <1>10 DEF AdminInv

\* A container starts without a server, and nobody enters it; only a kill of it
\* can cut a file off.
LEMMA AdminStepOfEnvironment ==
  ASSUME TypeOK, AdminInv, Calm, Calm', environment
  PROVE  AdminInv'
<1>1. /\ ~overlapped /\ foreign = {} /\ script["visitor"] = "none"
      /\ StartInv /\ EndInv /\ ServingInv /\ AccountInv
  BY DEF AdminInv
<1>2. CASE Ended("down") /\ UNCHANGED configured /\ kills' = kills + 1
  <2>1. /\ entry' = "down" /\ foreign' = {} /\ ~overlapped' /\ Servers' = {}
        /\ script'["entrypoint"] = "none" /\ script'["visitor"] = "none" /\ ~logged'["entrypoint"]
        /\ account' \in {account, "none", "lost"}
        /\ account' = "none" => account \in {"absent", "none"}
    BY <1>2, EndOfContainer DEF Shells
  <2>2. StartInv' /\ EndInv' /\ ServingInv'
    BY <2>1 DEF StartInv, EndInv, ServingInv, Later
  <2>3. kills' > 0
    BY <1>2 DEF TypeOK
  <2>4. ~Serving'
    BY <2>1 DEF Serving, Servers
  <2>5. AccountInv'
    BY <1>1, <1>2, <2>1, <2>3, <2>4 DEF AccountInv
  <2> QED BY <2>1, <2>2, <2>5 DEF AdminInv
<1>3. CASE ContainerStart
  <2>1. /\ ~Up /\ entry' = "starting" /\ script'["entrypoint"] = "findRunning"
        /\ script'["visitor"] = "none"
        /\ UNCHANGED <<server, foreign, lastPid, logged, configured, account, kills, overlapped>>
    BY <1>1, <1>3 DEF ContainerStart, Goto, TypeOK, Shells, processes, locals, saved, data, bounds
  <2>2. Servers' = {} /\ ~Serving'
    BY <2>1 DEF TypeOK, NoProcess, Servers, Serving
  <2>3. StartInv'
    BY <1>1, <2>1, <2>2 DEF StartInv
  <2>4. EndInv' /\ ServingInv' /\ AccountInv'
    BY <1>1, <2>1, <2>2 DEF EndInv, ServingInv, AccountInv, Later
  <2> QED BY <1>1, <2>1, <2>3, <2>4 DEF AdminInv
<1>4. ~Visit
  BY DEF Visit, Calm, TypeOK
<1>5. CASE /\ UNCHANGED <<server, lastPid, logged, configured, data, kills, overlapped, script,
                          entry>>
           /\ foreign' \subseteq foreign \/ faults' # 0
  <2>1. foreign' = {}
    BY <1>1, <1>5 DEF Calm
  <2>2. Servers' = Servers /\ (Serving' <=> Serving) /\ account' = account
    BY <1>5 DEF Servers, Serving, data
  <2>3. StartInv' /\ EndInv' /\ ServingInv'
    BY <1>1, <1>5, <2>2 DEF StartInv, EndInv, ServingInv, Up
  <2>4. AccountInv'
    BY <1>1, <1>5, <2>2 DEF AccountInv
  <2> QED BY <1>1, <1>5, <2>1, <2>3, <2>4 DEF AdminInv
<1> QED BY <1>2, <1>3, <1>4, <1>5, StepOfEnvironment

LEMMA AdminStep ==
  ASSUME TypeOK, EntryInv, ServerInv, AdminInv, [Next]_vars
  PROVE  AdminInv'
<1> SUFFICES ASSUME Calm'
             PROVE  AdminInv'
  BY DEF AdminInv
<1>1. Calm
  BY CalmBefore
<1>2. ASSUME NEW s \in Shells, Step(s)
      PROVE  AdminInv'
  BY <1>1, <1>2, AdminStepOfScript
<1>3. CASE entrypoint
  BY <1>1, <1>3, AdminStepOfEntrypoint
<1>4. ASSUME NEW p \in Pids, GetReady(p) \/ FailStart(p) \/ Stop(p) \/ ServerFault(p)
      PROVE  AdminInv'
  BY <1>1, <1>4, AdminStepOfServer DEF ServerStep
<1>5. CASE environment
  BY <1>1, <1>5, AdminStepOfEnvironment
<1>6. CASE UNCHANGED vars
  <2>1. UNCHANGED <<server, foreign, lastPid, logged, script, entry, configured, account, kills,
                    overlapped, faults, visits>>
    BY <1>6 DEF vars, processes, locals, saved, data, bounds
  <2>2. Servers' = Servers /\ (Serving' <=> Serving) /\ (Up' <=> Up) /\ (Calm' <=> Calm)
    BY <2>1 DEF Servers, Serving, Up, Calm
  <2>3. (StartInv <=> StartInv') /\ (EndInv <=> EndInv') /\ (ServingInv <=> ServingInv')
    BY <2>1, <2>2 DEF StartInv, EndInv, ServingInv
  <2>4. AccountInv <=> AccountInv'
    BY <2>1, <2>2 DEF AccountInv
  <2> QED BY <2>1, <2>2, <2>3, <2>4 DEF AdminInv
<1> QED BY <1>2, <1>3, <1>4, <1>5, <1>6 DEF Next

(***************************************************************************)
(* The theorems                                                            *)
(***************************************************************************)

LEMMA InitInv == Init => IInv
<1> SUFFICES ASSUME Init PROVE IInv
  OBVIOUS
<1>1. TypeOK
  <2>1. server \in [Pids -> ServerStates]
    BY DEF Init, NoProcess, ServerStates
  <2>2. /\ script \in [Shells -> Scripts] /\ lastPid \in [Shells -> Pids \cup {Absent}]
        /\ logged \in [Shells -> BOOLEAN]
    BY DEF Init, Scripts
  <2>3. ~\E s \in Shells : Active(s)
    BY DEF Init, Active, StartStates, StopStates
  <2>4. /\ faults \in Nat /\ kills \in Nat /\ visits \in Nat /\ retries \in 0..MaxRetries
        /\ faults + kills + visits \in 0..MaxUpsets
    BY ControlAssumption DEF Init
  <2>5. /\ foreign \subseteq Pids /\ pidFile \in Pids \cup {Absent} /\ entry \in EntryStates
        /\ term \in BOOLEAN /\ configured \in BOOLEAN /\ account \in Accounts
        /\ settings \in {"whole", "lost"} /\ overlapped \in BOOLEAN
    BY DEF Init, EntryStates, Accounts
  <2>6. server = NoProcess /\ foreign = {} /\ ~term
    BY DEF Init
  <2> QED BY <2>1, <2>2, <2>3, <2>4, <2>5, <2>6 DEF TypeOK
<1>2. EntryInv
  BY DEF Init, EntryInv
<1>3. ServerInv
  BY DEF Init, ServerInv, Servers, NoProcess
<1>4. AdminInv
  <2>1. ~Serving /\ Servers = {}
    BY DEF Init, Serving, Servers, NoProcess
  <2> QED BY <2>1 DEF Init, AdminInv, StartInv, EndInv, ServingInv, AccountInv, Later, Shells
<1> QED BY <1>1, <1>2, <1>3, <1>4 DEF IInv

THEOREM Inductive == Spec => []IInv
<1>1. Init => IInv
  BY InitInv
<1>2. IInv /\ [Next]_vars => IInv'
  <2> SUFFICES ASSUME IInv, [Next]_vars
               PROVE  IInv'
    OBVIOUS
  <2>1. ServerInv'
    BY ServerStepOfScript, ServerStepOfOthers DEF IInv, Next, ServerStep
  <2> QED BY <2>1, TypeStep, EntryStep, AdminStep DEF IInv
<1> QED BY <1>1, <1>2, PTL DEF Spec

\* Every variable is in range, and without a container nothing runs: no server,
\* no script and no signal is left.
THEOREM ControlTypeCorrect == Spec => []TypeOK
<1>1. IInv => TypeOK
  BY DEF IInv
<1> QED BY <1>1, Inductive, PTL

\* As long as no start met another script there is one server at most, and the
\* pid file or the start that launched it names it.
THEOREM ServerCanBeFound == Spec => []OneServerNamed
<1>1. ASSUME IInv, ~overlapped
      PROVE  /\ Cardinality(Servers) <= 1
             /\ \A p \in Servers :
                  pidFile = p \/ \E s \in Shells : script[s] = "writePid" /\ lastPid[s] = p
  <2>1. PICK name : Servers \subseteq {name}
    BY <1>1 DEF IInv, ServerInv
  <2>2. Cardinality(Servers) <= 1
    <3>1. IsFiniteSet({name}) /\ Cardinality({name}) = 1
      BY FS_Singleton
    <3> QED BY <2>1, <3>1, FS_Subset
  <2>3. ASSUME NEW p \in Servers
        PROVE  pidFile = p \/ \E s \in Shells : script[s] = "writePid" /\ lastPid[s] = p
    BY <1>1 DEF IInv, ServerInv
  <2> QED BY <2>2, <2>3
<1>2. IInv => OneServerNamed
  BY <1>1 DEF OneServerNamed
<1> QED BY <1>2, Inductive, PTL

\* As long as nobody meddled and no server crashed, the marker .configured is not
\* wrong by any order of stops, kills and starts alone: the administrator is a
\* member of root, or a kill has cut users.json off, and nobody is a user.
THEOREM MarkerIsTrue == Spec => []AdminIfConfigured
<1>1. IInv => AdminIfConfigured
  BY DEF IInv, AdminInv, AccountInv, AdminIfConfigured, Calm
<1> QED BY <1>1, Inductive, PTL

\* At the step that ends cloud_stop.sh in the signal handler no server runs
\* that the end of the container would kill.
THEOREM StopsInOrder == Spec => ContainerStopsInOrder
<1> DEFINE e == "entrypoint"
           A == entry = "cleaning" /\ Active(e) /\ script'[e] \in {"succeeded", "failed"}
                  /\ ~overlapped' => Servers = {}
<1>1. ASSUME IInv, [Next]_vars, entry = "cleaning", Active(e),
             script'[e] \in {"succeeded", "failed"}, ~overlapped'
      PROVE  Servers = {}
  <2>1. TypeOK /\ EntryInv /\ ServerInv /\ Up /\ script[e] \in StopStates
    <3>1. Up
      BY <1>1 DEF Up
    <3>2. script[e] \in StopStates
      BY <1>1 DEF IInv, EntryInv, Active, StartStates, StopStates
    <3> QED BY <3>1, <3>2, <1>1 DEF IInv
  <2>2. Step(e)
    <3>1. ~entrypoint
      <4>1. ASSUME EntrypointMoves
            PROVE  FALSE
        BY <2>1, <4>1 DEF EntrypointMoves
      <4>2. ASSUME NEW state \in {"down", "exited"}, Ended(state)
            PROVE  FALSE
        BY <1>1, <2>1, <4>2, EndOfContainer DEF Shells
      <4> QED BY <2>1, <4>1, <4>2, StepOfEntrypoint
    <3>2. ASSUME environment \/ UNCHANGED vars
                   \/ \E p \in Pids : GetReady(p) \/ FailStart(p) \/ Stop(p) \/ ServerFault(p)
          PROVE  script'[e] = script[e] \/ script'[e] = "none"
      BY <2>1, <3>2 DEF environment, ContainerStart, ReusePid, OtherEnds, Terminate, Kill, Visit,
         Ended, Goto, TypeOK, Shells, vars, GetReady, FailStart, Stop, ServerFault, serverAsIs
    <3>3. ASSUME Step("visitor")
          PROVE  script'[e] = script[e]
      BY <2>1, <3>3, StepOfScript DEF Shells
    <3>4. script'[e] # script[e] /\ script'[e] # "none"
      BY <1>1, <2>1 DEF StopStates
    <3> QED BY <1>1, <3>1, <3>2, <3>3, <3>4 DEF Next, Shells
  <2>3. ~overlapped /\ script["visitor"] # "writePid"
    BY <1>1, <2>2 DEF Step, Active, Shells, StartStates, StopStates
  <2>4. /\ script[e] = "removePid" => Servers = {}
        /\ script[e] = "kill" => Servers \subseteq {lastPid[e]}
        /\ script[e] = "findPid" => Servers \subseteq {pidFile}
    BY <2>1, <2>3 DEF ServerInv, Shells
  <2>5. e \in Shells /\ script \in [Shells -> Scripts]
    BY <2>1 DEF TypeOK, Shells
  <2>6. CASE findPid(e)
    <3>1. script[e] = "findPid" /\ pidFile = Absent
      BY <1>1, <2>5, <2>6 DEF findPid, Goto
    <3> QED BY <2>4, <3>1, ControlAssumption DEF Servers
  <2>7. CASE kill(e)
    <3>1. script[e] = "kill" /\ ~Alive(lastPid[e])
      BY <1>1, <2>5, <2>7 DEF kill, Goto
    <3> QED BY <2>4, <3>1 DEF Servers, Alive
  <2>8. CASE removePid(e)
    BY <2>4, <2>8 DEF removePid
  <2>9. ~awaitEnd(e)
    BY <1>1, <2>5 DEF awaitEnd, Goto
  <2> QED BY <2>1, <2>2, <2>6, <2>7, <2>8, <2>9
          DEF Step, findRunning, launch, writePid, awaitReady, StopStates
<1>2. IInv /\ [Next]_vars => [A]_vars
  BY <1>1
<1> HIDE DEF A
<1>3. Spec => [][A]_vars
  BY <1>2, Inductive, PTL DEF Spec
<1> QED BY <1>3 DEF A, ContainerStopsInOrder

=============================================================================
