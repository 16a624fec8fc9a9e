---------------------------- MODULE ControlScripts ----------------------------
(***************************************************************************)
(* How the server is started, watched and stopped: cloud_start.sh,         *)
(* cloud_stop.sh and cloud_status.sh, which find the server through its    *)
(* pid file, and the entrypoint of a container                             *)
(* (generate_containerfile.sh), which calls them and, on its first start,  *)
(* sets up the administrator's account with cloud-tool.                    *)
(*                                                                         *)
(* Two shells run scripts: that of the entrypoint, and that of somebody    *)
(* who enters the container.  The pid file, the marker .configured and the *)
(* account outlive the container; its processes do not.  A SIGTERM for the *)
(* entrypoint waits until the command it runs has ended.                   *)
(*                                                                         *)
(* The server is what ServiceLifecycle shows of it: it gets ready, or      *)
(* fails when another one has the ports; the order of its services decides *)
(* whether it says that it is ready; and it ends once it was told to stop. *)
(* It rewrites configuration.json when it starts, and users.json for its   *)
(* clients and when it ends: a server that is killed may leave one of them *)
(* cut off.                                                                *)
(*                                                                         *)
(* Bounds: MaxUpsets (servers that crash, other processes that get the pid *)
(* in the file, kills of the container and scripts of the visitor, all     *)
(* together).                                                              *)
(***************************************************************************)
EXTENDS Naturals, FiniteSets

CONSTANTS Pids, Absent, MaxRetries, MaxUpsets

VARIABLES
  server,     \* the server process of each pid
  foreign,    \* the pids of other processes
  pidFile,
  script,     \* where each shell is in a script
  lastPid,    \* the variable of each shell's script
  logged,     \* readiness was logged since the start script counted
  entry,      \* where the entrypoint is
  term,       \* a signal waits for the entrypoint
  retries,
  configured, \* the marker .configured
  account,    \* of the administrator, in users.json
  settings,   \* configuration.json
  faults, kills, visits,
  \* History, for the properties only:
  overlapped  \* a start met another script before it had written the pid file

processes == <<server, foreign>>
locals == <<lastPid, logged>>
data == <<account, settings>>
saved == <<pidFile, configured, data>>
bounds == <<faults, kills, visits>>
vars == <<processes, script, locals, entry, term, retries, saved, bounds, overlapped>>

ASSUME ControlAssumption ==
  /\ Absent \notin Pids /\ MaxRetries \in Nat \ {0} /\ MaxUpsets \in Nat

Shells == {"entrypoint", "visitor"}

StartStates == {"findRunning", "launch", "writePid", "awaitReady"}
StopStates == {"findPid", "kill", "awaitEnd", "removePid"}
Scripts == {"none", "succeeded", "failed"} \cup StartStates \cup StopStates

\* "mute": it serves, but has not said that it is ready.
ServerStates == {"dead", "starting", "ready", "mute", "ending"}

\* "absent": no users.json yet; "none": the account is not in it; "lost": it was
\* cut off, and reads as a file without any user, the root user included.
Accounts == {"absent", "none", "added", "root", "lost"}

\* In the order of the script; the two that call cloud_stop are the handler of
\* the signal and the end of the polls.  The container is not up when it
\* was stopped or killed ("down") and when the entrypoint gave up ("exited").
EntryStates == {"down", "exited", "starting", "polling", "adding", "updating", "marking",
                "resting", "cleaning", "givingUp"}

Alive(p) == p \in Pids /\ (server[p] # "dead" \/ p \in foreign)
HasPorts(p) == server[p] \in {"ready", "mute", "ending"}
Serving == \E p \in Pids : server[p] \in {"ready", "mute"}
Servers == {p \in Pids : server[p] # "dead"}

NoProcess == [p \in Pids |-> "dead"]

\* A server that finds no users.json writes one with the default users.
Defaults == IF account = "absent" THEN "none" ELSE account

\* What killed servers may leave: each truncates configuration.json in its start
\* before it writes it, and likewise the first users.json; later it rewrites
\* users.json for any client, and when it ends.
Cut(killed) ==
  LET began == \E p \in killed : server[p] = "starting"
      served == \E p \in killed : server[p] \in {"ready", "mute", "ending"}
  IN  /\ settings' = settings \/ (began /\ settings' = "lost")
      /\ \/ account' = account
         \/ began /\ account = "absent" /\ account' \in {"none", "lost"}
         \/ served /\ account' = "lost"

Init ==
  /\ server = NoProcess /\ foreign = {} /\ pidFile = Absent
  /\ script = [s \in Shells |-> "none"]
  /\ lastPid = [s \in Shells |-> Absent] /\ logged = [s \in Shells |-> FALSE]
  /\ entry = "down" /\ term = FALSE /\ retries = MaxRetries
  /\ configured = FALSE /\ account = "absent" /\ settings = "whole"
  /\ faults = 0 /\ kills = 0 /\ visits = 0 /\ overlapped = FALSE

Quiet == faults + kills + visits < MaxUpsets

Goto(s, state) == script' = [script EXCEPT ![s] = state]

\* Of the entrypoint's scripts the exit status is kept.
Return(s, outcome) ==
  /\ Goto(s, IF s = "visitor" THEN "none" ELSE outcome)
  /\ lastPid' = [lastPid EXCEPT ![s] = Absent] /\ logged' = [logged EXCEPT ![s] = FALSE]

atEntrypoint == <<entry, term, retries, configured>>

(***************************************************************************)
(* cloud_start.sh                                                          *)
(***************************************************************************)
\* Mutant: a pid file means a running server.
findRunningFile(s) ==
  /\ script[s] = "findRunning"
  /\ IF pidFile # Absent THEN Return(s, "succeeded") ELSE Goto(s, "launch") /\ UNCHANGED locals
  /\ UNCHANGED <<processes, pidFile, atEntrypoint, data, bounds>>

\* Then the readiness messages in the log are counted.
findRunning(s) ==
  /\ script[s] = "findRunning"
  /\ IF Alive(pidFile) THEN Return(s, "succeeded") ELSE Goto(s, "launch") /\ UNCHANGED locals
  /\ UNCHANGED <<processes, pidFile, atEntrypoint, data, bounds>>

\* A pid that a script watches is not given out again.
launch(s) ==
  /\ script[s] = "launch" /\ Goto(s, "writePid")
  /\ \E p \in {q \in Pids : ~Alive(q) /\ \A t \in Shells : lastPid[t] # q} :
       /\ server' = [server EXCEPT ![p] = "starting"]
       /\ lastPid' = [lastPid EXCEPT ![s] = p]
  /\ UNCHANGED <<foreign, pidFile, logged, atEntrypoint, data, bounds>>

\* Mutant: a pid file that is there is left alone.
writePidOnce(s) ==
  /\ script[s] = "writePid" /\ Goto(s, "awaitReady")
  /\ pidFile' = IF pidFile = Absent THEN lastPid[s] ELSE pidFile
  /\ UNCHANGED <<processes, locals, atEntrypoint, data, bounds>>

writePid(s) ==
  /\ script[s] = "writePid" /\ Goto(s, "awaitReady")
  /\ pidFile' = lastPid[s]
  /\ UNCHANGED <<processes, locals, atEntrypoint, data, bounds>>

\* Mutant: the loop looks only at the log.
awaitReadyBlindly(s) ==
  /\ script[s] = "awaitReady"
  /\ logged[s] /\ Return(s, "succeeded")
  /\ UNCHANGED <<processes, pidFile, atEntrypoint, data, bounds>>

\* There is no limit to the turns of this loop.
awaitReady(s) ==
  /\ script[s] = "awaitReady"
  /\ \/ ~Alive(lastPid[s]) /\ Return(s, "failed")
     \/ Alive(lastPid[s]) /\ logged[s] /\ Return(s, "succeeded")
  /\ UNCHANGED <<processes, pidFile, atEntrypoint, data, bounds>>

(***************************************************************************)
(* cloud_stop.sh                                                           *)
(***************************************************************************)
findPid(s) ==
  /\ script[s] = "findPid"
  /\ \/ pidFile = Absent /\ Return(s, "succeeded")
     \/ /\ pidFile # Absent /\ Goto(s, IF Alive(pidFile) THEN "kill" ELSE "awaitEnd")
        /\ lastPid' = [lastPid EXCEPT ![s] = pidFile] /\ UNCHANGED logged
  /\ UNCHANGED <<processes, pidFile, atEntrypoint, data, bounds>>

\* A server installs its signal handlers at the end of its start; before that
\* any signal kills it.
Signal(p, force) ==
  \/ p \in foreign /\ foreign' = foreign \ {p} /\ UNCHANGED <<server, data>>
  \/ /\ p \notin foreign /\ UNCHANGED foreign
     /\ \/ /\ ~force /\ server' = [server EXCEPT ![p] = "ending"]
           /\ account' = Defaults /\ UNCHANGED settings
        \/ /\ force \/ server[p] = "starting"
           /\ server' = [server EXCEPT ![p] = "dead"] /\ Cut({p})

\* Only the visitor can ask for --force.
kill(s) ==
  /\ script[s] = "kill"
  /\ \/ /\ Alive(lastPid[s]) /\ Goto(s, "awaitEnd") /\ UNCHANGED locals
        /\ \E force \in BOOLEAN : (force => s = "visitor") /\ Signal(lastPid[s], force)
     \/ ~Alive(lastPid[s]) /\ Return(s, "failed") /\ UNCHANGED <<processes, data>>
  /\ UNCHANGED <<pidFile, atEntrypoint, bounds>>

\* Mutant: the signal is enough.
awaitEndNot(s) ==
  /\ script[s] = "awaitEnd" /\ Goto(s, "removePid")
  /\ UNCHANGED <<processes, locals, pidFile, atEntrypoint, data, bounds>>

\* Nor to the turns of this one.
awaitEnd(s) ==
  /\ script[s] = "awaitEnd" /\ ~Alive(lastPid[s]) /\ Goto(s, "removePid")
  /\ UNCHANGED <<processes, locals, pidFile, atEntrypoint, data, bounds>>

removePid(s) ==
  /\ script[s] = "removePid" /\ pidFile' = Absent
  /\ Return(s, IF pidFile = Absent THEN "failed" ELSE "succeeded")
  /\ UNCHANGED <<processes, atEntrypoint, data, bounds>>

Active(s) == script[s] \in StartStates \cup StopStates

Step(s) ==
  /\ \/ findRunning(s) \/ launch(s) \/ writePid(s) \/ awaitReady(s)
     \/ findPid(s) \/ kill(s) \/ awaitEnd(s) \/ removePid(s)
  /\ overlapped' = (overlapped
       \/ /\ \E t \in Shells : script[t] \in {"findRunning", "launch", "writePid"}
          /\ \A t \in Shells : Active(t))

(***************************************************************************)
(* The entrypoint.  A signal is looked at between two commands.            *)
(***************************************************************************)
Up == entry \notin {"down", "exited"}

cleanup == entry' = "cleaning" /\ Goto("entrypoint", "findPid") /\ term' = FALSE

\* The next command, unless a signal waits.
Proceed(state, first) ==
  \/ term /\ cleanup
  \/ ~term /\ entry' = state /\ Goto("entrypoint", first) /\ UNCHANGED term

\* Mutant: a signal that came too late waits for the next container.
EndedForgetful(state) ==
  /\ entry' = state /\ UNCHANGED term /\ Cut(Servers)
  /\ server' = NoProcess /\ foreign' = {}
  /\ script' = [s \in Shells |-> "none"]
  /\ lastPid' = [s \in Shells |-> Absent] /\ logged' = [s \in Shells |-> FALSE]
  /\ retries' = MaxRetries /\ overlapped' = FALSE

\* What the container's end leaves behind is the files.
Ended(state) ==
  /\ entry' = state /\ term' = FALSE /\ Cut(Servers)
  /\ server' = NoProcess /\ foreign' = {}
  /\ script' = [s \in Shells |-> "none"]
  /\ lastPid' = [s \in Shells |-> Absent] /\ logged' = [s \in Shells |-> FALSE]
  /\ retries' = MaxRetries /\ overlapped' = FALSE

ContainerStart ==
  /\ ~Up /\ entry' = "starting" /\ Goto("entrypoint", "findRunning")
  /\ UNCHANGED <<processes, locals, saved, term, retries, bounds, overlapped>>

\* After a failure the shell exits (set -e), or sees to the signal first.
Started ==
  /\ entry = "starting" /\ UNCHANGED <<pidFile, configured, bounds>>
  /\ \/ /\ script["entrypoint"] = "succeeded"
        /\ IF configured THEN Proceed("resting", "none") ELSE Proceed("polling", "none")
        /\ UNCHANGED <<processes, locals, data, retries, overlapped>>
     \/ script["entrypoint"] = "failed" /\ Ended("exited")
     \/ /\ script["entrypoint"] = "failed" /\ term /\ cleanup
        /\ UNCHANGED <<processes, locals, data, retries, overlapped>>

\* cloud_status.sh looks at the process only.
Poll ==
  /\ entry = "polling"
  /\ \/ Alive(pidFile) /\ Proceed("adding", "none") /\ UNCHANGED retries
     \/ /\ ~Alive(pidFile) /\ retries' = retries - 1
        /\ \/ retries = 1 /\ Proceed("givingUp", "findPid")
           \/ retries > 1 /\ Proceed("polling", "none")
  /\ UNCHANGED <<processes, locals, saved, bounds, overlapped>>

\* cloud-tool exits with success whether or not its request was answered well,
\* so the script goes on.  Both requests are refused where the users are lost.
addAccount ==
  /\ entry = "adding" /\ Proceed("updating", "none")
  /\ account' = IF Serving /\ account = "none" THEN "added" ELSE account
  /\ UNCHANGED <<processes, locals, pidFile, configured, settings, retries, bounds,
                 overlapped>>

\* Mutant: an account that is there is taken to be set up.
updateAccountNew ==
  /\ entry = "updating" /\ Proceed("marking", "none")
  /\ account' = IF Serving /\ account = "none" THEN "root" ELSE account
  /\ UNCHANGED <<processes, locals, pidFile, configured, settings, retries, bounds,
                 overlapped>>

updateAccount ==
  /\ entry = "updating" /\ Proceed("marking", "none")
  /\ account' = IF Serving /\ account = "added" THEN "root" ELSE account
  /\ UNCHANGED <<processes, locals, pidFile, configured, settings, retries, bounds,
                 overlapped>>

touchConfigured ==
  /\ entry = "marking" /\ configured' = TRUE /\ Proceed("resting", "none")
  /\ UNCHANGED <<processes, locals, pidFile, data, retries, bounds, overlapped>>

Rest ==
  /\ entry = "resting" /\ term /\ cleanup
  /\ UNCHANGED <<processes, locals, saved, retries, bounds, overlapped>>

\* Whatever cloud_stop.sh returned.
Stopped ==
  /\ script["entrypoint"] \in {"succeeded", "failed"}
  /\ \/ entry = "cleaning" /\ Ended("down")
     \/ entry = "givingUp" /\ Ended("exited")
  /\ UNCHANGED <<pidFile, configured, bounds>>

entrypoint ==
  \/ Started \/ Poll \/ addAccount \/ updateAccount \/ touchConfigured \/ Rest \/ Stopped

(***************************************************************************)
(* The server                                                              *)
(***************************************************************************)
serverAsIs == <<foreign, lastPid, pidFile, configured, script, entry, term, retries, kills,
                visits, overlapped>>

\* All services are ready.  The log says so unless the public server's is the
\* last ready signal to be handled (application.cpp:451).
GetReady(p) ==
  /\ server[p] = "starting" /\ settings = "whole" /\ \A q \in Pids : ~HasPorts(q)
  /\ \/ /\ server' = [server EXCEPT ![p] = "ready"]
        /\ logged' = [s \in Shells |-> script[s] \in {"launch", "writePid", "awaitReady"}]
     \/ server' = [server EXCEPT ![p] = "mute"] /\ UNCHANGED logged
  /\ account' = Defaults
  /\ UNCHANGED <<serverAsIs, settings, faults>>

\* Without its settings a server looks for its keys in the default places,
\* where there are none, and writes the defaults into configuration.json.
FailStart(p) ==
  /\ server[p] = "starting"
  /\ settings = "lost" \/ \E q \in Pids : HasPorts(q)
  /\ server' = [server EXCEPT ![p] = "dead"]
  /\ account' = Defaults
  /\ UNCHANGED <<serverAsIs, settings, logged, faults>>

Stop(p) ==
  /\ server[p] = "ending" /\ server' = [server EXCEPT ![p] = "dead"]
  /\ UNCHANGED <<serverAsIs, data, logged, faults>>

\* The server crashes.
ServerFault(p) ==
  /\ Quiet /\ faults' = faults + 1
  /\ server[p] # "dead" /\ server' = [server EXCEPT ![p] = "dead"] /\ Cut({p})
  /\ UNCHANGED <<serverAsIs, logged>>

(***************************************************************************)
(* The environment                                                         *)
(***************************************************************************)
\* The pid in the file is given to another process of the container.
ReusePid ==
  /\ Up /\ Quiet /\ faults' = faults + 1
  /\ pidFile # Absent /\ ~Alive(pidFile)
  /\ foreign' = foreign \cup {pidFile}
  /\ UNCHANGED <<server, locals, saved, script, entry, term, retries, kills, visits, overlapped>>

OtherEnds ==
  /\ \E p \in foreign : foreign' = foreign \ {p}
  /\ UNCHANGED <<server, locals, saved, script, entry, term, retries, bounds, overlapped>>

\* podman stop, or docker stop.
Terminate ==
  /\ Up /\ ~term /\ entry # "cleaning" /\ term' = TRUE
  /\ UNCHANGED <<processes, locals, saved, script, entry, retries, bounds, overlapped>>

Kill ==
  /\ Up /\ Quiet /\ kills' = kills + 1
  /\ Ended("down") /\ UNCHANGED <<pidFile, configured, faults, visits>>

\* Somebody who entered the container runs a script.
Visit ==
  /\ Up /\ ~Active("visitor") /\ Quiet /\ visits' = visits + 1
  /\ \E first \in {"findRunning", "findPid"} : Goto("visitor", first)
  /\ UNCHANGED <<processes, locals, saved, entry, term, retries, faults, kills,
                 overlapped>>

environment == ContainerStart \/ ReusePid \/ OtherEnds \/ Terminate \/ Kill \/ Visit

Next ==
  \/ \E s \in Shells : Step(s)
  \/ entrypoint
  \/ \E p \in Pids : GetReady(p) \/ FailStart(p) \/ Stop(p) \/ ServerFault(p)
  \/ environment

Spec == Init /\ [][Next]_vars

\* A shell that can go on does, and so does a server: it is started or stopped
\* in the end.  Nothing makes a container start, end or be entered.
Fairness ==
  /\ \A s \in Shells : WF_vars(Step(s))
  /\ WF_vars(entrypoint)
  /\ \A p \in Pids : WF_vars(GetReady(p) \/ FailStart(p) \/ Stop(p))

FairSpec == Spec /\ Fairness

(***************************************************************************)
(* Properties                                                              *)
(***************************************************************************)
\* Every variable is in range, and without a container nothing runs: no server,
\* no script and no signal is left.
TypeOK ==
  /\ server \in [Pids -> ServerStates] /\ foreign \subseteq Pids
  /\ pidFile \in Pids \cup {Absent}
  /\ script \in [Shells -> Scripts]
  /\ lastPid \in [Shells -> Pids \cup {Absent}]
  /\ logged \in [Shells -> BOOLEAN]
  /\ entry \in EntryStates /\ term \in BOOLEAN /\ retries \in 0..MaxRetries
  /\ configured \in BOOLEAN /\ account \in Accounts /\ settings \in {"whole", "lost"}
  /\ faults \in Nat /\ kills \in Nat /\ visits \in Nat
  /\ faults + kills + visits \in 0..MaxUpsets
  /\ overlapped \in BOOLEAN
  /\ ~Up => server = NoProcess /\ foreign = {} /\ ~term /\ ~\E s \in Shells : Active(s)

\* As long as no start met another script, there is one server at most and it
\* can be found: a stop does not return before the process it found in the pid
\* file has ended, a start after it finds either that server or none, and the
\* pid file names the server but for the moment a start needs to write it
\* (cloud_start.sh:90, cloud_stop.sh:74).
OneServerNamed ==
  ~overlapped =>
    /\ Cardinality(Servers) <= 1
    /\ \A p \in Servers :
         pidFile = p \/ \E s \in Shells : script[s] = "writePid" /\ lastPid[s] = p

\* A container that is told to stop lets its server end in order: at the step
\* that ends cloud_stop.sh in the signal handler, no server runs that the end of
\* the container would kill (generate_containerfile.sh:109).
ContainerStopsInOrder ==
  [][entry = "cleaning" /\ Active("entrypoint") /\ script'["entrypoint"] \in {"succeeded", "failed"}
       /\ ~overlapped' => Servers = {}]_vars

\* The marker .configured, once written, is never looked behind.  As long as
\* nobody else meddled and no server failed it tells the truth: however often
\* the first start was stopped, killed and begun again, the administrator is a
\* member of root (generate_containerfile.sh:120), unless a kill cut users.json
\* off.  Then there is no user any more, whatever the marker says; nothing but a
\* kill brings that about.
AdminIfConfigured ==
  faults = 0 /\ visits = 0 =>
    /\ configured => account \in {"root", "lost"}
    /\ account = "lost" => kills > 0

Mute == \E p \in Pids : server[p] = "mute"

\* A container that is told to stop comes to its end, whatever its entrypoint
\* was doing and whoever else runs scripts (generate_containerfile.sh:115), if
\* no server has crashed, no other process has got the pid in the file and the
\* server has said that it is ready.  (For a mute one cloud_start.sh waits
\* without end, and the signal waits for cloud_start.sh.)
StopEnds == term ~> (~Up \/ faults > 0 \/ Mute)

\* A container that is started, and then neither stopped, killed nor entered,
\* comes to serve with its marker written and its administrator set up, from
\* whatever pid file, marker and account earlier containers left there; so its
\* entrypoint does not exit with an error (generate_containerfile.sh:118).  The
\* exceptions: a server that crashed or a pid given to another process, before
\* or now; a server that never says it is ready; and a kill that cut
\* configuration.json off, or users.json, after which the container serves
\* without any user.
StartConfigures ==
  entry = "starting" ~> \/ configured /\ Serving /\ account \in {"root", "lost"}
                        \/ entry = "down" \/ term \/ faults > 0 \/ visits > 0
                        \/ Mute \/ settings = "lost"

=============================================================================
