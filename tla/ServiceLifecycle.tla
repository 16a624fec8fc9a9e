-------------------------- MODULE ServiceLifecycle --------------------------
(***************************************************************************)
(* Start, readiness and end of the cloud server as Application             *)
(* (application.cpp) sees them: four services on threads of their own      *)
(* report started, ready, finished or failed by signals to the event loop  *)
(* of the main thread, which handles those of one service in the order     *)
(* they were posted and those of several in any order.                     *)
(*                                                                         *)
(* What the two HTTP servers and the job manager do is known only from the *)
(* signals Application connects to: a service posts started and ready      *)
(* (a job in this order, an HTTP server in either), then finished, once it *)
(* was told to stop; an HTTP server may fail instead at any time.          *)
(***************************************************************************)
EXTENDS Integers, Sequences, FiniteSets, Functions

CONSTANTS
  CountLimit,   \* nStartedServices is an unsigned int: counts modulo this
  MaxShutdowns  \* bounds the signals and Stop requests that begin a shutdown

VARIABLES
  emitted,      \* the signals each service has posted
  events,       \* those of each service not yet handled, in order
  told,         \* the services that were told to stop
  isReady,      \* the four flags ...ServiceIsReady
  nStartedServices,
  main,         \* where the main thread is: in its event loop or in shutdown
  stopTimer,    \* a single shot timer will emit stopped()
  nShutdowns,   \* shutdowns begun
  printed,      \* the readiness message is in the log
  written       \* shutdown has written the managers' files

vars == <<emitted, events, told, isReady, nStartedServices, main, stopTimer,
          nShutdowns, printed, written>>

ASSUME LifecycleAssumption ==
  CountLimit \in Nat /\ CountLimit > 4 /\ MaxShutdowns \in Nat

HttpServices == {"publicHttp", "privateHttp"}

Services == HttpServices \cup {"file", "mailer"}

Signals == {"started", "ready", "finished", "failed"}

\* In the event loop; in shutdown, before each of its waits; or out of it.
MainStates == {"loop", "stopFile", "stopMailer", "stopHttp", "awaitJobs",
               "exit0", "exit1"}

Exited == main \in {"exit0", "exit1"}

\* The application has begun to start its services (onStarted).
Init ==
  /\ emitted = [s \in Services |-> {}]
  /\ events = [s \in Services |-> <<>>] /\ told = {}
  /\ isReady = [s \in Services |-> FALSE]
  /\ nStartedServices = 0
  /\ main = "loop" /\ stopTimer = FALSE
  /\ nShutdowns = 0 /\ printed = FALSE /\ written = FALSE

(***************************************************************************)
(* The services                                                            *)
(***************************************************************************)
Post(s, signal) ==
  /\ ~Exited /\ signal \notin emitted[s]
  /\ emitted' = [emitted EXCEPT ![s] = @ \cup {signal}]
  /\ events' = [events EXCEPT ![s] = Append(@, signal)]

Over(s) == emitted[s] \cap {"finished", "failed"} # {}

Announce(s, signal) ==
  /\ signal \in {"started", "ready"} /\ ~Over(s)
  /\ signal = "ready" /\ s \notin HttpServices => "started" \in emitted[s]
  /\ Post(s, signal)
  /\ UNCHANGED <<told, isReady, nStartedServices, main, stopTimer, nShutdowns,
                 printed, written>>

Finish(s) ==
  /\ s \in told /\ ~Over(s)
  /\ {"started", "ready"} \subseteq emitted[s]
  /\ Post(s, "finished")
  /\ UNCHANGED <<told, isReady, nStartedServices, main, stopTimer, nShutdowns,
                 printed, written>>

\* The port is taken, say.  (perform of the two jobs never reports a failure.)
FailService(s) ==
  /\ s \in HttpServices /\ ~Over(s)
  /\ Post(s, "failed")
  /\ UNCHANGED <<told, isReady, nStartedServices, main, stopTimer, nShutdowns,
                 printed, written>>

(***************************************************************************)
(* The slots of Application                                                *)
(***************************************************************************)
\* Mutant: one of the flags is not looked at.
printReadinessNoMailer(ready) ==
  printed' = (printed \/ \A s \in Services \ {"mailer"} : ready[s])

printReadiness(ready) ==
  printed' = (printed \/ \A s \in Services : ready[s])

\* The slot of the public server's ready signal does not print, the one of
\* its started signal does.
Prints(s, signal) ==
  signal = IF s = "publicHttp" THEN "started" ELSE "ready"

serviceStarted(s) ==
  /\ nStartedServices' = (nStartedServices + 1) % CountLimit
  /\ UNCHANGED <<isReady, main, stopTimer>>

serviceReady(s) ==
  /\ isReady' = [isReady EXCEPT ![s] = TRUE]
  /\ UNCHANGED <<nStartedServices, main, stopTimer>>

\* Mutant: the service is not counted off.
serviceFinishedUncounted(s) ==
  /\ isReady' = [isReady EXCEPT ![s] = FALSE]
  /\ nStartedServices' = nStartedServices
  /\ stopTimer' = (stopTimer \/ nStartedServices' = 0)
  /\ UNCHANGED main

serviceFinished(s) ==
  /\ isReady' = [isReady EXCEPT ![s] = FALSE]
  /\ nStartedServices' = (nStartedServices + CountLimit - 1) % CountLimit
  /\ stopTimer' = (stopTimer \/ nStartedServices' = 0)
  /\ UNCHANGED main

\* Mutant: the count is a signed number, below zero when a service fails
\* before it has started.
serviceFailedSigned(s) ==
  /\ nStartedServices' = nStartedServices - 1
  /\ main' = "exit1"
  /\ UNCHANGED <<isReady, stopTimer>>

serviceFailed(s) ==
  /\ nStartedServices' = (nStartedServices + CountLimit - 1) % CountLimit
  /\ main' = "exit1"
  /\ UNCHANGED <<isReady, stopTimer>>

\* The event loop handles one signal.
Handle(s) ==
  LET signal == Head(events[s])
  IN  /\ main = "loop" /\ events[s] # <<>>
      /\ events' = [events EXCEPT ![s] = Tail(@)]
      /\ \/ signal = "started" /\ serviceStarted(s)
         \/ signal = "ready" /\ serviceReady(s)
         \/ signal = "finished" /\ serviceFinished(s)
         \/ signal = "failed" /\ serviceFailed(s)
      /\ IF Prints(s, signal) THEN printReadiness(isReady') ELSE UNCHANGED printed
      /\ UNCHANGED <<emitted, told, nShutdowns, written>>

(***************************************************************************)
(* Shutdown, on SIGTERM, SIGINT or a Stop request: the two jobs are told   *)
(* to stop and waited for one after the other, the HTTP servers only told. *)
(***************************************************************************)
BeginShutdown ==
  /\ main = "loop" /\ nShutdowns < MaxShutdowns
  /\ nShutdowns' = nShutdowns + 1
  /\ main' = "stopFile" /\ told' = told \cup {"file"}
  /\ UNCHANGED <<emitted, events, isReady, nStartedServices, stopTimer, printed,
                 written>>

\* stop() finds serviceMutex free when the loop is over or has not begun; in
\* the second case the job still finds its stop flag set when it does begin.
\* (That the loop is over is seen here when the job is.)
Joined(s) == Over(s) \/ "ready" \notin emitted[s]

FileStopped ==
  /\ main = "stopFile" /\ Joined("file")
  /\ main' = "stopMailer" /\ told' = told \cup {"mailer"}
  /\ UNCHANGED <<emitted, events, isReady, nStartedServices, stopTimer,
                 nShutdowns, printed, written>>

MailerStopped ==
  /\ main = "stopMailer" /\ Joined("mailer")
  /\ main' = "stopHttp"
  /\ UNCHANGED <<emitted, events, told, isReady, nStartedServices, stopTimer,
                 nShutdowns, printed, written>>

StopHttp ==
  /\ main = "stopHttp"
  /\ main' = "awaitJobs" /\ told' = told \cup HttpServices
  /\ UNCHANGED <<emitted, events, isReady, nStartedServices, stopTimer,
                 nShutdowns, printed, written>>

\* Mutant: the jobs are not waited for.
JobsOverUnawaited ==
  /\ main = "awaitJobs"
  /\ main' = "loop" /\ written' = TRUE
  /\ UNCHANGED <<emitted, events, told, isReady, nStartedServices, stopTimer,
                 nShutdowns, printed>>

JobsOver ==
  /\ main = "awaitJobs" /\ Over("file") /\ Over("mailer")
  /\ main' = "loop" /\ written' = TRUE
  /\ UNCHANGED <<emitted, events, told, isReady, nStartedServices, stopTimer,
                 nShutdowns, printed>>

\* One of the files does not open: nobody catches the exception.
FailWrite ==
  /\ main = "awaitJobs" /\ Over("file") /\ Over("mailer")
  /\ main' = "exit1"
  /\ UNCHANGED <<emitted, events, told, isReady, nStartedServices, stopTimer,
                 nShutdowns, printed, written>>

\* onStopped: quit.
Stopped ==
  /\ main = "loop" /\ stopTimer
  /\ main' = "exit0"
  /\ UNCHANGED <<emitted, events, told, isReady, nStartedServices, stopTimer,
                 nShutdowns, printed, written>>

Shutdown == FileStopped \/ MailerStopped \/ StopHttp \/ JobsOver \/ FailWrite

Service(s) ==
  \/ \E signal \in {"started", "ready"} : Announce(s, signal)
  \/ Finish(s)

Next ==
  \/ \E s \in Services : Service(s) \/ FailService(s) \/ Handle(s)
  \/ BeginShutdown
  \/ Shutdown
  \/ Stopped

Spec == Init /\ [][Next]_vars

\* Every service gets going, and ends once it is told to.  The event loop gets
\* to every signal and timer.
Fairness ==
  /\ \A s \in Services : WF_vars(Service(s)) /\ WF_vars(Handle(s))
  /\ WF_vars(Shutdown) /\ WF_vars(Stopped)

FairSpec == Spec /\ Fairness

(***************************************************************************)
(* Properties                                                              *)
(***************************************************************************)

\* Every variable has its type, and an event is one its service has posted.
TypeOK ==
  /\ emitted \in [Services -> SUBSET Signals]
  /\ events \in [Services -> Seq(Signals)]
  /\ \A s \in Services : Range(events[s]) \subseteq emitted[s]
  /\ told \subseteq Services
  /\ isReady \in [Services -> BOOLEAN]
  /\ nStartedServices \in 0..(CountLimit - 1)
  /\ main \in MainStates /\ stopTimer \in BOOLEAN /\ written \in BOOLEAN
  /\ printed \in BOOLEAN /\ nShutdowns \in 0..MaxShutdowns

\* The server ends by itself only after its data are safe: the managers' files
\* are written and both jobs are over, even when it was stopped while its
\* services were still starting and the count had been down to zero before.
OrderlyExit ==
  main = "exit0" => written /\ Over("file") /\ Over("mailer")

\* When the log says that all services are ready, on which cloud_start.sh
\* reports success, every one of them has been.
ReadinessIsRight == printed => \A s \in Services : "ready" \in emitted[s]

\* A server that was told to stop ends: all the services that were counted are
\* counted off, also when it was told so before all of them had started.
ShutdownExits == told # {} ~> Exited

\* "Print cloud readiness if all services are ready": once the four flags are
\* set the message appears, unless the server stops first.
ReadinessIsPrinted ==
  (\A s \in Services : isReady[s]) ~> printed \/ told # {} \/ Exited

=============================================================================
