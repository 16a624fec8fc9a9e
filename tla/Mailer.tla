-------------------------------- MODULE Mailer --------------------------------
(***************************************************************************)
(* The mailer (mailer.cpp): a queue of mails that the main thread fills    *)
(* and a job on a thread of its own empties, one mail in a turn of its     *)
(* loop; and the way Application::shutdown waits for its end.              *)
(*                                                                         *)
(* The job holds serviceMutex as long as it runs, and syncMutex while it   *)
(* takes and sends a mail; stop() needs both for a moment.  submitMail     *)
(* takes neither: when it meets the job at the queue the outcome is        *)
(* undefined.  That is modelled as the two calls one after the other, a    *)
(* mail lost, a mail sent twice, or the end of the process.                *)
(*                                                                         *)
(* No run checks this module alone; TokenMail composes it with the users   *)
(* and tokens whose mails it sends.                                        *)
(***************************************************************************)
EXTENDS Naturals, Sequences, SequencesExt

CONSTANTS Mails, NoMail

VARIABLES
  emails,      \* the queue
  job,         \* where the job is
  stopFlag,
  main,        \* where the main thread is: in none of the calls, or in one
  mail,        \* what submitMail is about to enqueue
  \* History, for the properties only:
  tried,       \* the mails given to sendmail, in any run of the server
  afterFlag    \* the mails taken since stopFlag was set

vars == <<emails, job, stopFlag, main, mail, tried, afterFlag>>

\* Not submitted; not begun; between two turns; with syncMutex in dequeue, and
\* sending; out of the loop; over.
JobStates == {"none", "waiting", "loop", "dequeuing", "sending",
              "leaving", "over"}

\* free; in submitMail; in stop before each of its locks; in the wait for jobs.
MainStates == {"free", "enqueuing", "flagging", "spinning", "awaiting"}

HoldsSyncMutex == job \in {"dequeuing", "sending"}

HoldsServiceMutex == job \in {"loop", "leaving"} \/ HoldsSyncMutex

Init ==
  /\ emails = <<>> /\ job = "none" /\ stopFlag = FALSE
  /\ main = "free" /\ mail = NoMail
  /\ tried = {} /\ afterFlag = 0

(***************************************************************************)
(* The job (perform), in the order of its loop                             *)
(***************************************************************************)
begin ==
  /\ job = "waiting" /\ job' = "loop"
  /\ UNCHANGED <<emails, stopFlag, main, mail, tried, afterFlag>>

\* Mutant: the job ends when it finds nothing to do.
nextTurnIdle == IF stopFlag \/ emails = <<>> THEN "leaving" ELSE "loop"

\* Mutant: the flag counts only when there is nothing left to send.
nextTurnDrained == IF stopFlag /\ emails = <<>> THEN "leaving" ELSE "loop"

\* The flag is read, syncMutex unlocked, and the job sleeps a second.
nextTurn == IF stopFlag THEN "leaving" ELSE "loop"

\* With syncMutex.  A turn that finds nothing and is to be followed by another
\* changes nothing.
seeEmpty ==
  /\ job = "loop" /\ emails = <<>>
  /\ job' = nextTurn
  /\ UNCHANGED <<emails, stopFlag, main, mail, tried, afterFlag>>

\* A mail that is being enqueued may be seen already.
seeMail ==
  /\ job = "loop" /\ (emails # <<>> \/ main = "enqueuing")
  /\ job' = "dequeuing"
  /\ UNCHANGED <<emails, stopFlag, main, mail, tried, afterFlag>>

Take(m) ==
  /\ job' = "sending"
  /\ tried' = tried \cup {m}
  /\ afterFlag' = IF stopFlag THEN afterFlag + 1 ELSE 0

dequeue ==
  /\ job = "dequeuing" /\ main # "enqueuing"
  /\ emails' = Tail(emails)
  /\ Take(Head(emails))
  /\ UNCHANGED <<stopFlag, main, mail>>

\* sendmail ends, or the timeout does: either way the mail is done with.
sendMail ==
  /\ job = "sending"
  /\ job' = nextTurn
  /\ UNCHANGED <<emails, stopFlag, main, mail, tried, afterFlag>>

leave ==
  /\ job = "leaving"
  /\ stopFlag' = FALSE /\ job' = "over"
  /\ UNCHANGED <<emails, main, mail, tried, afterFlag>>

Job == begin \/ seeEmpty \/ seeMail \/ dequeue \/ sendMail \/ leave

(***************************************************************************)
(* The main thread                                                         *)
(***************************************************************************)
\* Application::onStarted gives the job to the job manager.
submitJob ==
  /\ main = "free" /\ job = "none" /\ job' = "waiting"
  /\ UNCHANGED <<emails, stopFlag, main, mail, tried, afterFlag>>

beginSubmitMail(m) ==
  /\ main = "free" /\ main' = "enqueuing" /\ mail' = m
  /\ UNCHANGED <<emails, job, stopFlag, tried, afterFlag>>

Submitted ==
  main' = "free" /\ mail' = NoMail

endSubmitMail ==
  /\ main = "enqueuing" /\ job # "dequeuing"
  /\ emails' = Append(emails, mail)
  /\ Submitted
  /\ UNCHANGED <<job, stopFlag, tried, afterFlag>>

\* enqueue and dequeue at the same time.  (The end of the process is Crash.)
Race ==
  /\ main = "enqueuing" /\ job = "dequeuing"
  /\ LET both == Append(emails, mail)
     IN  /\ emails' \in {Tail(both), both} \cup
                        IF emails = <<>> THEN {} ELSE {Tail(emails)}
         /\ Take(Head(both))
  /\ Submitted
  /\ UNCHANGED stopFlag

beginStop ==
  /\ main = "free" /\ main' = "flagging"
  /\ UNCHANGED <<emails, job, stopFlag, mail, tried, afterFlag>>

setStopFlag ==
  /\ main = "flagging" /\ ~HoldsSyncMutex
  /\ stopFlag' = TRUE /\ main' = "spinning"
  /\ UNCHANGED <<emails, job, mail, tried, afterFlag>>

\* tryLock succeeds: the job has ended, or has not begun.
endStop ==
  /\ main = "spinning" /\ ~HoldsServiceMutex
  /\ main' = "awaiting"
  /\ UNCHANGED <<emails, job, stopFlag, mail, tried, afterFlag>>

\* No job waits and none runs (the file worker is the subject of
\* RequestPipeline).
awaitJob ==
  /\ main = "awaiting" /\ job = "over"
  /\ main' = "free"
  /\ UNCHANGED <<emails, job, stopFlag, mail, tried, afterFlag>>

\* The process is gone, and with it what was queued.
End ==
  /\ emails' = <<>> /\ job' = "none" /\ stopFlag' = FALSE
  /\ main' = "free" /\ mail' = NoMail
  /\ afterFlag' = 0 /\ UNCHANGED tried

(***************************************************************************)
(* Properties                                                              *)
(***************************************************************************)

\* Every variable has its type; only submitMail holds a mail.
TypeOK ==
  /\ emails \in Seq(Mails) /\ tried \subseteq Mails
  /\ job \in JobStates /\ main \in MainStates
  /\ stopFlag \in BOOLEAN /\ afterFlag \in Nat
  /\ mail \in Mails \cup {NoMail} /\ (mail # NoMail <=> main = "enqueuing")

\* stop() waits for one more mail at most, however many are queued.
OneMailAfterStop == afterFlag <= 1

=============================================================================
