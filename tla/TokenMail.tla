------------------------------ MODULE TokenMail ------------------------------
(***************************************************************************)
(* From user-register and user-token-generate (action_handler.cpp) to the  *)
(* mail that brings the token: UserManager and Mailer together.  The       *)
(* handlers run on the main thread, one request after the other: the user  *)
(* is saved, then the token, then the mail is queued, then the client is   *)
(* answered.  The mailer's job runs beside them and beside the shutdown.   *)
(*                                                                         *)
(* Of UserManager's requests the ones about groups are left out.  A mail   *)
(* stands for its token; the address it goes to is the token's resource.   *)
(***************************************************************************)
EXTENDS UserManager, FiniteSets

CONSTANTS NoMail, MaxFaults   \* bounds failures and crashes together

VARIABLES
  emails, job, stopFlag, main, mail,            \* see Mailer
  tried, afterFlag,
  due,        \* the mail the current request will submit
  \* History, for the properties only:
  spent,      \* the tokens that were presented or removed
  cut,        \* the names whose registration a fault has hit
  lost        \* a crash has left the users file cut off

ASSUME DeliveryAssumption == NoMail \notin Token /\ MaxFaults \in Nat

Post == INSTANCE Mailer WITH Mails <- Token

userVars == vars
mailerVars == <<emails, job, stopFlag, main, mail, tried, afterFlag>>
deliveryVars == <<userVars, mailerVars, due, spent, cut, lost>>

DeliveryInit ==
  /\ Init /\ Post!Init
  /\ due = NoMail /\ spent = {}
  /\ cut = {} /\ lost = FALSE

(***************************************************************************)
(* Requests                                                                *)
(***************************************************************************)
Free == phase = "idle" /\ due = NoMail /\ main = "free" /\ job # "none"

userRegister(n, t) ==
  /\ Free /\ UserRegister(n, t)
  /\ due' = [id |-> t, resource |-> n]
  /\ UNCHANGED <<mailerVars, spent, cut, lost>>

userTokenGenerate(n, t) ==
  /\ Free /\ UserTokenGenerate(n, t)
  /\ due' = [id |-> t, resource |-> n]
  /\ UNCHANGED <<mailerVars, spent, cut, lost>>

userRemove(n) ==
  /\ Free /\ UserRemove(n)
  /\ UNCHANGED <<mailerVars, due, spent, cut, lost>>

\* A client that presents its token does the same to the lists (validate).
userTokenRemove(token) ==
  /\ Free /\ UserTokenRemove(token)
  /\ spent' = spent \cup {token}
  /\ UNCHANGED <<mailerVars, due, cut, lost>>

\* Mutant: the mail is queued while the token is being saved.
MailIsDueEarly == due # NoMail /\ phase # "down" /\ rest.do = "answer"

\* The token is in the users file, or its write has failed and was logged.
MailIsDue == due # NoMail /\ phase = "idle"

submitMail ==
  /\ MailIsDue /\ Post!beginSubmitMail(due)
  /\ due' = NoMail
  /\ UNCHANGED <<userVars, spent, cut, lost>>

Requests ==
  \/ \E n \in Names, t \in Tokens : userRegister(n, t) \/ userTokenGenerate(n, t)
  \/ \E n \in Names : userRemove(n)
  \/ \E token \in data.tokens : userTokenRemove(token)
  \/ submitMail

(***************************************************************************)
(* The users file                                                          *)
(***************************************************************************)
File ==
  /\ openFile \/ writeFile
  /\ UNCHANGED <<mailerVars, due, spent, cut, lost>>

HitByFault == IF due = NoMail \/ phase = "idle" THEN {} ELSE {due.resource}

\* At the start and in the shutdown this is the end.
FileFails ==
  /\ FailOpen /\ failures + crashes < MaxFaults
  /\ IF phase' = "down" THEN Post!End ELSE UNCHANGED mailerVars
  /\ cut' = cut \cup HitByFault
  /\ UNCHANGED <<due, spent, lost>>

(***************************************************************************)
(* The mailer                                                              *)
(***************************************************************************)
Mailing(step) ==
  /\ step
  /\ UNCHANGED <<userVars, due, spent, cut, lost>>

Delivery == Mailing(Post!Job)

SubmitMail == Mailing(Post!endSubmitMail) \/ Mailing(Post!Race)

(***************************************************************************)
(* Start, shutdown, crash                                                  *)
(***************************************************************************)
StartServer ==
  \/ Start /\ UNCHANGED <<mailerVars, due, spent, cut, lost>>
  \/ phase = "idle" /\ Mailing(Post!submitJob)

BeginStop == Free /\ Mailing(Post!beginStop)

SetStopFlag == Mailing(Post!setStopFlag)

EndStop == Mailing(Post!endStop)

\* The jobs are over, and shutdown writes the users file.  Requests that come
\* late are handled after that.
SaveUsers ==
  /\ Post!awaitJob
  /\ Change(data, [do |-> "serve"])
  /\ UNCHANGED <<issued, due, spent, cut, lost>>

\* The timer that follows the last service ends the event loop.
Quit ==
  /\ Free /\ job = "over"
  /\ data' = NoData /\ phase' = "down"
  /\ Post!End
  /\ UNCHANGED <<usersFile, rest, expired, failures, crashes, issued, uses, unsaved,
                 due, spent, cut, lost>>

\* Mutant: the request goes on after the restart.
DieStillDue ==
  /\ Crash /\ failures + crashes < MaxFaults
  /\ Post!End
  /\ cut' = cut \cup HitByFault
  /\ lost' = (lost \/ usersFile = Torn)
  /\ UNCHANGED <<due, spent>>

Die ==
  /\ Crash /\ failures + crashes < MaxFaults
  /\ Post!End
  /\ due' = NoMail
  /\ cut' = cut \cup HitByFault
  /\ lost' = (lost \/ usersFile = Torn)
  /\ UNCHANGED <<spent>>

DeliveryNext ==
  \/ Requests \/ File \/ FileFails
  \/ Delivery \/ SubmitMail
  \/ StartServer \/ BeginStop \/ SetStopFlag \/ EndStop \/ SaveUsers \/ Quit
  \/ Die

\* What the main thread does next of its own accord.
GoOn == submitMail \/ SubmitMail \/ File \/ EndStop \/ SaveUsers

\* Threads go on.
Fairness == WF_deliveryVars(GoOn) /\ WF_deliveryVars(Delivery)

DeliverySpec == DeliveryInit /\ [][DeliveryNext]_deliveryVars /\ Fairness

(***************************************************************************)
(* Properties                                                              *)
(***************************************************************************)

\* Every variable has its type; a server that is down has no request to finish.
DeliveryTypeOK ==
  /\ TypeOK /\ Post!TypeOK
  /\ due \in Token \cup {NoMail} /\ spent \subseteq Token
  /\ cut \subseteq Names /\ lost \in BOOLEAN
  /\ phase = "down" => due = NoMail /\ job = "none"

\* Whoever got a mail can use its token, over any crashes and restarts, until
\* it was presented or removed.  (Not so once a write has failed or a crash
\* has cut the users file off.)
MailedTokenWorks ==
  phase = "idle" /\ failures = 0 /\ ~lost =>
    tried \cup ToSet(emails) \subseteq data.tokens \cup spent

\* The users that were registered and have never had a token of their own.
Tokenless ==
  {n \in NamesOf(data) \ {RootUser, GuestUser} :
     \A token \in data.tokens \cup spent : token.resource # n}

\* user-register saves the user and then the token: only a registration that a
\* crash or a failed write has hit leaves a user without token, whom nobody can
\* register again.
TokenlessOnlyByFault == phase = "idle" => Tokenless \subseteq cut

\* stop(), and with it the shutdown, waits for one more mail at most.
OneMailAfterStop == Post!OneMailAfterStop

Queued(t) == \E i \in DOMAIN emails : emails[i].id = t

Stopping == main \in {"flagging", "spinning", "awaiting"}

\* A mail that is queued while the mailer runs is taken from the queue, unless
\* the server is told to stop.
MailsAreTried ==
  \A t \in Tokens :
    Queued(t) /\ job # "over" ~> ~Queued(t) \/ Stopping

=============================================================================
