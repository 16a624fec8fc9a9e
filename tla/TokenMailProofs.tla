--------------------------- MODULE TokenMailProofs ---------------------------
(***************************************************************************)
(* Proofs about TokenMail: its types, that a mailed token works, that only *)
(* a fault leaves a registered user without token, and that the shutdown   *)
(* waits for one more mail at most; for every set of names, groups and     *)
(* tokens and any number of failed writes and crashes.                     *)
(*                                                                         *)
(* The users keep the invariant of UserManagerProofs: every step is one of *)
(* UserManager or leaves its variables alone, but for the last write and   *)
(* the end of an orderly shutdown.                                         *)
(***************************************************************************)
EXTENDS TokenMail, UserManagerProofs

(***************************************************************************)
(* The inductive invariant                                                 *)
(***************************************************************************)

\* The job takes a mail where there is one, and one more after the flag was
\* set: then it leaves.
MailerInv ==
  /\ Post!TypeOK
  /\ job = "dequeuing" => emails # <<>> \/ main = "enqueuing"
  /\ afterFlag \in {0, 1}
  /\ afterFlag = 1 => job \in {"leaving", "over"} \/ (job = "sending" /\ stopFlag)

\* The main thread does one thing at a time.
MainInv ==
  /\ main # "free" => phase = "idle" /\ due = NoMail
  /\ phase = "down" => due = NoMail /\ job = "none" /\ main = "free"
  /\ rest.do \in {"answer", "serve", "token"}
  /\ rest.do = "serve" => due = NoMail
  /\ rest.do = "token" => due = rest.token
  /\ due \in Token \cup {NoMail} /\ spent \subseteq Token
  /\ due # NoMail => due.resource \in Names
  /\ cut \subseteq Names /\ lost \in BOOLEAN

\* Between two operations the file holds what is in memory; while it is being
\* written it holds nothing.
FileInv ==
  /\ phase = "idle" /\ ~unsaved => fromJson(usersFile) = data
  /\ failures = 0 => ~unsaved
  /\ phase = "truncated" => usersFile = Torn

\* What was mailed or is about to be: its token is in memory, and in the file
\* that a start would read.
Mailed == tried \cup ToSet(emails) \cup (IF main = "enqueuing" THEN {mail} ELSE {})

MailedInv ==
  /\ due # NoMail => due \in data.tokens \/ rest.do = "token"
  /\ failures = 0 /\ ~lost =>
       /\ phase # "down" => Mailed \subseteq data.tokens \cup spent
       /\ phase # "truncated" => Mailed \subseteq fromJson(usersFile).tokens \cup spent

\* The users of d that have never had a token of their own.
TokenlessIn(d, used) ==
  {n \in NamesOf(d) \ {RootUser, GuestUser} :
     \A token \in d.tokens \cup used : token.resource # n}

\* They were hit by a fault, in memory as in the file, but for the one that is
\* just being registered.
TokenlessInv ==
  /\ TokenlessIn(data, spent) \subseteq cut \cup (IF rest.do = "token" THEN {due.resource} ELSE {})
  /\ TokenlessIn(fromJson(usersFile), spent) \subseteq cut \cup HitByFault

DeliveryInv == IInv /\ MailerInv /\ MainInv /\ FileInv /\ MailedInv /\ TokenlessInv

(***************************************************************************)
(* The mailer                                                              *)
(***************************************************************************)

\* What a queue holds after one end of it was changed.
LEMMA QueueEnds ==
  ASSUME NEW S, NEW s \in Seq(S)
  PROVE  /\ ToSet(s) \subseteq S
         /\ s # <<>> => /\ Tail(s) \in Seq(S) /\ Head(s) \in ToSet(s)
                        /\ ToSet(Tail(s)) \subseteq ToSet(s)
         /\ \A m \in S : /\ Append(s, m) \in Seq(S) /\ Append(s, m) # <<>>
                         /\ ToSet(Append(s, m)) \subseteq ToSet(s) \cup {m}
<1>1. Len(s) \in Nat /\ DOMAIN s = 1..Len(s) /\ \A i \in 1..Len(s) : s[i] \in S
  BY LenProperties, ElementOfSeq
<1>2. ASSUME s # <<>>
      PROVE  /\ Tail(s) \in Seq(S) /\ Head(s) \in ToSet(s)
             /\ ToSet(Tail(s)) \subseteq ToSet(s)
  <2>1. /\ Tail(s) \in Seq(S) /\ Head(s) = s[1] /\ 1 \in DOMAIN s
        /\ Len(Tail(s)) = Len(s) - 1
        /\ \A i \in 1..(Len(s) - 1) : Tail(s)[i] = s[i + 1]
    BY <1>1, <1>2, HeadTailProperties, EmptySeq
  <2>2. DOMAIN Tail(s) = 1..(Len(s) - 1)
    BY <2>1, LenProperties
  <2>3. ASSUME NEW i \in DOMAIN Tail(s)
        PROVE  \E k \in DOMAIN s : Tail(s)[i] = s[k]
    BY <1>1, <2>1, <2>2
  <2> QED BY <2>1, <2>3 DEF ToSet
<1>3. ASSUME NEW m \in S
      PROVE  /\ Append(s, m) \in Seq(S) /\ Append(s, m) # <<>>
             /\ ToSet(Append(s, m)) \subseteq ToSet(s) \cup {m}
  <2> DEFINE t == Append(s, m)
  <2>1. /\ t \in Seq(S) /\ t # <<>> /\ Len(t) = Len(s) + 1
        /\ \A i \in 1..Len(s) : t[i] = s[i]
        /\ t[Len(s) + 1] = m
    BY AppendProperties
  <2>2. DOMAIN t = 1..(Len(s) + 1)
    BY <2>1, LenProperties
  <2> HIDE DEF t
  <2>3. \A i \in DOMAIN t : t[i] = m \/ \E k \in DOMAIN s : t[i] = s[k]
    BY <1>1, <2>1, <2>2
  <2>4. ToSet(t) \subseteq ToSet(s) \cup {m}
    BY <2>3 DEF ToSet
  <2> QED BY <2>1, <2>4 DEF t
<1> QED BY <1>1, <1>2, <1>3 DEF ToSet

\* The job takes no mail that was not mailed or about to be, and after the
\* flag was set it takes one more.
LEMMA JobKeeps ==
  ASSUME MailerInv, Post!Job
  PROVE  MailerInv' /\ Mailed' \subseteq Mailed /\ UNCHANGED <<main, mail>>
<1>1. Post!TypeOK
  BY DEF MailerInv
<1>2. CASE Post!begin \/ Post!seeEmpty \/ Post!seeMail \/ Post!sendMail \/ Post!leave
  <2>1. UNCHANGED <<main, mail, emails, tried, afterFlag>>
    BY <1>2 DEF Post!begin, Post!seeEmpty, Post!seeMail, Post!sendMail, Post!leave
  <2>2. Post!TypeOK'
    BY <1>1, <1>2, <2>1 DEF Post!begin, Post!seeEmpty, Post!seeMail, Post!sendMail,
       Post!leave, Post!TypeOK, Post!JobStates, Post!nextTurn
  <2>3. (job = "dequeuing" => emails # <<>> \/ main = "enqueuing")'
    BY <1>2, <2>1 DEF Post!begin, Post!seeEmpty, Post!seeMail, Post!sendMail,
       Post!leave, Post!nextTurn
  <2>4. (afterFlag = 1 => job \in {"leaving", "over"} \/ (job = "sending" /\ stopFlag))'
    BY <1>2, <2>1 DEF Post!begin, Post!seeEmpty, Post!seeMail, Post!sendMail,
       Post!leave, Post!nextTurn, MailerInv
  <2>5. Mailed' = Mailed
    BY <2>1 DEF Mailed
  <2> QED BY <2>1, <2>2, <2>3, <2>4, <2>5 DEF MailerInv
<1>3. CASE Post!dequeue
  <2>1. /\ emails # <<>> /\ emails' = Tail(emails) /\ job' = "sending"
        /\ tried' = tried \cup {Head(emails)} /\ UNCHANGED <<stopFlag, main, mail>>
        /\ afterFlag' = IF stopFlag THEN afterFlag + 1 ELSE 0
        /\ afterFlag = 0
    BY <1>3 DEF Post!dequeue, Post!Take, MailerInv
  <2>2. /\ Tail(emails) \in Seq(Token) /\ Head(emails) \in ToSet(emails)
        /\ ToSet(Tail(emails)) \subseteq ToSet(emails) /\ ToSet(emails) \subseteq Token
    BY <1>1, <2>1, QueueEnds DEF Post!TypeOK
  <2>3. afterFlag' \in {0, 1} /\ (afterFlag' = 1 => stopFlag')
    BY <2>1
  <2>4. Post!TypeOK'
    BY <1>1, <2>1, <2>2, <2>3 DEF Post!TypeOK, Post!JobStates
  <2>5. Mailed' \subseteq Mailed
    BY <2>1, <2>2 DEF Mailed
  <2> QED BY <2>1, <2>3, <2>4, <2>5 DEF MailerInv
<1> QED BY <1>2, <1>3 DEF Post!Job

\* Neither does submitMail, in whatever way it meets the job at the queue.
LEMMA SubmitKeeps ==
  ASSUME MailerInv, Post!endSubmitMail \/ Post!Race
  PROVE  MailerInv' /\ Mailed' \subseteq Mailed /\ main = "enqueuing" /\ main' = "free"
<1> DEFINE both == Append(emails, mail)
<1>1. Post!TypeOK /\ main = "enqueuing" /\ main' = "free" /\ mail' = NoMail /\ mail \in Token
  BY DeliveryAssumption DEF MailerInv, Post!endSubmitMail, Post!Race, Post!Submitted, Post!TypeOK
<1>2. /\ both \in Seq(Token) /\ both # <<>> /\ ToSet(both) \subseteq ToSet(emails) \cup {mail}
      /\ ToSet(both) \subseteq Token /\ ToSet(emails) \subseteq Token
      /\ Tail(both) \in Seq(Token) /\ Head(both) \in ToSet(both)
      /\ ToSet(Tail(both)) \subseteq ToSet(both)
      /\ emails # <<>> => Tail(emails) \in Seq(Token) /\ ToSet(Tail(emails)) \subseteq ToSet(emails)
  <2>1. emails \in Seq(Token)
    BY <1>1 DEF Post!TypeOK
  <2>2. both \in Seq(Token) /\ both # <<>> /\ ToSet(both) \subseteq ToSet(emails) \cup {mail}
    BY <1>1, <2>1, QueueEnds
  <2> HIDE DEF both
  <2> QED BY <2>1, <2>2, QueueEnds
<1>3. CASE Post!endSubmitMail
  <2>1. emails' = both /\ job # "dequeuing" /\ UNCHANGED <<job, stopFlag, tried, afterFlag>>
    BY <1>3 DEF Post!endSubmitMail
  <2> HIDE DEF both
  <2>2. Post!TypeOK'
    BY <1>1, <1>2, <2>1 DEF Post!TypeOK, Post!MainStates
  <2>3. Mailed' \subseteq Mailed
    BY <1>1, <1>2, <2>1 DEF Mailed
  <2> QED BY <1>1, <2>1, <2>2, <2>3 DEF MailerInv
<1>4. CASE Post!Race
  <2>1. /\ emails' \in {Tail(both), both} \cup IF emails = <<>> THEN {} ELSE {Tail(emails)}
        /\ job' = "sending" /\ tried' = tried \cup {Head(both)} /\ UNCHANGED stopFlag
        /\ afterFlag' = IF stopFlag THEN afterFlag + 1 ELSE 0
        /\ afterFlag = 0
    BY <1>4 DEF Post!Race, Post!Take, MailerInv
  <2> HIDE DEF both
  <2>2. emails' \in Seq(Token) /\ ToSet(emails') \subseteq ToSet(both) \cup ToSet(emails)
    BY <1>2, <2>1
  <2>3. afterFlag' \in {0, 1} /\ (afterFlag' = 1 => stopFlag')
    BY <2>1
  <2>4. Post!TypeOK'
    BY <1>1, <1>2, <2>1, <2>2, <2>3 DEF Post!TypeOK, Post!JobStates, Post!MainStates
  <2>5. Mailed' \subseteq Mailed
    BY <1>1, <1>2, <2>1, <2>2 DEF Mailed
  <2> QED BY <1>1, <2>1, <2>3, <2>4, <2>5 DEF MailerInv
<1> QED BY <1>1, <1>3, <1>4

\* Nor do the steps of the start and of the shutdown.
LEMMA StopKeeps ==
  ASSUME MailerInv,
         \/ Post!submitJob \/ Post!beginStop \/ Post!setStopFlag \/ Post!endStop
         \/ Post!awaitJob
  PROVE  /\ MailerInv' /\ Mailed' = Mailed
         /\ main # "enqueuing" /\ main' # "enqueuing" /\ UNCHANGED <<emails, tried>>
<1>1. /\ main # "enqueuing" /\ main' # "enqueuing" /\ main' \in Post!MainStates
      /\ UNCHANGED <<emails, tried, mail, afterFlag>>
  BY DEF Post!submitJob, Post!beginStop, Post!setStopFlag, Post!endStop, Post!awaitJob,
     Post!MainStates, MailerInv, Post!TypeOK
<1>2. Post!TypeOK'
  BY <1>1 DEF Post!submitJob, Post!beginStop, Post!setStopFlag, Post!endStop, Post!awaitJob,
     Post!JobStates, MailerInv, Post!TypeOK
<1>3. (job = "dequeuing" => emails # <<>> \/ main = "enqueuing")'
  BY <1>1 DEF Post!submitJob, Post!beginStop, Post!setStopFlag, Post!endStop, Post!awaitJob,
     MailerInv
<1>4. (afterFlag = 1 => job \in {"leaving", "over"} \/ (job = "sending" /\ stopFlag))'
  BY <1>1 DEF Post!submitJob, Post!beginStop, Post!setStopFlag, Post!endStop, Post!awaitJob,
     MailerInv
<1>5. Mailed' = Mailed
  BY <1>1 DEF Mailed
<1> QED BY <1>1, <1>2, <1>3, <1>4, <1>5 DEF MailerInv

\* A mail that is submitted is mailed or about to be.
LEMMA BeginSubmitKeeps ==
  ASSUME MailerInv, NEW m \in Token, Post!beginSubmitMail(m)
  PROVE  MailerInv' /\ Mailed' \subseteq Mailed \cup {m}
<1>1. main' = "enqueuing" /\ mail' = m /\ UNCHANGED <<emails, job, stopFlag, tried, afterFlag>>
  BY DEF Post!beginSubmitMail
<1>2. Post!TypeOK'
  BY <1>1, DeliveryAssumption DEF MailerInv, Post!TypeOK, Post!MainStates
<1> QED BY <1>1, <1>2 DEF MailerInv, Mailed

\* The end of the process leaves what was tried.
LEMMA EndKeeps ==
  ASSUME MailerInv, Post!End
  PROVE  /\ MailerInv' /\ Mailed' = tried /\ tried \subseteq Mailed
         /\ job' = "none" /\ main' = "free"
<1>1. /\ emails' = <<>> /\ job' = "none" /\ stopFlag' = FALSE /\ main' = "free"
      /\ mail' = NoMail /\ afterFlag' = 0 /\ tried' = tried
  BY DEF Post!End
<1>2. Post!TypeOK'
  BY <1>1, EmptySeq DEF MailerInv, Post!TypeOK, Post!MainStates, Post!JobStates
<1>3. Mailed' = tried /\ tried \subseteq Mailed
  BY <1>1 DEF Mailed, ToSet
<1> QED BY <1>1, <1>2, <1>3 DEF MailerInv

(***************************************************************************)
(* The users                                                               *)
(***************************************************************************)

\* The last write of a shutdown, and the end after it.
LEMMA OrderlyEndKeeps ==
  ASSUME DeliveryInv, SaveUsers \/ Quit
  PROVE  IInv'
<1>1. IInv /\ MainInv /\ FileInv
  BY DEF DeliveryInv
<1>2. TypeOK /\ phase = "idle" /\ rest = answerThen /\ data \in Data /\ issued \subseteq Tokens
  BY <1>1 DEF IInv, TypeOK, SaveUsers, Quit, Change, Free
<1>3. CASE SaveUsers
  <2> DEFINE serve == [do |-> "serve"]
  <2>1. Change(data, serve) /\ issued' = issued
    BY <1>3 DEF SaveUsers
  <2>2. serve \in Rest /\ serve.do = "serve"
    BY DEF Rest
  <2> HIDE DEF serve
  <2>3. failures = 0 => Unused(data, issued', uses) /\ PendingUnused(data, serve, issued', uses)
    BY <1>1, <2>1, <2>2 DEF IInv, TokensInv, PendingUnused
  <2>4. failures = 0 /\ crashes = 0 => InGroups(data, serve)
    BY <1>1, <1>2, <2>2 DEF IInv, GroupsInv, InGroups, answerThen
  <2> QED BY <1>1, <1>2, <2>1, <2>2, <2>3, <2>4, ChangeKeeps
<1>4. CASE Quit
  <2>1. /\ data' = NoData /\ phase' = "down"
        /\ UNCHANGED <<usersFile, rest, expired, failures, crashes, issued, uses, unsaved>>
    BY <1>4 DEF Quit
  <2>2. fromJson(usersFile)' = fromJson(usersFile)
    BY <2>1 DEF fromJson
  <2>3. TypeOK'
    BY <1>2, <2>1, FirstData DEF TypeOK, Phases
  <2>4. SavedInv'
    BY <1>2, <2>1 DEF SavedInv, AnsweredIsSaved, answerThen
  <2>5. TokensInv'
    <3>1. Unused(NoData, issued, uses) /\ PendingUnused(NoData, answerThen, issued, uses)
      BY FirstData DEF Unused, PendingUnused, answerThen
    <3> QED BY <1>1, <1>2, <2>1, <2>2, <3>1 DEF IInv, TokensInv
  <2>6. GroupsInv'
    <3>1. ASSUME failures = 0, crashes = 0
          PROVE  InGroups(fromJson(usersFile), answerThen)
      <4>1. fromJson(usersFile) = data
        BY <1>1, <1>2, <3>1 DEF FileInv
      <4> QED BY <1>1, <1>2, <3>1, <4>1 DEF IInv, GroupsInv
    <3> QED BY <2>1, <2>2, <3>1, FirstData DEF GroupsInv
  <2> QED BY <2>3, <2>4, <2>5, <2>6 DEF IInv
<1> QED BY <1>3, <1>4

\* All other steps are steps of UserManager, or leave its variables alone.
LEMMA UsersKeep ==
  ASSUME DeliveryInv, [DeliveryNext]_deliveryVars
  PROVE  IInv'
<1>1. CASE SaveUsers \/ Quit
  BY <1>1, OrderlyEndKeeps
<1>2. CASE Requests
  <2>1. Request \/ UNCHANGED vars
    BY <1>2 DEF Requests, userRegister, userTokenGenerate, userRemove, userTokenRemove,
       submitMail, userVars, Request
  <2> QED BY <2>1, StepInv DEF DeliveryInv, Next
<1>3. CASE ~(SaveUsers \/ Quit) /\ ~Requests
  <2>1. openFile \/ writeFile \/ FailOpen \/ Start \/ Crash \/ UNCHANGED vars
    BY <1>3 DEF DeliveryNext, File, FileFails, Delivery, SubmitMail, Mailing, StartServer,
       BeginStop, SetStopFlag, EndStop, Die, userVars, deliveryVars
  <2> QED BY <2>1, StepInv DEF DeliveryInv, Next
<1> QED BY <1>1, <1>2, <1>3

(***************************************************************************)
(* The users that have no token                                            *)
(***************************************************************************)

\* Fewer users, or more tokens, leave fewer users without token.
LEMMA FewerTokenless ==
  ASSUME NEW d, NEW e, NEW used, NEW usedLater, NEW pending,
         NamesOf(e) \subseteq NamesOf(d) \cup pending,
         d.tokens \cup used \subseteq e.tokens \cup usedLater
  PROVE  TokenlessIn(e, usedLater) \subseteq TokenlessIn(d, used) \cup pending
  BY DEF TokenlessIn

\* The names that are in a list after a user was added or removed.
LEMMA NamesChange ==
  ASSUME data \in Data, NEW n
  PROVE  /\ n \in Names =>
              NamesOf([data EXCEPT !.users = Append(@, createUser(n))]) \subseteq NamesOf(data) \cup {n}
         /\ containsUser(n) =>
              NamesOf([data EXCEPT !.users = RemoveAt(@, findUser(n))]) \subseteq NamesOf(data)
<1> DEFINE s == data.users
<1>1. s \in Seq(User) /\ Len(s) \in Nat /\ DOMAIN s = 1..Len(s)
  BY LenProperties, ReplacedPart
<1>2. ASSUME n \in Names
      PROVE  NamesOf([data EXCEPT !.users = Append(@, createUser(n))]) \subseteq NamesOf(data) \cup {n}
  <2> DEFINE u == createUser(n)
             us == Append(s, u)
  <2>1. u \in User /\ u.name = n
    BY <1>2 DEF createUser, User, AllNames, AllGroups
  <2> HIDE DEF s, u
  <2>2. /\ us \in Seq(User) /\ Len(us) = Len(s) + 1
        /\ \A i \in 1..Len(s) : us[i] = s[i]
        /\ us[Len(s) + 1] = u
    BY <1>1, <2>1, AppendProperties
  <2>3. DOMAIN us = 1..(Len(s) + 1)
    BY <2>2, LenProperties
  <2>4. [data EXCEPT !.users = us].users = us
    BY <2>2, ReplacedPart
  <2> HIDE DEF us
  <2>5. \A i \in DOMAIN us : us[i].name = n \/ \E k \in DOMAIN s : us[i] = s[k]
    BY <1>1, <2>1, <2>2, <2>3
  <2>6. NamesOf([data EXCEPT !.users = us]) \subseteq NamesOf(data) \cup {n}
    BY <2>4, <2>5 DEF NamesOf, s
  <2> QED BY <2>6 DEF us, s, u
<1>3. ASSUME containsUser(n)
      PROVE  NamesOf([data EXCEPT !.users = RemoveAt(@, findUser(n))]) \subseteq NamesOf(data)
  <2> DEFINE us == RemoveAt(s, findUser(n))
  <2>1. us \in Seq(User) /\ \A i \in DOMAIN us : \E k \in DOMAIN s : us[i] = s[k]
    <3>1. findUser(n) \in 1..Len(s)
      BY <1>3, FoundUser
    <3> QED BY <1>1, <3>1, RemovedUser
  <2>2. [data EXCEPT !.users = us].users = us
    BY <2>1, ReplacedPart
  <2> HIDE DEF us
  <2>3. NamesOf([data EXCEPT !.users = us]) \subseteq NamesOf(data)
    BY <2>1, <2>2 DEF NamesOf
  <2> QED BY <2>3 DEF us
<1> QED BY <1>2, <1>3

\* The lists the server begins with have only users that never get a token by
\* a registration.
LEMMA FirstTokenless ==
  ASSUME NEW used
  PROVE  TokenlessIn(NoData, used) = {} /\ TokenlessIn(DefaultData, used) = {}
<1>1. NamesOf(NoData) = {}
  BY DEF NamesOf, NoData
<1>2. NamesOf(DefaultData) \subseteq {RootUser, GuestUser}
  <2> DEFINE root == [name |-> RootUser, groups |-> {RootGroup}]
             guest == [name |-> GuestUser, groups |-> {GuestGroup}]
             us == <<root, guest>>
  <2>1. DOMAIN us = 1..2 /\ us[1].name = RootUser /\ us[2].name = GuestUser
    OBVIOUS
  <2>2. DefaultData.users = us
    BY DEF DefaultData
  <2> HIDE DEF us
  <2> QED BY <2>1, <2>2 DEF NamesOf
<1> QED BY <1>1, <1>2 DEF TokenlessIn

(***************************************************************************)
(* The invariant is inductive                                              *)
(***************************************************************************)

\* What the invariant says besides the users'.
RequestInv == MailerInv /\ MainInv /\ FileInv /\ MailedInv /\ TokenlessInv

LEMMA DeliveryInitInv == DeliveryInit => DeliveryInv
<1> SUFFICES ASSUME DeliveryInit PROVE DeliveryInv
  OBVIOUS
<1>1. IInv
  BY InitInv DEF DeliveryInit
<1>2. /\ emails = <<>> /\ job = "none" /\ stopFlag = FALSE /\ main = "free" /\ mail = NoMail
      /\ tried = {} /\ afterFlag = 0 /\ due = NoMail /\ spent = {} /\ cut = {} /\ lost = FALSE
  BY DEF DeliveryInit, Post!Init
<1>3. /\ data = NoData /\ usersFile = Absent /\ phase = "down" /\ rest.do = "answer"
      /\ unsaved = FALSE
  BY DEF DeliveryInit, Init, answerThen
<1>4. MailerInv
  <2>1. emails \in Seq(Token) /\ tried \subseteq Token
    BY <1>2, EmptySeq
  <2>2. job \in Post!JobStates /\ main \in Post!MainStates /\ stopFlag \in BOOLEAN
    BY <1>2 DEF Post!JobStates, Post!MainStates
  <2>3. afterFlag \in Nat /\ afterFlag \in {0, 1} /\ afterFlag # 1
    BY <1>2
  <2>4. Post!TypeOK
    BY <1>2, <2>1, <2>2, <2>3 DEF Post!TypeOK
  <2> QED BY <1>2, <2>3, <2>4 DEF MailerInv
<1>5. MainInv /\ FileInv
  BY <1>2, <1>3 DEF MainInv, FileInv
<1>6. MailedInv
  BY <1>2, <1>3 DEF MailedInv, Mailed, ToSet
<1>7. TokenlessInv
  BY <1>2, <1>3, FirstTokenless DEF TokenlessInv, fromJson
<1> QED BY <1>1, <1>4, <1>5, <1>6, <1>7 DEF DeliveryInv

\* A step of the mailer alone.
LEMMA MailingKeeps ==
  ASSUME DeliveryInv, UNCHANGED <<userVars, due, spent, cut, lost>>,
         MailerInv', Mailed' \subseteq Mailed,
         main' # "free" => phase = "idle" /\ due = NoMail,
         phase = "down" => job' = "none" /\ main' = "free"
  PROVE  RequestInv'
<1>1. UNCHANGED <<data, usersFile, phase, rest, failures, unsaved>> /\ RequestInv
  BY DEF DeliveryInv, RequestInv, userVars, vars
<1>2. MainInv'
  BY <1>1 DEF RequestInv, MainInv
<1>3. FileInv'
  BY <1>1 DEF RequestInv, FileInv, fromJson
<1>4. MailedInv'
  BY <1>1 DEF RequestInv, MailedInv, fromJson
<1>5. TokenlessInv'
  BY <1>1 DEF RequestInv, TokenlessInv, HitByFault, fromJson
<1> QED BY <1>2, <1>3, <1>4, <1>5 DEF RequestInv

\* A change of the lists: it loses no token but one that is spent, and adds no
\* user but one whose token is to follow.
LEMMA ChangeDelivers ==
  ASSUME DeliveryInv, NEW d, NEW then, Change(d, then), due = NoMail,
         UNCHANGED <<cut, lost>>, MailerInv', Mailed' = Mailed, main' = "free",
         then.do \in {"answer", "serve", "token"},
         then.do = "serve" => due' = NoMail,
         then.do = "token" => due' = then.token,
         due' \in Token \cup {NoMail}, spent' \subseteq Token,
         due' # NoMail => due'.resource \in Names /\ (due' \in d.tokens \/ then.do = "token"),
         spent \subseteq spent', data.tokens \cup spent \subseteq d.tokens \cup spent',
         NamesOf(d) \subseteq NamesOf(data) \cup IF then.do = "token" THEN {due'.resource} ELSE {}
  PROVE  RequestInv'
<1>1. /\ phase = "idle" /\ data' = d /\ phase' = "changed" /\ rest' = then
      /\ UNCHANGED <<usersFile, failures, unsaved>>
  BY DEF Change
<1>2. RequestInv /\ rest.do = "answer" /\ fromJson(usersFile)' = fromJson(usersFile)
  BY <1>1 DEF DeliveryInv, RequestInv, IInv, TypeOK, answerThen, fromJson
<1>3. MainInv'
  BY <1>1, <1>2 DEF RequestInv, MainInv
<1>4. FileInv'
  BY <1>1, <1>2 DEF RequestInv, FileInv
<1>5. MailedInv'
  BY <1>1, <1>2 DEF RequestInv, MailedInv
<1>6. TokenlessInv'
  <2> DEFINE pending == IF then.do = "token" THEN {due'.resource} ELSE {}
  <2>1. TokenlessIn(data, spent) \subseteq cut /\ TokenlessIn(fromJson(usersFile), spent) \subseteq cut
    BY <1>1, <1>2 DEF RequestInv, TokenlessInv, HitByFault
  <2>2. TokenlessIn(d, spent') \subseteq TokenlessIn(data, spent) \cup pending
    BY FewerTokenless
  <2>3. TokenlessIn(fromJson(usersFile), spent') \subseteq TokenlessIn(fromJson(usersFile), spent)
    BY DEF TokenlessIn
  <2> QED BY <1>1, <1>2, <2>1, <2>2, <2>3 DEF TokenlessInv
<1> QED BY <1>3, <1>4, <1>5, <1>6 DEF RequestInv

\* The requests change the lists, and leave a mail to be submitted.
LEMMA RequestsDeliver ==
  ASSUME DeliveryInv, Requests
  PROVE  RequestInv'
<1>1. data \in Data /\ MailerInv /\ MainInv /\ data.tokens \subseteq Token /\ NoMail \notin Token
  BY ReplacedPart, DeliveryAssumption DEF DeliveryInv, IInv, TypeOK
<1>2. ASSUME UNCHANGED mailerVars
      PROVE  MailerInv' /\ Mailed' = Mailed
  BY <1>1, <1>2 DEF mailerVars, MailerInv, Mailed, Post!TypeOK
<1>3. answerThen.do = "answer"
  BY DEF answerThen
<1>4. ASSUME NEW n \in Names, NEW t \in Tokens
      PROVE  [id |-> t, resource |-> n] \in Token /\ [id |-> t, resource |-> n].resource = n
  BY DEF Token, AllNames
<1>5. ASSUME NEW n \in Names, NEW t \in Tokens, userRegister(n, t)
      PROVE  RequestInv'
  <2> DEFINE token == [id |-> t, resource |-> n]
             d == [data EXCEPT !.users = Append(@, createUser(n))]
             then == [do |-> "token", token |-> token]
  <2>1. /\ Change(d, then) /\ UserGroup \in data.groups /\ due = NoMail /\ main = "free"
        /\ due' = token /\ UNCHANGED <<mailerVars, spent, cut, lost>>
    BY <1>5 DEF userRegister, UserRegister, Free
  <2>2. NamesOf(d) \subseteq NamesOf(data) \cup {n}
    BY <1>1, NamesChange
  <2>3. d.tokens = data.tokens
    BY <1>1 DEF Data
  <2>4. then.do = "token" /\ then.token = token
    OBVIOUS
  <2>5. token \in Token /\ token.resource = n
    BY <1>4
  <2>6. MailerInv' /\ Mailed' = Mailed /\ main' = "free" /\ spent' = spent /\ spent' \subseteq Token
    BY <1>1, <1>2, <2>1 DEF mailerVars, MainInv
  <2> HIDE DEF d, then, token
  <2> QED BY <2>1, <2>2, <2>3, <2>4, <2>5, <2>6, ChangeDelivers
<1>6. ASSUME NEW n \in Names, NEW t \in Tokens, userTokenGenerate(n, t)
      PROVE  RequestInv'
  <2> DEFINE token == [id |-> t, resource |-> n]
             ts == data.tokens \cup {token}
             d == [data EXCEPT !.tokens = ts]
  <2>1. /\ Change(d, answerThen) /\ due = NoMail /\ main = "free"
        /\ due' = token /\ UNCHANGED <<mailerVars, spent, cut, lost>>
    BY <1>6 DEF userTokenGenerate, UserTokenGenerate, Free
  <2>2. token \in Token /\ token.resource = n
    BY <1>4
  <2>3. ts \in SUBSET Token
    BY <1>1, <2>2
  <2>4. d.tokens = ts /\ d.users = data.users
    BY <1>1, <2>3, ReplacedPart
  <2>5. NamesOf(d) = NamesOf(data)
    BY <2>4 DEF NamesOf
  <2>6. MailerInv' /\ Mailed' = Mailed /\ main' = "free" /\ spent' = spent /\ spent' \subseteq Token
    BY <1>1, <1>2, <2>1 DEF mailerVars, MainInv
  <2>7. token \in ts /\ data.tokens \subseteq ts
    OBVIOUS
  <2> HIDE DEF d, ts, token
  <2> QED BY <1>3, <2>1, <2>2, <2>4, <2>5, <2>6, <2>7, ChangeDelivers
<1>7. ASSUME NEW n \in Names, userRemove(n)
      PROVE  RequestInv'
  <2> DEFINE d == [data EXCEPT !.users = RemoveAt(@, findUser(n))]
  <2>1. /\ Change(d, answerThen) /\ containsUser(n) /\ due = NoMail /\ main = "free"
        /\ UNCHANGED <<mailerVars, due, spent, cut, lost>>
    BY <1>7 DEF userRemove, UserRemove, Free
  <2>2. NamesOf(d) \subseteq NamesOf(data)
    BY <1>1, <2>1, NamesChange
  <2>3. d.tokens = data.tokens
    BY <1>1 DEF Data
  <2>4. MailerInv' /\ Mailed' = Mailed /\ main' = "free" /\ spent' = spent /\ spent' \subseteq Token
    BY <1>1, <1>2, <2>1 DEF mailerVars, MainInv
  <2> HIDE DEF d
  <2> QED BY <1>3, <2>1, <2>2, <2>3, <2>4, ChangeDelivers
<1>8. ASSUME NEW token \in data.tokens, userTokenRemove(token)
      PROVE  RequestInv'
  <2> DEFINE ts == data.tokens \ {token}
             d == [data EXCEPT !.tokens = ts]
  <2>1. /\ Change(d, answerThen) /\ due = NoMail /\ main = "free"
        /\ spent' = spent \cup {token} /\ UNCHANGED <<mailerVars, due, cut, lost>>
    BY <1>8 DEF userTokenRemove, UserTokenRemove, Free
  <2>2. ts \in SUBSET Token
    BY <1>1
  <2>3. d.tokens = ts /\ d.users = data.users
    BY <1>1, <2>2, ReplacedPart
  <2>4. NamesOf(d) = NamesOf(data)
    BY <2>3 DEF NamesOf
  <2>5. MailerInv' /\ Mailed' = Mailed /\ main' = "free" /\ spent' \subseteq Token
        /\ spent \subseteq spent' /\ data.tokens \cup spent \subseteq ts \cup spent'
    BY <1>1, <1>2, <2>1 DEF mailerVars, MainInv
  <2> HIDE DEF d, ts
  <2> QED BY <1>3, <2>1, <2>3, <2>4, <2>5, ChangeDelivers
<1>9. ASSUME submitMail
      PROVE  RequestInv'
  <2>1. /\ due # NoMail /\ phase = "idle" /\ Post!beginSubmitMail(due) /\ due' = NoMail
        /\ UNCHANGED <<userVars, spent, cut, lost>>
    BY <1>9 DEF submitMail, MailIsDue
  <2>2. UNCHANGED <<data, usersFile, phase, rest, failures, unsaved>>
    BY <2>1 DEF userVars, vars
  <2>3. due \in Token /\ due \in data.tokens /\ rest.do = "answer"
    BY <1>1, <2>1 DEF DeliveryInv, IInv, TypeOK, MainInv, MailedInv, answerThen
  <2>4. MailerInv' /\ Mailed' \subseteq Mailed \cup {due}
    BY <1>1, <2>1, <2>3, BeginSubmitKeeps
  <2>5. MainInv'
    BY <1>1, <2>1, <2>2, <2>3 DEF MainInv
  <2>6. FileInv'
    BY <2>2 DEF DeliveryInv, FileInv, fromJson
  <2>7. MailedInv'
    <3>1. failures = 0 => fromJson(usersFile) = data
      BY <2>1 DEF DeliveryInv, FileInv
    <3>2. fromJson(usersFile)' = fromJson(usersFile)
      BY <2>2 DEF fromJson
    <3> QED BY <2>1, <2>2, <2>3, <2>4, <3>1, <3>2 DEF DeliveryInv, MailedInv
  <2>8. TokenlessInv'
    BY <2>1, <2>2, <2>3 DEF DeliveryInv, TokenlessInv, HitByFault, fromJson
  <2> QED BY <2>4, <2>5, <2>6, <2>7, <2>8 DEF RequestInv
<1> QED BY <1>5, <1>6, <1>7, <1>8, <1>9 DEF Requests

\* What an operation does after the write: the token of a registration joins
\* the others, so the user is not without any more.
LEMMA ContinueDelivers ==
  ASSUME DeliveryInv, phase \in {"changed", "truncated"}, Continue
  PROVE  /\ rest'.do = "answer" /\ phase' \in {"idle", "changed"}
         /\ phase' = "idle" => data' = data
         /\ rest.do = "token" => phase' = "changed" /\ due # NoMail
         /\ due # NoMail => due \in data'.tokens
         /\ data.tokens \subseteq data'.tokens
         /\ TokenlessIn(data', spent) \subseteq cut
<1>1. /\ data \in Data /\ rest \in Rest /\ rest.do \in {"answer", "serve", "token"}
      /\ rest' = answerThen /\ answerThen.do = "answer"
      /\ TokenlessIn(data, spent) \subseteq cut \cup (IF rest.do = "token" THEN {due.resource} ELSE {})
      /\ due # NoMail => due \in data.tokens \/ rest.do = "token"
      /\ rest.do = "token" => due = rest.token
  BY DEF DeliveryInv, IInv, TypeOK, MainInv, MailedInv, TokenlessInv, Continue, answerThen
<1>2. CASE rest.do # "token"
  <2>1. data' = data /\ phase' = "idle"
    BY <1>1, <1>2 DEF Continue
  <2> QED BY <1>1, <1>2, <2>1
<1>3. CASE rest.do = "token"
  <2> DEFINE ts == data.tokens \cup {rest.token}
  <2>1. data' = [data EXCEPT !.tokens = ts] /\ phase' = "changed"
    BY <1>3 DEF Continue
  <2>2. rest.token \in Token /\ due = rest.token /\ due # NoMail
    BY <1>1, <1>3, RestKinds, DeliveryAssumption
  <2>3. ts \in SUBSET Token
    BY <1>1, <2>2, ReplacedPart
  <2>4. data'.users = data.users /\ data'.tokens = ts
    BY <1>1, <2>1, <2>3, ReplacedPart
  <2>5. due \in data'.tokens /\ data.tokens \subseteq data'.tokens
    BY <2>2, <2>4
  <2>6. NamesOf(data') = NamesOf(data)
    BY <2>4 DEF NamesOf
  <2>7. TokenlessIn(data', spent) \subseteq TokenlessIn(data, spent) \ {due.resource}
    BY <2>5, <2>6 DEF TokenlessIn
  <2> QED BY <1>1, <1>3, <2>1, <2>2, <2>5, <2>7
<1> QED BY <1>2, <1>3

\* Neither opening nor writing the users file loses a mailed token.
LEMMA FileDelivers ==
  ASSUME DeliveryInv, File
  PROVE  RequestInv'
<1>1. /\ data \in Data /\ MailerInv /\ MainInv /\ FileInv /\ MailedInv /\ TokenlessInv
      /\ UNCHANGED <<mailerVars, due, spent, cut, lost>> /\ UNCHANGED failures
      /\ phase \in {"changed", "truncated"} /\ main = "free"
  BY DEF DeliveryInv, IInv, TypeOK, MainInv, File, openFile, writeFile
<1>2. MailerInv' /\ Mailed' = Mailed /\ main' = "free"
  BY <1>1 DEF mailerVars, MailerInv, Mailed, Post!TypeOK
<1>3. CASE openFile
  <2>1. phase' = "truncated" /\ usersFile' = Torn /\ UNCHANGED <<data, rest, unsaved>>
        /\ phase = "changed"
    BY <1>3 DEF openFile
  <2>2. fromJson(usersFile)' = NoData
    BY <2>1 DEF fromJson
  <2>3. MainInv'
    BY <1>1, <1>2, <2>1 DEF MainInv
  <2>4. FileInv'
    BY <1>1, <2>1 DEF FileInv
  <2>5. MailedInv'
    BY <1>1, <1>2, <2>1 DEF MailedInv
  <2>6. TokenlessInv'
    BY <1>1, <2>1, <2>2, FirstTokenless DEF TokenlessInv
  <2> QED BY <1>2, <2>3, <2>4, <2>5, <2>6 DEF RequestInv
<1>4. CASE writeFile
  <2>1. usersFile' = data /\ unsaved' = FALSE /\ Continue /\ phase = "truncated"
    BY <1>4 DEF writeFile
  <2>2. fromJson(usersFile)' = data
    <3>1. fromJson(data) = data
      BY <1>1, ReadData
    <3> QED BY <2>1, <3>1 DEF fromJson
  <2>3. /\ rest'.do = "answer" /\ phase' \in {"idle", "changed"}
        /\ phase' = "idle" => data' = data
        /\ rest.do = "token" => phase' = "changed" /\ due # NoMail
        /\ due # NoMail => due \in data'.tokens
        /\ data.tokens \subseteq data'.tokens
        /\ TokenlessIn(data', spent) \subseteq cut
    BY <2>1, ContinueDelivers
  <2>4. MainInv'
    BY <1>1, <1>2, <2>3 DEF MainInv
  <2>5. FileInv'
    BY <1>1, <2>1, <2>2, <2>3 DEF FileInv
  <2>6. MailedInv'
    BY <1>1, <1>2, <2>1, <2>2, <2>3 DEF MailedInv
  <2>7. TokenlessInv'
    BY <1>1, <2>2, <2>3 DEF TokenlessInv, HitByFault
  <2> QED BY <1>2, <2>4, <2>5, <2>6, <2>7 DEF RequestInv
<1> QED BY <1>1, <1>3, <1>4 DEF File

\* The end of the process: no request is under way any more, and a crash leaves
\* the users file cut off if it was being written.
LEMMA EndDelivers ==
  ASSUME DeliveryInv, Post!End, data' = NoData, phase' = "down", rest'.do = "answer",
         UNCHANGED <<usersFile, unsaved, spent>>, due' = NoMail,
         failures' = 0 => failures = 0,
         cut \cup HitByFault \subseteq cut', cut' \subseteq Names, lost' \in BOOLEAN,
         failures' = 0 /\ ~lost' => ~lost /\ phase \notin {"down", "truncated"}
  PROVE  RequestInv'
<1>1. MailerInv /\ MainInv /\ FileInv /\ MailedInv /\ TokenlessInv
  BY DEF DeliveryInv
<1>2. MailerInv' /\ Mailed' = tried /\ tried \subseteq Mailed /\ job' = "none" /\ main' = "free"
  BY <1>1, EndKeeps
<1>3. fromJson(usersFile)' = fromJson(usersFile)
  BY DEF fromJson
<1>4. MainInv'
  BY <1>1, <1>2 DEF MainInv
<1>5. FileInv'
  BY <1>1 DEF FileInv
<1>6. MailedInv'
  BY <1>1, <1>2, <1>3 DEF MailedInv
<1>7. TokenlessInv'
  BY <1>1, <1>3, FirstTokenless DEF TokenlessInv
<1> QED BY <1>2, <1>4, <1>5, <1>6, <1>7 DEF RequestInv

\* A write that fails leaves a registration without its token in the file; at
\* the start and in the shutdown it ends the process.
LEMMA FileFailsDelivers ==
  ASSUME DeliveryInv, FileFails
  PROVE  RequestInv'
<1>1. /\ MailerInv /\ MainInv /\ FileInv /\ MailedInv /\ TokenlessInv /\ failures \in Nat
      /\ failures' = failures + 1 /\ phase = "changed" /\ FailOpen
      /\ cut' = cut \cup HitByFault /\ UNCHANGED <<usersFile, due, spent, lost>>
      /\ rest.do \in {"answer", "serve", "token"}
  BY UserManagerAssumption DEF DeliveryInv, IInv, TypeOK, FileFails, FailOpen, MainInv
<1>2. failures' # 0
  BY <1>1
<1>3. HitByFault \subseteq Names /\ cut' \subseteq Names
  BY <1>1 DEF HitByFault, MainInv
<1>4. CASE rest.do = "serve"
  <2>1. data' = NoData /\ phase' = "down" /\ rest' = answerThen /\ UNCHANGED unsaved
    BY <1>1, <1>4 DEF FailOpen
  <2>2. Post!End /\ due' = NoMail /\ rest'.do = "answer" /\ lost' \in BOOLEAN
    BY <1>1, <1>4, <2>1 DEF FileFails, MainInv, answerThen
  <2> QED BY <1>1, <1>2, <1>3, <2>1, <2>2, EndDelivers
<1>5. CASE rest.do # "serve"
  <2>1. Continue /\ unsaved' = TRUE
    BY <1>1, <1>5 DEF FailOpen
  <2>2. /\ rest'.do = "answer" /\ phase' \in {"idle", "changed"}
        /\ due # NoMail => due \in data'.tokens
        /\ TokenlessIn(data', spent) \subseteq cut
    BY <1>1, <2>1, ContinueDelivers
  <2>3. UNCHANGED mailerVars
    BY <2>2 DEF FileFails
  <2>4. MailerInv'
    BY <1>1, <2>3 DEF mailerVars, MailerInv, Post!TypeOK
  <2>5. MainInv'
    BY <1>1, <1>3, <2>2, <2>3 DEF MainInv, mailerVars
  <2>6. FileInv'
    BY <1>1, <1>2, <2>1, <2>2 DEF FileInv
  <2>7. MailedInv'
    BY <1>1, <1>2, <2>2 DEF MailedInv
  <2>8. TokenlessInv'
    BY <1>1, <2>2 DEF TokenlessInv, fromJson
  <2> QED BY <2>4, <2>5, <2>6, <2>7, <2>8 DEF RequestInv
<1> QED BY <1>4, <1>5

\* A start reads from the file what was mailed before.
LEMMA StartDelivers ==
  ASSUME DeliveryInv, StartServer
  PROVE  RequestInv'
<1>1. /\ data \in Data /\ MailerInv /\ MainInv /\ FileInv /\ MailedInv /\ TokenlessInv
      /\ UNCHANGED <<due, spent, cut, lost>>
  BY DEF DeliveryInv, IInv, TypeOK, StartServer, Mailing
<1>2. CASE Start /\ UNCHANGED mailerVars
  <2>1. /\ phase = "down" /\ unsaved' = FALSE /\ UNCHANGED <<usersFile, failures>>
        /\ main = "free" /\ due = NoMail
    BY <1>1, <1>2 DEF Start, MainInv
  <2>2. fromJson(usersFile)' = fromJson(usersFile)
    BY <2>1 DEF fromJson
  <2>3. MailerInv' /\ Mailed' = Mailed /\ main' = "free"
    BY <1>1, <1>2, <2>1 DEF mailerVars, MailerInv, Mailed, Post!TypeOK
  <2>4. /\ phase' \in {"idle", "changed"} /\ rest'.do \in {"answer", "serve"}
        /\ phase' = "idle" => data' = fromJson(usersFile)
        /\ fromJson(usersFile).tokens \subseteq data'.tokens
        /\ TokenlessIn(data', spent) \subseteq TokenlessIn(fromJson(usersFile), spent)
    <3>1. CASE usersFile = Absent
      <4>1. data' = DefaultData /\ phase' = "changed" /\ rest' = [do |-> "serve"]
        BY <1>2, <3>1 DEF Start
      <4>2. fromJson(usersFile).tokens = {}
        BY <3>1, FirstData DEF fromJson
      <4> QED BY <4>1, <4>2, FirstTokenless
    <3>2. CASE usersFile # Absent
      BY <1>2, <3>2 DEF Start, answerThen
    <3> QED BY <3>1, <3>2
  <2>5. MainInv'
    BY <1>1, <2>1, <2>3, <2>4 DEF MainInv
  <2>6. FileInv'
    BY <1>1, <2>1, <2>2, <2>4 DEF FileInv
  <2>7. MailedInv'
    BY <1>1, <2>1, <2>2, <2>3, <2>4 DEF MailedInv
  <2>8. TokenlessInv'
    BY <1>1, <2>1, <2>2, <2>4 DEF TokenlessInv, HitByFault
  <2> QED BY <2>3, <2>5, <2>6, <2>7, <2>8 DEF RequestInv
<1>3. CASE phase = "idle" /\ Mailing(Post!submitJob)
  <2>1. Post!submitJob /\ UNCHANGED <<userVars, due, spent, cut, lost>>
    BY <1>3 DEF Mailing
  <2>2. MailerInv' /\ Mailed' = Mailed
    BY <1>1, <2>1, StopKeeps
  <2>3. main' = "free"
    BY <2>1 DEF Post!submitJob
  <2> QED BY <1>3, <2>1, <2>2, <2>3, MailingKeeps
<1> QED BY <1>2, <1>3 DEF StartServer

\* The mailer's own steps, and what the main thread does with it.
LEMMA MailerDelivers ==
  ASSUME DeliveryInv, Delivery \/ SubmitMail \/ BeginStop \/ SetStopFlag \/ EndStop
  PROVE  RequestInv'
<1>1. /\ MailerInv /\ MainInv /\ UNCHANGED <<userVars, due, spent, cut, lost>>
  BY DEF DeliveryInv, Delivery, SubmitMail, BeginStop, SetStopFlag, EndStop, Mailing
<1>2. /\ main # "free" => phase = "idle" /\ due = NoMail
      /\ phase = "down" => job = "none" /\ main = "free"
  BY <1>1 DEF MainInv
<1>3. CASE Delivery
  <2>1. Post!Job
    BY <1>3 DEF Delivery, Mailing
  <2>2. MailerInv' /\ Mailed' \subseteq Mailed /\ main' = main
    BY <1>1, <2>1, JobKeeps
  <2>3. job # "none"
    BY <2>1 DEF Post!Job, Post!begin, Post!seeEmpty, Post!seeMail, Post!dequeue,
       Post!sendMail, Post!leave
  <2> QED BY <1>1, <1>2, <2>2, <2>3, MailingKeeps
<1>4. CASE SubmitMail
  <2>1. Post!endSubmitMail \/ Post!Race
    BY <1>4 DEF SubmitMail, Mailing
  <2>2. MailerInv' /\ Mailed' \subseteq Mailed /\ main = "enqueuing" /\ main' = "free"
    BY <1>1, <2>1, SubmitKeeps
  <2> QED BY <1>1, <1>2, <2>2, MailingKeeps
<1>5. CASE BeginStop \/ SetStopFlag \/ EndStop
  <2>1. Post!beginStop \/ Post!setStopFlag \/ Post!endStop
    BY <1>5 DEF BeginStop, SetStopFlag, EndStop, Mailing
  <2>2. MailerInv' /\ Mailed' = Mailed
    BY <1>1, <2>1, StopKeeps
  <2>3. phase = "idle" /\ due = NoMail
    <3>1. CASE BeginStop
      BY <3>1 DEF BeginStop, Free
    <3>2. CASE SetStopFlag \/ EndStop
      BY <1>2, <3>2 DEF SetStopFlag, EndStop, Mailing, Post!setStopFlag, Post!endStop
    <3> QED BY <1>5, <3>1, <3>2
  <2> QED BY <1>1, <2>2, <2>3, MailingKeeps
<1> QED BY <1>3, <1>4, <1>5

\* The orderly end and the crash.
LEMMA StopDelivers ==
  ASSUME DeliveryInv, SaveUsers \/ Quit \/ Die
  PROVE  RequestInv'
<1>1. /\ data \in Data /\ MailerInv /\ MainInv /\ FileInv /\ TypeOK /\ failures \in Nat
      /\ answerThen.do = "answer"
  BY UserManagerAssumption DEF DeliveryInv, IInv, TypeOK, answerThen
<1>2. CASE SaveUsers
  <2> DEFINE serve == [do |-> "serve"]
  <2>1. /\ Post!awaitJob /\ Change(data, serve) /\ UNCHANGED <<due, spent, cut, lost>>
    BY <1>2 DEF SaveUsers
  <2>2. MailerInv' /\ Mailed' = Mailed
    BY <1>1, <2>1, StopKeeps
  <2>3. main # "free" /\ main' = "free"
    BY <2>1 DEF Post!awaitJob
  <2>4. serve.do = "serve" /\ due = NoMail /\ spent' \subseteq Token
    BY <1>1, <2>1, <2>3 DEF MainInv
  <2> HIDE DEF serve
  <2>5. NamesOf(data) \subseteq NamesOf(data) \cup IF serve.do = "token" THEN {due'.resource} ELSE {}
    OBVIOUS
  <2>6. due' = NoMail /\ spent' = spent
    BY <2>1, <2>4
  <2> QED BY <2>1, <2>2, <2>3, <2>4, <2>5, <2>6, ChangeDelivers
<1>3. CASE Quit
  <2>1. /\ Post!End /\ data' = NoData /\ phase' = "down" /\ phase = "idle" /\ due = NoMail
        /\ UNCHANGED <<usersFile, rest, failures, unsaved, due, spent, cut, lost>>
    BY <1>3 DEF Quit, Free
  <2>2. HitByFault = {} /\ rest'.do = "answer"
    BY <1>1, <2>1 DEF HitByFault, TypeOK
  <2>3. cut' \subseteq Names /\ lost' \in BOOLEAN
    BY <1>1, <2>1 DEF MainInv
  <2> QED BY <2>1, <2>2, <2>3, EndDelivers
<1>4. CASE Die
  <2>1. /\ Post!End /\ data' = NoData /\ phase' = "down" /\ rest' = answerThen /\ phase # "down"
        /\ UNCHANGED <<usersFile, failures, unsaved, spent>> /\ due' = NoMail
        /\ cut' = cut \cup HitByFault /\ lost' = (lost \/ usersFile = Torn)
    BY <1>4 DEF Die, Crash
  <2>2. cut' \subseteq Names
    BY <1>1, <2>1 DEF HitByFault, MainInv
  <2>3. lost' \in BOOLEAN
    BY <2>1
  <2>4. ~lost' => ~lost /\ phase # "truncated"
    BY <1>1, <2>1 DEF FileInv
  <2> QED BY <1>1, <2>1, <2>2, <2>3, <2>4, EndDelivers
<1> QED BY <1>2, <1>3, <1>4

LEMMA DeliveryStepInv ==
  ASSUME DeliveryInv, [DeliveryNext]_deliveryVars
  PROVE  DeliveryInv'
<1>1. IInv'
  BY UsersKeep
<1>2. CASE DeliveryNext
  <2>1. RequestInv'
    BY <1>2, RequestsDeliver, FileDelivers, FileFailsDelivers, StartDelivers,
       MailerDelivers, StopDelivers DEF DeliveryNext
  <2> QED BY <1>1, <2>1 DEF RequestInv, DeliveryInv
<1>3. CASE UNCHANGED deliveryVars
  <2>1. MailerInv' /\ Mailed' = Mailed
    BY <1>3 DEF DeliveryInv, deliveryVars, mailerVars, MailerInv, Mailed, Post!TypeOK
  <2>2. UNCHANGED <<userVars, due, spent, cut, lost>> /\ UNCHANGED <<main, job>>
    BY <1>3 DEF deliveryVars, mailerVars
  <2>3. /\ main # "free" => phase = "idle" /\ due = NoMail
        /\ phase = "down" => job = "none" /\ main = "free"
    BY DEF DeliveryInv, MainInv
  <2>4. RequestInv'
    BY <2>1, <2>2, <2>3, MailingKeeps
  <2> QED BY <1>1, <2>4 DEF RequestInv, DeliveryInv
<1> QED BY <1>2, <1>3

LEMMA DeliveryInductive == DeliverySpec => []DeliveryInv
<1>1. DeliveryInit => DeliveryInv
  BY DeliveryInitInv
<1>2. DeliveryInv /\ [DeliveryNext]_deliveryVars => DeliveryInv'
  BY DeliveryStepInv
<1> QED BY <1>1, <1>2, PTL DEF DeliverySpec

(***************************************************************************)
(* The theorems                                                            *)
(***************************************************************************)

\* Every variable has its type; a server that is down has no request to finish.
THEOREM DeliveryTypeCorrect == DeliverySpec => []DeliveryTypeOK
<1>1. DeliveryInv => DeliveryTypeOK
  BY DEF DeliveryInv, IInv, MailerInv, MainInv, DeliveryTypeOK
<1> QED BY <1>1, DeliveryInductive, PTL

\* As long as no write failed and no crash cut the users file off, a token that
\* was mailed is known to the server until it is presented or removed, over any
\* number of crashes and restarts: it was in the file before its mail was queued.
THEOREM MailedTokensWork == DeliverySpec => []MailedTokenWorks
<1>1. DeliveryInv => MailedTokenWorks
  BY DEF DeliveryInv, MailedInv, Mailed, MailedTokenWorks
<1> QED BY <1>1, DeliveryInductive, PTL

\* Whoever was registered, and has had no token of his own when no operation is
\* under way, was hit by a crash or a failed write.
THEOREM TokenlessByFault == DeliverySpec => []TokenlessOnlyByFault
<1>1. DeliveryInv => TokenlessOnlyByFault
  <2> SUFFICES ASSUME DeliveryInv, phase = "idle" PROVE Tokenless \subseteq cut
    BY DEF TokenlessOnlyByFault
  <2>1. rest.do = "answer"
    BY DEF DeliveryInv, IInv, TypeOK, answerThen
  <2>2. TokenlessIn(data, spent) \subseteq cut
    BY <2>1 DEF DeliveryInv, TokenlessInv
  <2> QED BY <2>2 DEF Tokenless, TokenlessIn
<1> QED BY <1>1, DeliveryInductive, PTL

\* Once stop() has set the flag the job takes one more mail at most, whatever is
\* queued, so that the shutdown waits for one.
THEOREM OneMoreMail == DeliverySpec => []OneMailAfterStop
<1>1. DeliveryInv => OneMailAfterStop
  BY DEF DeliveryInv, MailerInv, OneMailAfterStop, Post!OneMailAfterStop
<1> QED BY <1>1, DeliveryInductive, PTL

=============================================================================
