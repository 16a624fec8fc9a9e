----------------------------- MODULE UserManager -----------------------------
(***************************************************************************)
(* Users, groups and authentication tokens (UserManager, user_manager.cpp) *)
(* as the actions of ActionHandler (action_handler.cpp) change them.       *)
(*                                                                         *)
(* All of it runs on the main thread: a change emits changed(), whose slot *)
(* rewrites the users file - open, which truncates it, then write - before *)
(* the manager goes on and the request is answered.  An operation that is  *)
(* rejected changes nothing and is no step.                                *)
(*                                                                         *)
(* A token stands for its random id and content together.                  *)
(* Bounds: MaxUsers, MaxFailures (writes that fail), MaxCrashes; each      *)
(* token is issued once.                                                   *)
(***************************************************************************)
EXTENDS Naturals, Sequences, SequencesExt

CONSTANTS
  Names, Groups, Tokens,             \* what requests may name
  RootUser, GuestUser,
  RootGroup, GuestGroup, UserGroup,
  Memberships,                       \* the group sets user-update may send
  Absent, Torn,                      \* the users file: never written; cut off
  MaxUsers, MaxFailures, MaxCrashes

VARIABLES
  data,      \* the lists users, groups and tokens in memory
  usersFile,
  phase,     \* how far the current operation is
  rest,      \* what it does after the file is written
  expired,   \* the tokens whose validity date has passed
  failures, crashes,
  \* History, for the properties only:
  issued,    \* the tokens that have been created
  uses,      \* how often each token was accepted
  unsaved    \* the last write has failed

vars == <<data, usersFile, phase, rest, expired, failures, crashes, issued, uses,
          unsaved>>

ASSUME UserManagerAssumption ==
  /\ RootUser # GuestUser
  /\ RootGroup # GuestGroup /\ RootGroup # UserGroup /\ GuestGroup # UserGroup
  /\ MaxUsers \in Nat /\ MaxFailures \in Nat /\ MaxCrashes \in Nat

AllNames == Names \cup {RootUser, GuestUser}
AllGroups == Groups \cup {RootGroup, GuestGroup, UserGroup}

User == [name : AllNames, groups : SUBSET AllGroups]
Token == [id : Tokens, resource : AllNames]
Data == [users : Seq(User), groups : SUBSET AllGroups, tokens : SUBSET Token]

\* What a file without data holds is no data.
ASSUME FileAssumption == Absent # Torn /\ Absent \notin Data /\ Torn \notin Data

\* idle; changed in memory; the file opened, so truncated; not running
Phases == {"idle", "changed", "truncated", "down"}

\* After the file is written: answer; take the group out of the users; add the
\* token of a registration; say that a token was valid; exit; begin to serve.
Rest ==
  [do : {"answer", "exit", "serve"}]
    \cup [do : {"strip"}, group : AllGroups]
    \cup [do : {"token"}, token : Token]
    \cup [do : {"accept"}, id : Tokens]

answerThen == [do |-> "answer"]

NoData == [users |-> <<>>, groups |-> {}, tokens |-> {}]

DefaultData ==
  [users  |-> <<[name |-> RootUser, groups |-> {RootGroup}],
                [name |-> GuestUser, groups |-> {GuestGroup}]>>,
   groups |-> {RootGroup, GuestGroup, UserGroup},
   tokens |-> {}]

(***************************************************************************)
(* Lookup: all of these take the first user of the name.                   *)
(***************************************************************************)
NamesOf(d) == {d.users[i].name : i \in DOMAIN d.users}

containsUser(n) == n \in NamesOf(data)

findUser(n) == CHOOSE i \in DOMAIN data.users :
                 /\ data.users[i].name = n
                 /\ \A j \in 1..(i - 1) : data.users[j].name # n

createUser(n) == [name |-> n, groups |-> {UserGroup}]

\* Mutant: a document that could not be parsed is used all the same.
fromJsonUnparsed(file) == file

fromJson(file) == IF file \in {Absent, Torn} THEN NoData ELSE file

Init ==
  /\ data = NoData /\ usersFile = Absent
  /\ phase = "down" /\ rest = answerThen
  /\ expired = {} /\ failures = 0 /\ crashes = 0
  /\ issued = {} /\ uses = [t \in Tokens |-> 0] /\ unsaved = FALSE

(***************************************************************************)
(* A change: the lists in memory, then changed() and the users file.       *)
(***************************************************************************)
Change(newData, then) ==
  /\ phase = "idle"
  /\ data' = newData
  /\ phase' = "changed" /\ rest' = then
  /\ UNCHANGED <<usersFile, expired, failures, crashes, uses, unsaved>>

UserAdd(n) ==
  /\ ~containsUser(n) /\ UserGroup \in data.groups
  /\ Len(data.users) < MaxUsers
  /\ Change([data EXCEPT !.users = Append(@, createUser(n))], answerThen)
  /\ UNCHANGED issued

\* Mutant: a registered user gets no token.
UserRegisterNoToken(n, t) ==
  /\ ~containsUser(n) /\ UserGroup \in data.groups /\ t \notin issued
  /\ Len(data.users) < MaxUsers
  /\ Change([data EXCEPT !.users = Append(@, createUser(n))], answerThen)
  /\ issued' = issued \cup {t}

\* addUser, then addToken.
UserRegister(n, t) ==
  /\ ~containsUser(n) /\ UserGroup \in data.groups /\ t \notin issued
  /\ Len(data.users) < MaxUsers
  /\ Change([data EXCEPT !.users = Append(@, createUser(n))],
            [do |-> "token", token |-> [id |-> t, resource |-> n]])
  /\ issued' = issued \cup {t}

\* The new name is not compared with those of the other users.
UserUpdate(n, newName, newGroups) ==
  /\ containsUser(n) /\ newGroups \subseteq data.groups
  /\ Change([data EXCEPT !.users[findUser(n)] =
               [name |-> newName, groups |-> newGroups]], answerThen)
  /\ UNCHANGED issued

\* Mutant: the list changes, but changed() is not emitted.
UserRemoveUnannounced(n) ==
  /\ phase = "idle" /\ containsUser(n)
  /\ data' = [data EXCEPT !.users = RemoveAt(@, findUser(n))]
  /\ UNCHANGED <<usersFile, phase, rest, expired, failures, crashes, issued, uses,
                 unsaved>>

UserRemove(n) ==
  /\ containsUser(n)
  /\ Change([data EXCEPT !.users = RemoveAt(@, findUser(n))], answerThen)
  /\ UNCHANGED issued

GroupAdd(g) ==
  /\ g \notin data.groups
  /\ Change([data EXCEPT !.groups = @ \cup {g}], answerThen)
  /\ UNCHANGED issued

\* changed() comes before groupRemoved(), whose slot visits the users.
GroupRemove(g) ==
  /\ g \in data.groups
  /\ Change([data EXCEPT !.groups = @ \ {g}], [do |-> "strip", group |-> g])
  /\ UNCHANGED issued

\* For any resource name, whether or not there is such a user.
UserTokenGenerate(n, t) ==
  /\ t \notin issued
  /\ Change([data EXCEPT !.tokens = @ \cup {[id |-> t, resource |-> n]}], answerThen)
  /\ issued' = issued \cup {t}

UserTokenRemove(token) ==
  /\ token \in data.tokens
  /\ Change([data EXCEPT !.tokens = @ \ {token}], answerThen)
  /\ UNCHANGED issued

\* Mutant: only a token that is no longer valid is removed.
validateKept(token) ==
  /\ token \in data.tokens
  /\ Change([data EXCEPT !.tokens = IF token.id \in expired THEN @ \ {token} ELSE @],
            IF token.id \in expired THEN answerThen
            ELSE [do |-> "accept", id |-> token.id])
  /\ UNCHANGED issued

\* A client that presents a token: it is removed, valid or not.
validate(token) ==
  /\ token \in data.tokens
  /\ Change([data EXCEPT !.tokens = @ \ {token}],
            IF token.id \in expired THEN answerThen
            ELSE [do |-> "accept", id |-> token.id])
  /\ UNCHANGED issued

(***************************************************************************)
(* Writing the file, and what the operation does after it                  *)
(***************************************************************************)
Without(user, g) == [user EXCEPT !.groups = @ \ {g}]

\* Mutant: the visit ends at the first user of the group.
onGroupRemovedFirst(g) ==
  LET Of == {i \in DOMAIN data.users : g \in data.users[i].groups}
  IN  data' = [data EXCEPT !.users = [i \in DOMAIN @ |->
                 IF i \in Of /\ \A j \in Of : i <= j
                 THEN Without(@[i], g) ELSE @[i]]]

onGroupRemoved(g) ==
  data' = [data EXCEPT !.users = [i \in DOMAIN @ |-> Without(@[i], g)]]

Continue ==
  \/ /\ rest.do \in {"answer", "serve"}
     /\ phase' = "idle" /\ rest' = answerThen
     /\ UNCHANGED <<data, uses>>
  \/ /\ rest.do = "strip" /\ onGroupRemoved(rest.group)
     /\ phase' = "idle" /\ rest' = answerThen
     /\ UNCHANGED uses
  \/ /\ rest.do = "token"
     /\ data' = [data EXCEPT !.tokens = @ \cup {rest.token}]
     /\ phase' = "changed" /\ rest' = answerThen
     /\ UNCHANGED uses
  \/ /\ rest.do = "accept"
     /\ uses' = [uses EXCEPT ![rest.id] = @ + 1]
     /\ phase' = "idle" /\ rest' = answerThen
     /\ UNCHANGED data
  \/ /\ rest.do = "exit"
     /\ data' = NoData /\ phase' = "down" /\ rest' = answerThen
     /\ UNCHANGED uses

openFile ==
  /\ phase = "changed"
  /\ phase' = "truncated" /\ usersFile' = Torn
  /\ UNCHANGED <<data, rest, expired, failures, crashes, issued, uses, unsaved>>

writeFile ==
  /\ phase = "truncated"
  /\ usersFile' = data /\ unsaved' = FALSE
  /\ Continue
  /\ UNCHANGED <<expired, failures, crashes, issued>>

\* onChanged only logs the error; at the start and in the shutdown nobody
\* catches it before the server ends.
FailOpen ==
  /\ phase = "changed" /\ failures < MaxFailures
  /\ failures' = failures + 1
  /\ IF rest.do \in {"exit", "serve"}
     THEN /\ data' = NoData /\ phase' = "down" /\ rest' = answerThen
          /\ UNCHANGED <<uses, unsaved>>
     ELSE Continue /\ unsaved' = TRUE
  /\ UNCHANGED <<usersFile, expired, crashes, issued>>

(***************************************************************************)
(* Start, shutdown, crash                                                  *)
(***************************************************************************)
Start ==
  /\ phase = "down"
  /\ IF usersFile = Absent
     THEN data' = DefaultData /\ phase' = "changed" /\ rest' = [do |-> "serve"]
     ELSE data' = fromJson(usersFile) /\ phase' = "idle" /\ rest' = answerThen
  /\ unsaved' = FALSE
  /\ UNCHANGED <<usersFile, expired, failures, crashes, issued, uses>>

Shutdown ==
  /\ Change(data, [do |-> "exit"])
  /\ UNCHANGED issued

Crash ==
  /\ phase # "down" /\ crashes < MaxCrashes
  /\ crashes' = crashes + 1
  /\ data' = NoData /\ phase' = "down" /\ rest' = answerThen
  /\ UNCHANGED <<usersFile, expired, failures, issued, uses, unsaved>>

Expire(t) ==
  /\ t \in issued \ expired
  /\ expired' = expired \cup {t}
  /\ UNCHANGED <<data, usersFile, phase, rest, failures, crashes, issued, uses,
                 unsaved>>

Request ==
  \/ \E n \in Names :
       \/ UserAdd(n) \/ UserRemove(n)
       \/ \E newName \in Names, gs \in Memberships : UserUpdate(n, newName, gs)
       \/ \E t \in Tokens : UserRegister(n, t) \/ UserTokenGenerate(n, t)
  \/ \E g \in Groups : GroupAdd(g) \/ GroupRemove(g)
  \/ \E token \in data.tokens : UserTokenRemove(token) \/ validate(token)

Next ==
  \/ Request
  \/ openFile \/ writeFile \/ FailOpen
  \/ Start \/ Shutdown \/ Crash
  \/ \E t \in Tokens : Expire(t)

Spec == Init /\ [][Next]_vars

(***************************************************************************)
(* Properties                                                              *)
(***************************************************************************)

\* Every variable has its type; only an operation that has changed the lists
\* has anything left to do.
TypeOK ==
  /\ data \in Data
  /\ usersFile \in {Absent, Torn} \/ usersFile \in Data
  /\ phase \in Phases /\ rest \in Rest
  /\ phase \in {"idle", "down"} => rest = answerThen
  /\ expired \subseteq issued /\ issued \subseteq Tokens
  /\ uses \in [Tokens -> Nat] /\ unsaved \in BOOLEAN
  /\ failures \in 0..MaxFailures /\ crashes \in 0..MaxCrashes

\* The data without the memberships of groups that do not exist.
Within(user, gs) == [user EXCEPT !.groups = @ \cap gs]

Stripped(d) == [d EXCEPT !.users = [i \in DOMAIN @ |-> Within(@[i], d.groups)]]

\* What has been answered is safe: whenever no operation is under way, the
\* users file gives back what is in memory, but for memberships of groups that
\* have been removed.  (Not so while the last write has failed.)
AnsweredIsSaved ==
  phase = "idle" /\ ~unsaved => Stripped(fromJson(usersFile)) = Stripped(data)

\* An authentication token opens the door once, also when the server crashes
\* and reads the users file again, unless the file could not be written.
TokenUsedOnce == failures = 0 => \A t \in Tokens : uses[t] <= 1

UserGroupsExist ==
  \A i \in DOMAIN data.users : data.users[i].groups \subseteq data.groups

\* As long as the server neither crashes nor fails to write, users are only in
\* groups that exist, as addUser and setUser demand, also while a group is
\* being removed and added again.
UserGroupsExistIfOrderly ==
  failures = 0 /\ crashes = 0 /\ rest.do # "strip" => UserGroupsExist

\* A user is only in groups that exist whenever no operation is under way:
\* addUser and setUser refuse a user with 'User group "%s" does not exist.'
UserGroupsExistWhenIdle == phase = "idle" => UserGroupsExist

=============================================================================
