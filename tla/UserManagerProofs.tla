--------------------------- MODULE UserManagerProofs ---------------------------
(***************************************************************************)
(* Proofs about UserManager: its types, that what was answered is in the   *)
(* users file, that a token opens the door once, and that an orderly run   *)
(* leaves nobody in a group that is gone; for every set of names, groups   *)
(* and tokens, and any number of users, failed writes and crashes.         *)
(***************************************************************************)
EXTENDS UserManager, SequenceTheorems, WellFoundedInduction, TLAPS

(***************************************************************************)
(* The inductive invariant                                                 *)
(***************************************************************************)

\* A group that is taken out of the users is not in the list any more.
SavedInv ==
  /\ AnsweredIsSaved
  /\ rest.do = "strip" => rest.group \notin data.groups

\* The tokens of d were issued, one of each id, and none was used.
Unused(d, known, used) ==
  \A token \in d.tokens :
    /\ token.id \in known /\ used[token.id] = 0
    /\ \A other \in d.tokens : other.id = token.id => other = token

\* So was the token that is still to be added or accepted, which is not in d.
PendingUnused(d, then, known, used) ==
  /\ then.do = "token" =>
       /\ then.token.id \in known /\ used[then.token.id] = 0
       /\ \A token \in d.tokens : token.id # then.token.id
  /\ then.do = "accept" =>
       /\ then.id \in known /\ used[then.id] = 0
       /\ \A token \in d.tokens : token.id # then.id

\* Neither in memory nor from the users file does a used token come back.
TokensInv ==
  failures = 0 =>
    /\ Unused(data, issued, uses) /\ Unused(fromJson(usersFile), issued, uses)
    /\ PendingUnused(data, rest, issued, uses)
    /\ \A t \in Tokens : uses[t] <= 1 /\ (uses[t] > 0 => t \in issued)

\* Users are only in groups of d, and in the one they are about to leave.
InGroups(d, then) ==
  \A i \in DOMAIN d.users : \A g \in d.users[i].groups :
    g \in d.groups \/ (then.do = "strip" /\ g = then.group)

\* A start that reads the file finds what an orderly shutdown has written.
GroupsInv ==
  failures = 0 /\ crashes = 0 =>
    /\ InGroups(data, rest)
    /\ phase = "down" => InGroups(fromJson(usersFile), answerThen)

IInv == TypeOK /\ SavedInv /\ TokensInv /\ GroupsInv

(***************************************************************************)
(* Lists of users                                                          *)
(***************************************************************************)

\* Every set of indexes has a least one.
LEMMA LeastIndex ==
  ASSUME NEW T, T \subseteq Nat, T # {}
  PROVE  \E m \in T : \A k \in T : m <= k
<1> DEFINE R == OpToRel(<, Nat)
<1>1. R = {ss \in Nat \X Nat : ss[1] < ss[2]}
  BY Zenon DEF OpToRel
<1>2. IsWellFoundedOn(R, Nat)
  BY NatLessThanWellFounded
<1> HIDE DEF R
<1>3. PICK m \in T : \A k \in T : <<k, m>> \notin R
  BY <1>2, WFMin
<1>4. ASSUME NEW k \in T
      PROVE  m <= k
  <2> DEFINE pair == <<k, m>>
  <2>1. pair \in Nat \X Nat /\ pair[1] = k /\ pair[2] = m /\ pair \notin R
    BY <1>3
  <2> HIDE DEF pair
  <2>2. ~(k < m)
    BY <1>1, <2>1
  <2> QED BY <2>2
<1> QED BY <1>4

\* The first user of a name is one of the list.
LEMMA FoundUser ==
  ASSUME NEW n, data \in Data, containsUser(n)
  PROVE  findUser(n) \in 1..Len(data.users) /\ data.users[findUser(n)].name = n
<1> DEFINE users == data.users
           T == {i \in DOMAIN users : users[i].name = n}
<1>1. users \in Seq(User) /\ DOMAIN users = 1..Len(users) /\ Len(users) \in Nat
  BY LenProperties DEF Data
<1>2. T # {} /\ T \subseteq Nat
  BY <1>1 DEF containsUser, NamesOf
<1>3. PICK m \in T : \A k \in T : m <= k
  BY <1>2, LeastIndex
<1>4. m \in DOMAIN users /\ users[m].name = n /\ \A j \in 1..(m - 1) : users[j].name # n
  <2>1. ASSUME NEW j \in 1..(m - 1), users[j].name = n
        PROVE  FALSE
    <3>1. j \in T /\ j < m
      BY <1>1, <2>1
    <3> QED BY <1>1, <1>3, <3>1
  <2> QED BY <2>1
<1> QED BY <1>1, <1>4 DEF findUser

\* A list without one of its users is a list of the others.
LEMMA RemovedUser ==
  ASSUME NEW S, NEW s \in Seq(S), NEW i \in 1..Len(s)
  PROVE  /\ RemoveAt(s, i) \in Seq(S)
         /\ \A j \in DOMAIN RemoveAt(s, i) : \E k \in DOMAIN s : RemoveAt(s, i)[j] = s[k]
<1> DEFINE front == SubSeq(s, 1, i - 1)
           back == SubSeq(s, i + 1, Len(s))
           t == RemoveAt(s, i)
<1>1. Len(s) \in Nat /\ DOMAIN s = 1..Len(s) /\ \A k \in 1..Len(s) : s[k] \in S
  BY LenProperties, ElementOfSeq
<1>2. /\ front \in Seq(S) /\ Len(front) = i - 1
      /\ \A k \in 1..(i - 1) : front[k] = s[k]
  <2>1. i - 1 \in Int /\ \A k \in 1..(i - 1) : s[k] \in S
    BY <1>1
  <2>2. /\ front \in Seq(S) /\ Len(front) = IF 1 <= i - 1 THEN (i - 1) - 1 + 1 ELSE 0
        /\ \A k \in 1..((i - 1) - 1 + 1) : front[k] = s[1 + k - 1]
    BY <2>1, SubSeqProperties
  <2> HIDE DEF front
  <2> QED BY <2>2
<1>3. /\ back \in Seq(S) /\ Len(back) = Len(s) - i
      /\ \A k \in 1..(Len(s) - i) : back[k] = s[i + k]
  <2>1. \A k \in (i + 1)..Len(s) : s[k] \in S
    BY <1>1
  <2>2. /\ back \in Seq(S) /\ Len(back) = IF i + 1 <= Len(s) THEN Len(s) - (i + 1) + 1 ELSE 0
        /\ \A k \in 1..(Len(s) - (i + 1) + 1) : back[k] = s[(i + 1) + k - 1]
    BY <1>1, <2>1, SubSeqProperties
  <2> HIDE DEF back
  <2>3. ASSUME NEW k \in 1..(Len(s) - i)
        PROVE  back[k] = s[i + k]
    <3>1. k \in 1..(Len(s) - (i + 1) + 1) /\ (i + 1) + k - 1 = i + k
      BY <1>1
    <3> QED BY <2>2, <3>1
  <2>4. Len(back) = Len(s) - i
    <3>1. CASE i + 1 <= Len(s)
      BY <1>1, <2>2, <3>1
    <3>2. CASE i = Len(s)
      BY <1>1, <2>2, <3>2
    <3>3. i + 1 <= Len(s) \/ i = Len(s)
      <4>1. Len(s) \in Nat /\ i \in 1..Len(s)
        BY <1>1
      <4> QED BY <4>1
    <3> QED BY <3>1, <3>2, <3>3
  <2> QED BY <2>2, <2>3, <2>4
<1>4. t = front \o back
  BY DEF RemoveAt
<1> HIDE DEF front, back, t
<1>5. /\ t \in Seq(S) /\ Len(t) = (i - 1) + (Len(s) - i)
      /\ \A k \in 1..((i - 1) + (Len(s) - i)) :
           t[k] = IF k <= i - 1 THEN front[k] ELSE back[k - (i - 1)]
  <2>1. /\ t \in Seq(S) /\ Len(t) = Len(front) + Len(back)
        /\ \A k \in 1..(Len(front) + Len(back)) :
             t[k] = IF k <= Len(front) THEN front[k] ELSE back[k - Len(front)]
    BY <1>2, <1>3, <1>4, ConcatProperties
  <2> QED BY <1>2, <1>3, <2>1
<1>6. DOMAIN t = 1..((i - 1) + (Len(s) - i))
  BY <1>5, LenProperties
<1>7. ASSUME NEW j \in DOMAIN t
      PROVE  \E k \in DOMAIN s : t[j] = s[k]
  <2>1. CASE j <= i - 1
    BY <1>1, <1>2, <1>5, <1>6, <2>1
  <2>2. CASE j > i - 1
    <3>1. j - (i - 1) \in 1..(Len(s) - i) /\ j + 1 \in DOMAIN s
          /\ i + (j - (i - 1)) = j + 1
      BY <1>1, <1>6, <2>2
    <3>2. t[j] = back[j - (i - 1)]
      BY <1>1, <1>5, <1>6, <2>2
    <3>3. back[j - (i - 1)] = s[i + (j - (i - 1))]
      BY <1>3, <3>1
    <3> QED BY <3>1, <3>2, <3>3
  <2> QED BY <1>1, <1>6, <2>1, <2>2
<1> QED BY <1>5, <1>7 DEF t

\* A list with one of its parts replaced.
LEMMA ReplacedPart ==
  ASSUME NEW d \in Data
  PROVE  /\ d.users \in Seq(User) /\ d.groups \subseteq AllGroups /\ d.tokens \subseteq Token
         /\ \A us \in Seq(User) :
              /\ [d EXCEPT !.users = us] \in Data /\ [d EXCEPT !.users = us].users = us
              /\ [d EXCEPT !.users = us].groups = d.groups
              /\ [d EXCEPT !.users = us].tokens = d.tokens
         /\ \A gs \in SUBSET AllGroups :
              /\ [d EXCEPT !.groups = gs] \in Data /\ [d EXCEPT !.groups = gs].users = d.users
              /\ [d EXCEPT !.groups = gs].groups = gs
              /\ [d EXCEPT !.groups = gs].tokens = d.tokens
         /\ \A ts \in SUBSET Token :
              /\ [d EXCEPT !.tokens = ts] \in Data /\ [d EXCEPT !.tokens = ts].users = d.users
              /\ [d EXCEPT !.tokens = ts].groups = d.groups
              /\ [d EXCEPT !.tokens = ts].tokens = ts
BY DEF Data

\* The lists the server begins with.
LEMMA FirstData ==
  /\ NoData \in Data /\ NoData.tokens = {} /\ NoData.users = <<>> /\ NoData.groups = {}
  /\ DefaultData \in Data /\ DefaultData.tokens = {}
  /\ \A then : InGroups(NoData, then) /\ InGroups(DefaultData, then)
<1>1. NoData \in Data
  BY EmptySeq DEF NoData, Data
<1> DEFINE root == [name |-> RootUser, groups |-> {RootGroup}]
           guest == [name |-> GuestUser, groups |-> {GuestGroup}]
           us == <<root, guest>>
<1>2. root \in User /\ guest \in User
  BY DEF User, AllNames, AllGroups
<1> HIDE DEF root, guest
<1>3. us \in Seq(User) /\ DOMAIN us = 1..2 /\ us[1] = root /\ us[2] = guest
  BY <1>2
<1> HIDE DEF us
<1>4. DefaultData = [users |-> us, groups |-> {RootGroup, GuestGroup, UserGroup}, tokens |-> {}]
  BY DEF DefaultData, us, root, guest
<1>5. DefaultData \in Data /\ DefaultData.tokens = {}
  BY <1>3, <1>4 DEF Data, AllGroups
<1>6. ASSUME NEW then
      PROVE  InGroups(NoData, then) /\ InGroups(DefaultData, then)
  <2>1. InGroups(NoData, then)
    BY DEF InGroups, NoData
  <2>2. InGroups(DefaultData, then)
    BY <1>3, <1>4 DEF InGroups, root, guest
  <2> QED BY <2>1, <2>2
<1> QED BY <1>1, <1>5, <1>6 DEF NoData

\* What is read from a file is data.
LEMMA ReadData ==
  ASSUME NEW file, file \in {Absent, Torn} \/ file \in Data
  PROVE  /\ fromJson(file) \in Data
         /\ file \in Data => fromJson(file) = file
         /\ file \in {Absent, Torn} => fromJson(file) = NoData
  BY FirstData, FileAssumption DEF fromJson

(***************************************************************************)
(* The invariant is inductive                                              *)
(***************************************************************************)

LEMMA InitInv == Init => IInv
<1> SUFFICES ASSUME Init PROVE IInv
  OBVIOUS
<1> USE DEF Init
<1>1. fromJson(usersFile) = NoData
  BY DEF fromJson
<1>2. TypeOK
  <2>1. answerThen \in Rest
    BY DEF answerThen, Rest
  <2>2. uses \in [Tokens -> Nat] /\ failures \in 0..MaxFailures /\ crashes \in 0..MaxCrashes
    BY UserManagerAssumption
  <2> QED BY <2>1, <2>2, FirstData DEF TypeOK, Phases
<1>3. SavedInv
  BY DEF SavedInv, AnsweredIsSaved, answerThen
<1>4. TokensInv
  BY <1>1, FirstData DEF TokensInv, Unused, PendingUnused, answerThen
<1>5. GroupsInv
  BY <1>1, FirstData DEF GroupsInv
<1> QED BY <1>2, <1>3, <1>4, <1>5 DEF IInv

\* A change keeps the invariant if what it leaves in memory is in order.
LEMMA ChangeKeeps ==
  ASSUME IInv, NEW d \in Data, NEW then \in Rest, Change(d, then),
         issued \subseteq issued', issued' \subseteq Tokens,
         then.do = "strip" => then.group \notin d.groups,
         failures = 0 => Unused(d, issued', uses) /\ PendingUnused(d, then, issued', uses),
         failures = 0 /\ crashes = 0 => InGroups(d, then)
  PROVE  IInv'
<1>1. /\ data' = d /\ phase' = "changed" /\ rest' = then
      /\ UNCHANGED <<usersFile, expired, failures, crashes, uses, unsaved>>
  BY DEF Change
<1>2. fromJson(usersFile)' = fromJson(usersFile)
  BY <1>1 DEF fromJson
<1>3. TypeOK'
  BY <1>1 DEF IInv, TypeOK, Phases
<1>4. SavedInv'
  BY <1>1 DEF SavedInv, AnsweredIsSaved
<1>5. TokensInv'
  BY <1>1, <1>2 DEF IInv, TokensInv, Unused
<1>6. GroupsInv'
  BY <1>1 DEF GroupsInv
<1> QED BY <1>3, <1>4, <1>5, <1>6 DEF IInv

\* A change of the users alone.
LEMMA ChangedUsers ==
  ASSUME IInv, NEW us \in Seq(User), Change([data EXCEPT !.users = us], answerThen),
         UNCHANGED issued, phase = "idle",
         \A i \in DOMAIN us :
           us[i].groups \subseteq data.groups \/ \E k \in DOMAIN data.users : us[i] = data.users[k]
  PROVE  IInv'
<1> DEFINE d == [data EXCEPT !.users = us]
<1>1. data \in Data /\ issued \subseteq Tokens /\ rest = answerThen
  BY DEF IInv, TypeOK
<1>2. d \in Data /\ d.users = us /\ d.groups = data.groups /\ d.tokens = data.tokens
  BY <1>1, ReplacedPart
<1>3. answerThen \in Rest /\ answerThen.do = "answer"
  BY DEF answerThen, Rest
<1>4. Change(d, answerThen)
  OBVIOUS
<1> HIDE DEF d
<1>5. failures = 0 => Unused(d, issued', uses) /\ PendingUnused(d, answerThen, issued', uses)
  BY <1>2, <1>3 DEF IInv, TokensInv, Unused, PendingUnused
<1>6. failures = 0 /\ crashes = 0 => InGroups(d, answerThen)
  BY <1>1, <1>2, <1>3 DEF IInv, GroupsInv, InGroups
<1> QED BY <1>1, <1>2, <1>3, <1>4, <1>5, <1>6, ChangeKeeps

\* A change of the tokens alone that issues nothing.
LEMMA RemovedTokens ==
  ASSUME IInv, NEW ts, ts \subseteq data.tokens, NEW then \in Rest,
         Change([data EXCEPT !.tokens = ts], then), UNCHANGED issued, phase = "idle",
         then.do # "strip",
         failures = 0 => PendingUnused([data EXCEPT !.tokens = ts], then, issued, uses)
  PROVE  IInv'
<1> DEFINE d == [data EXCEPT !.tokens = ts]
<1>1. data \in Data /\ issued \subseteq Tokens /\ rest = answerThen
  BY DEF IInv, TypeOK
<1>2. ts \in SUBSET Token
  BY <1>1, ReplacedPart
<1>3. d \in Data /\ d.users = data.users /\ d.groups = data.groups /\ d.tokens = ts
  BY <1>1, <1>2, ReplacedPart
<1>4. Change(d, then) /\ (failures = 0 => PendingUnused(d, then, issued, uses))
  OBVIOUS
<1> HIDE DEF d
<1>5. failures = 0 => Unused(d, issued, uses)
  BY <1>3 DEF IInv, TokensInv, Unused
<1>6. failures = 0 /\ crashes = 0 => InGroups(d, then)
  BY <1>1, <1>3 DEF IInv, GroupsInv, InGroups, answerThen
<1> QED BY <1>1, <1>3, <1>4, <1>5, <1>6, ChangeKeeps

\* The lists of users that requests make.
LEMMA AddedUser ==
  ASSUME data \in Data, NEW n \in Names, UserGroup \in data.groups
  PROVE  LET us == Append(data.users, createUser(n))
         IN  /\ us \in Seq(User)
             /\ \A i \in DOMAIN us :
                  us[i].groups \subseteq data.groups \/ \E k \in DOMAIN data.users : us[i] = data.users[k]
<1> DEFINE s == data.users
           u == createUser(n)
           us == Append(s, u)
<1>1. s \in Seq(User) /\ Len(s) \in Nat /\ DOMAIN s = 1..Len(s)
  BY LenProperties DEF Data
<1>2. u \in User /\ u.groups \subseteq data.groups
  BY DEF createUser, User, AllNames, AllGroups
<1> HIDE DEF s, u
<1>3. /\ us \in Seq(User) /\ Len(us) = Len(s) + 1
      /\ \A i \in 1..Len(s) : us[i] = s[i]
      /\ us[Len(s) + 1] = u
  BY <1>1, <1>2, AppendProperties
<1>4. DOMAIN us = 1..(Len(s) + 1)
  BY <1>3, LenProperties
<1> HIDE DEF us
<1>5. ASSUME NEW i \in DOMAIN us
      PROVE  us[i].groups \subseteq data.groups \/ \E k \in DOMAIN s : us[i] = s[k]
  BY <1>1, <1>2, <1>3, <1>4
<1> QED BY <1>3, <1>5 DEF us, s, u

LEMMA UpdatedUser ==
  ASSUME data \in Data, NEW n \in Names, NEW newName \in Names, NEW newGroups,
         containsUser(n), newGroups \subseteq data.groups
  PROVE  LET us == [data.users EXCEPT ![findUser(n)] = [name |-> newName, groups |-> newGroups]]
         IN  /\ us \in Seq(User)
             /\ \A i \in DOMAIN us :
                  us[i].groups \subseteq data.groups \/ \E k \in DOMAIN data.users : us[i] = data.users[k]
<1> DEFINE s == data.users
           u == [name |-> newName, groups |-> newGroups]
           f == findUser(n)
           us == [s EXCEPT ![f] = u]
<1>1. s \in Seq(User) /\ Len(s) \in Nat /\ DOMAIN s = 1..Len(s)
  BY LenProperties DEF Data
<1>2. f \in 1..Len(s)
  BY FoundUser
<1>3. u \in User /\ u.groups \subseteq data.groups
  BY DEF User, AllNames, AllGroups, Data
<1> HIDE DEF s, u, f
<1>4. /\ us \in Seq(User) /\ Len(us) = Len(s)
      /\ \A j \in 1..Len(s) : us[j] = IF j = f THEN u ELSE s[j]
  BY <1>1, <1>2, <1>3, ExceptSeq
<1>5. DOMAIN us = DOMAIN s
  OBVIOUS
<1> HIDE DEF us
<1>6. ASSUME NEW i \in DOMAIN us
      PROVE  us[i].groups \subseteq data.groups \/ \E k \in DOMAIN s : us[i] = s[k]
  BY <1>1, <1>3, <1>4, <1>5
<1> QED BY <1>4, <1>6 DEF us, s, u, f

\* Neither adding, changing nor removing a user disturbs the invariant.
LEMMA UserRequestKeeps ==
  ASSUME IInv, NEW n \in Names
  PROVE  /\ UserAdd(n) => IInv'
         /\ UserRemove(n) => IInv'
         /\ \A newName \in Names, gs \in Memberships : UserUpdate(n, newName, gs) => IInv'
<1>1. data \in Data /\ data.users \in Seq(User)
  BY ReplacedPart DEF IInv, TypeOK
<1>2. ASSUME UserAdd(n)
      PROVE  IInv'
  <2> DEFINE us == Append(data.users, createUser(n))
  <2>1. UserGroup \in data.groups /\ phase = "idle" /\ UNCHANGED issued
        /\ Change([data EXCEPT !.users = us], answerThen)
    BY <1>2 DEF UserAdd, Change
  <2>2. /\ us \in Seq(User)
        /\ \A i \in DOMAIN us :
             us[i].groups \subseteq data.groups \/ \E k \in DOMAIN data.users : us[i] = data.users[k]
    BY <1>1, <2>1, AddedUser
  <2> HIDE DEF us
  <2> QED BY <2>1, <2>2, ChangedUsers
<1>3. ASSUME UserRemove(n)
      PROVE  IInv'
  <2> DEFINE us == RemoveAt(data.users, findUser(n))
  <2>1. containsUser(n) /\ phase = "idle" /\ UNCHANGED issued
        /\ Change([data EXCEPT !.users = us], answerThen)
    BY <1>3 DEF UserRemove, Change
  <2>2. /\ us \in Seq(User)
        /\ \A i \in DOMAIN us : \E k \in DOMAIN data.users : us[i] = data.users[k]
    BY <1>1, <2>1, FoundUser, RemovedUser
  <2> HIDE DEF us
  <2> QED BY <2>1, <2>2, ChangedUsers
<1>4. ASSUME NEW newName \in Names, NEW gs \in Memberships, UserUpdate(n, newName, gs)
      PROVE  IInv'
  <2> DEFINE us == [data.users EXCEPT ![findUser(n)] = [name |-> newName, groups |-> gs]]
  <2>1. containsUser(n) /\ gs \subseteq data.groups /\ phase = "idle" /\ UNCHANGED issued
        /\ Change([data EXCEPT !.users = us], answerThen)
    BY <1>4 DEF UserUpdate, Change
  <2>2. /\ us \in Seq(User)
        /\ \A i \in DOMAIN us :
             us[i].groups \subseteq data.groups \/ \E k \in DOMAIN data.users : us[i] = data.users[k]
    BY <1>1, <2>1, UpdatedUser
  <2> HIDE DEF us
  <2> QED BY <2>1, <2>2, ChangedUsers
<1> QED BY <1>2, <1>3, <1>4

\* Neither does a registration, whose token was never issued before.
LEMMA UserRegisterKeeps ==
  ASSUME IInv, NEW n \in Names, NEW t \in Tokens, UserRegister(n, t)
  PROVE  IInv'
<1> DEFINE us == Append(data.users, createUser(n))
           d == [data EXCEPT !.users = us]
           token == [id |-> t, resource |-> n]
           then == [do |-> "token", token |-> token]
<1>1. data \in Data /\ issued \subseteq Tokens /\ uses \in [Tokens -> Nat]
  BY DEF IInv, TypeOK
<1>2. /\ UserGroup \in data.groups /\ phase = "idle" /\ t \notin issued
      /\ issued' = issued \cup {t} /\ Change(d, then)
  BY DEF UserRegister, Change
<1>3. /\ us \in Seq(User)
      /\ \A i \in DOMAIN us :
           us[i].groups \subseteq data.groups \/ \E k \in DOMAIN data.users : us[i] = data.users[k]
  BY <1>1, <1>2, AddedUser
<1>4. then \in Rest /\ then.do = "token" /\ then.token.id = t
  BY DEF Rest, Token, AllNames
<1> HIDE DEF us, then
<1>5. d \in Data /\ d.users = us /\ d.groups = data.groups /\ d.tokens = data.tokens
  BY <1>1, <1>3, ReplacedPart
<1> HIDE DEF d
<1>6. failures = 0 => Unused(d, issued', uses) /\ PendingUnused(d, then, issued', uses)
  <2> SUFFICES ASSUME failures = 0
               PROVE  Unused(d, issued', uses) /\ PendingUnused(d, then, issued', uses)
    OBVIOUS
  <2>1. Unused(data, issued, uses) /\ uses[t] = 0
    BY <1>1, <1>2 DEF IInv, TokensInv
  <2>2. Unused(d, issued', uses)
    BY <1>2, <1>5, <2>1 DEF Unused
  <2>3. PendingUnused(d, then, issued', uses)
    BY <1>2, <1>4, <1>5, <2>1 DEF PendingUnused, Unused
  <2> QED BY <2>2, <2>3
<1>7. failures = 0 /\ crashes = 0 => InGroups(d, then)
  <2>1. rest = answerThen /\ rest.do # "strip"
    BY <1>2 DEF IInv, TypeOK, answerThen
  <2> QED BY <1>3, <1>4, <1>5, <2>1 DEF IInv, GroupsInv, InGroups
<1> QED BY <1>1, <1>2, <1>4, <1>5, <1>6, <1>7, ChangeKeeps

\* A group that is added has no members but those that are entitled to it; one
\* that is removed is about to be taken out of its members.
LEMMA GroupRequestKeeps ==
  ASSUME IInv, NEW g \in Groups
  PROVE  (GroupAdd(g) => IInv') /\ (GroupRemove(g) => IInv')
<1>1. data \in Data /\ issued \subseteq Tokens /\ g \in AllGroups
  BY DEF IInv, TypeOK, AllGroups
<1>2. ASSUME GroupAdd(g)
      PROVE  IInv'
  <2> DEFINE gs == data.groups \cup {g}
             d == [data EXCEPT !.groups = gs]
  <2>1. phase = "idle" /\ UNCHANGED issued /\ Change(d, answerThen)
    BY <1>2 DEF GroupAdd, Change
  <2>2. gs \in SUBSET AllGroups
    BY <1>1, ReplacedPart
  <2>3. d \in Data /\ d.users = data.users /\ d.groups = gs /\ d.tokens = data.tokens
    BY <1>1, <2>2, ReplacedPart
  <2>4. answerThen \in Rest /\ answerThen.do = "answer" /\ rest = answerThen
    BY <2>1 DEF answerThen, Rest, IInv, TypeOK
  <2> HIDE DEF d
  <2>5. failures = 0 => Unused(d, issued', uses) /\ PendingUnused(d, answerThen, issued', uses)
    BY <2>1, <2>3, <2>4 DEF IInv, TokensInv, Unused, PendingUnused
  <2>6. failures = 0 /\ crashes = 0 => InGroups(d, answerThen)
    BY <2>3, <2>4 DEF IInv, GroupsInv, InGroups
  <2> QED BY <1>1, <2>1, <2>3, <2>4, <2>5, <2>6, ChangeKeeps
<1>3. ASSUME GroupRemove(g)
      PROVE  IInv'
  <2> DEFINE gs == data.groups \ {g}
             d == [data EXCEPT !.groups = gs]
             then == [do |-> "strip", group |-> g]
  <2>1. phase = "idle" /\ UNCHANGED issued /\ Change(d, then)
    BY <1>3 DEF GroupRemove, Change
  <2>2. gs \in SUBSET AllGroups
    BY <1>1, ReplacedPart
  <2>3. d \in Data /\ d.users = data.users /\ d.groups = gs /\ d.tokens = data.tokens
    BY <1>1, <2>2, ReplacedPart
  <2>4. then \in Rest /\ then.do = "strip" /\ then.group = g /\ rest = answerThen
        /\ rest.do = "answer"
    BY <1>1, <2>1 DEF answerThen, Rest, IInv, TypeOK
  <2> HIDE DEF d, then
  <2>5. failures = 0 => Unused(d, issued', uses) /\ PendingUnused(d, then, issued', uses)
    BY <2>1, <2>3, <2>4 DEF IInv, TokensInv, Unused, PendingUnused
  <2>6. failures = 0 /\ crashes = 0 => InGroups(d, then)
    BY <2>3, <2>4 DEF IInv, GroupsInv, InGroups
  <2>7. then.group \notin d.groups
    BY <2>3, <2>4
  <2> QED BY <1>1, <2>1, <2>3, <2>4, <2>5, <2>6, <2>7, ChangeKeeps
<1> QED BY <1>2, <1>3

\* A token that is generated was never issued before.
LEMMA TokenGenerateKeeps ==
  ASSUME IInv, NEW n \in Names, NEW t \in Tokens, UserTokenGenerate(n, t)
  PROVE  IInv'
<1> DEFINE token == [id |-> t, resource |-> n]
           ts == data.tokens \cup {token}
           d == [data EXCEPT !.tokens = ts]
<1>1. data \in Data /\ issued \subseteq Tokens /\ uses \in [Tokens -> Nat]
  BY DEF IInv, TypeOK
<1>2. /\ phase = "idle" /\ t \notin issued
      /\ issued' = issued \cup {t} /\ Change(d, answerThen)
  BY DEF UserTokenGenerate, Change
<1>3. token \in Token /\ token.id = t
  BY DEF Token, AllNames
<1> HIDE DEF token
<1>4. ts \in SUBSET Token
  BY <1>1, <1>3, ReplacedPart
<1>5. d \in Data /\ d.users = data.users /\ d.groups = data.groups /\ d.tokens = ts
  BY <1>1, <1>4, ReplacedPart
<1>6. answerThen \in Rest /\ answerThen.do = "answer" /\ rest = answerThen
  BY <1>2 DEF answerThen, Rest, IInv, TypeOK
<1> HIDE DEF d
<1>7. failures = 0 => Unused(d, issued', uses) /\ PendingUnused(d, answerThen, issued', uses)
  <2> SUFFICES ASSUME failures = 0
               PROVE  Unused(d, issued', uses)
    BY <1>6 DEF PendingUnused
  <2>1. Unused(data, issued, uses) /\ uses[t] = 0
    BY <1>1, <1>2 DEF IInv, TokensInv
  <2> QED BY <1>2, <1>3, <1>5, <2>1 DEF Unused
<1>8. failures = 0 /\ crashes = 0 => InGroups(d, answerThen)
  BY <1>5, <1>6 DEF IInv, GroupsInv, InGroups
<1> QED BY <1>1, <1>2, <1>5, <1>6, <1>7, <1>8, ChangeKeeps

\* A token that is presented is out of the list before it opens the door.
LEMMA TokenRemoveKeeps ==
  ASSUME IInv, NEW token \in data.tokens
  PROVE  (UserTokenRemove(token) => IInv') /\ (validate(token) => IInv')
<1> DEFINE ts == data.tokens \ {token}
           d == [data EXCEPT !.tokens = ts]
           accept == [do |-> "accept", id |-> token.id]
<1>1. data \in Data /\ token \in Token /\ token.id \in Tokens
  BY ReplacedPart DEF IInv, TypeOK, Token
<1>2. d.tokens = ts
  BY <1>1, ReplacedPart
<1>3. answerThen \in Rest /\ answerThen.do = "answer"
  BY DEF answerThen, Rest
<1>4. accept \in Rest /\ accept.do = "accept" /\ accept.id = token.id
  BY <1>1 DEF Rest
<1> HIDE DEF accept
<1>5. PendingUnused(d, answerThen, issued, uses)
  BY <1>3 DEF PendingUnused
<1>6. failures = 0 => PendingUnused(d, accept, issued, uses)
  BY <1>2, <1>4 DEF IInv, TokensInv, Unused, PendingUnused
<1>7. ts \subseteq data.tokens
  OBVIOUS
<1>8. ASSUME UserTokenRemove(token)
      PROVE  IInv'
  <2>1. phase = "idle" /\ UNCHANGED issued /\ Change([data EXCEPT !.tokens = ts], answerThen)
    BY <1>8 DEF UserTokenRemove, Change
  <2> HIDE DEF ts
  <2> QED BY <1>3, <1>5, <1>7, <2>1, RemovedTokens
<1>9. ASSUME validate(token)
      PROVE  IInv'
  <2>1. /\ phase = "idle" /\ UNCHANGED issued
        /\ \/ Change([data EXCEPT !.tokens = ts], answerThen)
           \/ Change([data EXCEPT !.tokens = ts], accept)
    BY <1>9 DEF validate, Change, accept
  <2> HIDE DEF ts
  <2> QED BY <1>3, <1>4, <1>5, <1>6, <1>7, <2>1, RemovedTokens
<1> QED BY <1>8, <1>9

\* Taking a group out of the users leaves everything else; where the group is
\* not in the list, what is left is the same but for memberships in no group.
LEMMA StrippedUsers ==
  ASSUME data \in Data, NEW g \in AllGroups, onGroupRemoved(g)
  PROVE  /\ data' \in Data /\ data'.groups = data.groups /\ data'.tokens = data.tokens
         /\ DOMAIN data'.users = DOMAIN data.users
         /\ \A i \in DOMAIN data.users : data'.users[i].groups = data.users[i].groups \ {g}
         /\ g \notin data.groups => Stripped(data') = Stripped(data)
<1> DEFINE s == data.users
           us == [i \in DOMAIN s |-> Without(s[i], g)]
<1>1. s \in Seq(User) /\ Len(s) \in Nat /\ DOMAIN s = 1..Len(s)
      /\ \A i \in DOMAIN s : s[i] \in User
  BY LenProperties, ElementOfSeq DEF Data
<1>2. \A i \in DOMAIN s : /\ Without(s[i], g) \in User
                          /\ Without(s[i], g).groups = s[i].groups \ {g}
  BY <1>1 DEF User, Without
<1>3. data' = [data EXCEPT !.users = us]
  BY DEF onGroupRemoved
<1>4. us \in Seq(User)
  <2>1. us \in [1..Len(s) -> User]
    BY <1>1, <1>2
  <2> HIDE DEF us
  <2> QED BY <1>1, <2>1, SeqDef
<1>5. DOMAIN us = DOMAIN s /\ \A i \in DOMAIN s : us[i] = Without(s[i], g)
  OBVIOUS
<1> HIDE DEF us
<1>6. data' \in Data /\ data'.users = us /\ data'.groups = data.groups
      /\ data'.tokens = data.tokens
  BY <1>3, <1>4, ReplacedPart
<1>7. ASSUME g \notin data.groups
      PROVE  Stripped(data') = Stripped(data)
  <2> DEFINE same == [i \in DOMAIN s |-> Within(s[i], data.groups)]
  <2>1. ASSUME NEW i \in DOMAIN s
        PROVE  Within(us[i], data.groups) = Within(s[i], data.groups)
    <3>1. s[i] \in [name : AllNames, groups : SUBSET AllGroups] /\ us[i] = Without(s[i], g)
      BY <1>1, <1>5 DEF User
    <3> QED BY <1>7, <3>1 DEF Without, Within
  <2>2. [i \in DOMAIN us |-> Within(us[i], data.groups)] = same
    BY <1>5, <2>1
  <2>3. Stripped(data) = [data EXCEPT !.users = same]
    BY DEF Stripped
  <2>4. Stripped(data') = [data' EXCEPT !.users = same]
    BY <1>6, <2>2 DEF Stripped
  <2> HIDE DEF same
  <2>5. [data' EXCEPT !.users = same] = [data EXCEPT !.users = same]
    BY <1>3, <1>4, <1>6 DEF Data
  <2> QED BY <2>3, <2>4, <2>5
<1> QED BY <1>2, <1>5, <1>6, <1>7

\* What an operation has left to do, by its kind.
LEMMA RestKinds ==
  ASSUME rest \in Rest
  PROVE  /\ rest.do \in {"answer", "exit", "serve", "strip", "token", "accept"}
         /\ rest.do = "strip" => rest.group \in AllGroups
         /\ rest.do = "token" => rest.token \in Token
         /\ rest.do = "accept" => rest.id \in Tokens
         /\ answerThen \in Rest /\ answerThen.do = "answer"
  BY DEF Rest, answerThen

\* What an operation does after it has written the file: nothing that another
\* write would have to save, but the token of a registration, and no token is
\* accepted twice.
LEMMA ContinueKeeps ==
  ASSUME IInv, Continue
  PROVE  /\ data' \in Data /\ phase' \in Phases /\ rest' = answerThen
         /\ uses' \in [Tokens -> Nat]
         /\ phase' = "idle" => Stripped(data') = Stripped(data)
         /\ phase' = "down" => rest.do = "exit"
         /\ failures = 0 => /\ Unused(data', issued, uses') /\ Unused(data, issued, uses')
                            /\ \A t \in Tokens : uses'[t] <= 1 /\ (uses'[t] > 0 => t \in issued)
         /\ failures = 0 /\ crashes = 0 => InGroups(data', answerThen)
<1>1. data \in Data /\ rest \in Rest /\ uses \in [Tokens -> Nat] /\ rest' = answerThen
  BY DEF IInv, TypeOK, Continue
<1>2. answerThen.do = "answer"
  BY DEF answerThen
<1>3. failures = 0 =>
        /\ Unused(data, issued, uses) /\ PendingUnused(data, rest, issued, uses)
        /\ \A t \in Tokens : uses[t] <= 1 /\ (uses[t] > 0 => t \in issued)
  BY DEF IInv, TokensInv
<1>4. failures = 0 /\ crashes = 0 => InGroups(data, rest)
  BY DEF IInv, GroupsInv
<1>5. CASE rest.do \in {"answer", "serve"}
  <2>1. data' = data /\ uses' = uses /\ phase' = "idle"
    BY <1>5 DEF Continue
  <2>2. failures = 0 /\ crashes = 0 => InGroups(data, answerThen)
    BY <1>2, <1>4, <1>5 DEF InGroups
  <2> QED BY <1>1, <1>3, <2>1, <2>2 DEF Phases
<1>6. CASE rest.do = "strip"
  <2>1. onGroupRemoved(rest.group) /\ uses' = uses /\ phase' = "idle"
    BY <1>6 DEF Continue
  <2>2. /\ data' \in Data /\ data'.groups = data.groups /\ data'.tokens = data.tokens
        /\ DOMAIN data'.users = DOMAIN data.users
        /\ \A i \in DOMAIN data.users : data'.users[i].groups = data.users[i].groups \ {rest.group}
        /\ Stripped(data') = Stripped(data)
    BY <1>1, <1>6, <2>1, RestKinds, StrippedUsers DEF IInv, SavedInv
  <2>3. failures = 0 => Unused(data', issued, uses)
    BY <1>3, <2>2 DEF Unused
  <2>4. failures = 0 /\ crashes = 0 => InGroups(data', answerThen)
    BY <1>4, <2>2 DEF InGroups
  <2> QED BY <1>1, <1>3, <2>1, <2>2, <2>3, <2>4 DEF Phases
<1>7. CASE rest.do = "token"
  <2> DEFINE ts == data.tokens \cup {rest.token}
  <2>1. data' = [data EXCEPT !.tokens = ts] /\ uses' = uses /\ phase' = "changed"
    BY <1>7 DEF Continue
  <2>2. ts \in SUBSET Token
    BY <1>1, <1>7, RestKinds, ReplacedPart
  <2>3. data' \in Data /\ data'.users = data.users /\ data'.groups = data.groups
        /\ data'.tokens = ts
    BY <1>1, <2>1, <2>2, ReplacedPart
  <2>4. failures = 0 => Unused(data', issued, uses)
    BY <1>3, <1>7, <2>3 DEF Unused, PendingUnused
  <2>5. failures = 0 /\ crashes = 0 => InGroups(data', answerThen)
    BY <1>2, <1>4, <1>7, <2>3 DEF InGroups
  <2> QED BY <1>1, <1>3, <2>1, <2>3, <2>4, <2>5 DEF Phases
<1>8. CASE rest.do = "accept"
  <2>1. data' = data /\ uses' = [uses EXCEPT ![rest.id] = @ + 1] /\ phase' = "idle"
    BY <1>8 DEF Continue
  <2>2. rest.id \in Tokens
    BY <1>1, <1>8, RestKinds
  <2>3. \A t \in Tokens : uses'[t] = IF t = rest.id THEN uses[t] + 1 ELSE uses[t]
    BY <1>1, <2>1, <2>2
  <2>4. uses' \in [Tokens -> Nat]
    BY <1>1, <2>1, <2>2
  <2>5. \A token \in data.tokens : token.id \in Tokens
    BY <1>1, ReplacedPart DEF Token
  <2>6. failures = 0 => /\ Unused(data, issued, uses')
                        /\ \A t \in Tokens : uses'[t] <= 1 /\ (uses'[t] > 0 => t \in issued)
    BY <1>1, <1>3, <1>8, <2>2, <2>3, <2>5 DEF Unused, PendingUnused
  <2>7. failures = 0 /\ crashes = 0 => InGroups(data, answerThen)
    BY <1>2, <1>4, <1>8 DEF InGroups
  <2> QED BY <1>1, <2>1, <2>4, <2>6, <2>7 DEF Phases
<1>9. CASE rest.do = "exit"
  <2>1. data' = NoData /\ uses' = uses /\ phase' = "down"
    BY <1>9 DEF Continue
  <2>2. Unused(NoData, issued, uses)
    BY FirstData DEF Unused
  <2> QED BY <1>1, <1>3, <1>9, <2>1, <2>2, FirstData DEF Phases
<1> QED BY <1>1, <1>5, <1>6, <1>7, <1>8, <1>9, RestKinds

\* The file is written and the operation goes on.
LEMMA WriteKeeps == IInv /\ writeFile => IInv'
<1> SUFFICES ASSUME IInv, writeFile PROVE IInv'
  OBVIOUS
<1>1. /\ usersFile' = data /\ unsaved' = FALSE /\ Continue
      /\ UNCHANGED <<expired, failures, crashes, issued>>
  BY DEF writeFile
<1>2. data \in Data /\ rest \in Rest /\ answerThen.do = "answer"
  BY DEF IInv, TypeOK, answerThen
<1>3. fromJson(usersFile)' = data
  <2>1. fromJson(data) = data
    BY <1>2, ReadData
  <2> QED BY <1>1, <2>1 DEF fromJson
<1>4. TypeOK'
  BY <1>1, <1>2, ContinueKeeps, RestKinds DEF IInv, TypeOK
<1>5. SavedInv'
  BY <1>1, <1>2, <1>3, ContinueKeeps DEF SavedInv, AnsweredIsSaved
<1>6. TokensInv'
  <2>1. PendingUnused(data', answerThen, issued, uses')
    BY <1>2 DEF PendingUnused
  <2> QED BY <1>1, <1>3, <2>1, ContinueKeeps DEF TokensInv
<1>7. GroupsInv'
  <2>1. failures = 0 /\ crashes = 0 /\ rest.do = "exit" => InGroups(data, answerThen)
    BY <1>2 DEF IInv, GroupsInv, InGroups
  <2> QED BY <1>1, <1>3, <2>1, ContinueKeeps DEF GroupsInv
<1> QED BY <1>4, <1>5, <1>6, <1>7 DEF IInv

\* The server ends, in whatever way, or a failed write is only logged.
LEMMA FailKeeps == IInv /\ FailOpen => IInv'
<1> SUFFICES ASSUME IInv, FailOpen PROVE IInv'
  OBVIOUS
<1>1. failures' \in 0..MaxFailures /\ failures' # 0
      /\ UNCHANGED <<usersFile, expired, crashes, issued>>
  BY UserManagerAssumption DEF FailOpen, IInv, TypeOK
<1>2. TokensInv' /\ GroupsInv'
  BY <1>1 DEF TokensInv, GroupsInv
<1>3. rest \in Rest /\ answerThen \in Rest /\ answerThen.do = "answer"
  BY RestKinds DEF IInv, TypeOK
<1>4. CASE rest.do \in {"exit", "serve"}
  <2>1. data' = NoData /\ phase' = "down" /\ rest' = answerThen /\ UNCHANGED <<uses, unsaved>>
    BY <1>4 DEF FailOpen
  <2>2. TypeOK'
    BY <1>1, <1>3, <2>1, FirstData DEF IInv, TypeOK, Phases
  <2>3. SavedInv'
    BY <1>3, <2>1 DEF SavedInv, AnsweredIsSaved
  <2> QED BY <1>2, <2>2, <2>3 DEF IInv
<1>5. CASE rest.do \notin {"exit", "serve"}
  <2>1. Continue /\ unsaved' = TRUE
    BY <1>5 DEF FailOpen
  <2>2. TypeOK'
    BY <1>1, <1>3, <2>1, ContinueKeeps DEF IInv, TypeOK
  <2>3. SavedInv'
    BY <1>3, <2>1, ContinueKeeps DEF SavedInv, AnsweredIsSaved
  <2> QED BY <1>2, <2>2, <2>3 DEF IInv
<1> QED BY <1>4, <1>5

\* A start finds in the file what was written last.
LEMMA StartKeeps == IInv /\ Start => IInv'
<1> SUFFICES ASSUME IInv, Start PROVE IInv'
  OBVIOUS
<1>1. /\ phase = "down" /\ unsaved' = FALSE
      /\ UNCHANGED <<usersFile, expired, failures, crashes, issued, uses>>
  BY DEF Start
<1>2. fromJson(usersFile)' = fromJson(usersFile) /\ fromJson(usersFile) \in Data
  BY <1>1, ReadData DEF fromJson, IInv, TypeOK
<1> DEFINE serve == [do |-> "serve"]
<1>3. serve \in Rest /\ serve.do = "serve" /\ answerThen \in Rest /\ answerThen.do = "answer"
  BY DEF Rest, answerThen
<1>4. failures = 0 => /\ Unused(fromJson(usersFile), issued, uses)
                      /\ \A t \in Tokens : uses[t] <= 1 /\ (uses[t] > 0 => t \in issued)
  BY DEF IInv, TokensInv
<1>5. CASE usersFile = Absent
  <2>1. data' = DefaultData /\ phase' = "changed" /\ rest' = serve
    BY <1>5 DEF Start
  <2> HIDE DEF serve
  <2>2. TypeOK'
    BY <1>1, <1>3, <2>1, FirstData DEF IInv, TypeOK, Phases
  <2>3. SavedInv'
    BY <1>3, <2>1 DEF SavedInv, AnsweredIsSaved
  <2>4. TokensInv'
    <3>1. Unused(DefaultData, issued, uses) /\ PendingUnused(DefaultData, serve, issued, uses)
      BY <1>3, FirstData DEF Unused, PendingUnused
    <3> QED BY <1>1, <1>2, <1>4, <2>1, <3>1 DEF TokensInv
  <2>5. GroupsInv'
    BY <2>1, FirstData DEF GroupsInv
  <2> QED BY <2>2, <2>3, <2>4, <2>5 DEF IInv
<1>6. CASE usersFile # Absent
  <2>1. data' = fromJson(usersFile) /\ phase' = "idle" /\ rest' = answerThen
    BY <1>6 DEF Start
  <2>2. TypeOK'
    BY <1>1, <1>2, <1>3, <2>1 DEF IInv, TypeOK, Phases
  <2>3. SavedInv'
    BY <1>2, <1>3, <2>1 DEF SavedInv, AnsweredIsSaved
  <2>4. TokensInv'
    <3>1. PendingUnused(data', answerThen, issued, uses)
      BY <1>3 DEF PendingUnused
    <3> QED BY <1>1, <1>2, <1>4, <2>1, <3>1 DEF TokensInv
  <2>5. GroupsInv'
    BY <1>1, <1>2, <2>1 DEF IInv, GroupsInv
  <2> QED BY <2>2, <2>3, <2>4, <2>5 DEF IInv
<1> QED BY <1>5, <1>6

\* A crash loses what is in memory, and what the truncated file held.
LEMMA OtherStepsKeep ==
  ASSUME IInv
  PROVE  /\ openFile => IInv'
         /\ Shutdown => IInv'
         /\ Crash => IInv'
         /\ \A t \in Tokens : Expire(t) => IInv'
         /\ UNCHANGED vars => IInv'
<1>1. data \in Data /\ rest \in Rest /\ answerThen \in Rest /\ answerThen.do = "answer"
      /\ issued \subseteq Tokens
  BY RestKinds DEF IInv, TypeOK
<1>2. Unused(NoData, issued, uses) /\ PendingUnused(NoData, answerThen, issued, uses)
  BY <1>1, FirstData DEF Unused, PendingUnused
<1>3. ASSUME openFile
      PROVE  IInv'
  <2>1. /\ phase' = "truncated" /\ usersFile' = Torn
        /\ UNCHANGED <<data, rest, expired, failures, crashes, issued, uses, unsaved>>
    BY <1>3 DEF openFile
  <2>2. fromJson(usersFile)' = NoData
    BY <2>1 DEF fromJson
  <2>3. TypeOK'
    BY <2>1 DEF IInv, TypeOK, Phases
  <2>4. SavedInv'
    BY <2>1 DEF IInv, SavedInv, AnsweredIsSaved
  <2>5. TokensInv'
    BY <1>2, <2>1, <2>2 DEF IInv, TokensInv
  <2>6. GroupsInv'
    BY <2>1 DEF IInv, GroupsInv
  <2> QED BY <2>3, <2>4, <2>5, <2>6 DEF IInv
<1>4. ASSUME Shutdown
      PROVE  IInv'
  <2> DEFINE exit == [do |-> "exit"]
  <2>1. Change(data, exit) /\ UNCHANGED issued /\ phase = "idle" /\ rest = answerThen
    BY <1>4 DEF Shutdown, Change, IInv, TypeOK
  <2>2. exit \in Rest /\ exit.do = "exit"
    BY DEF Rest
  <2> HIDE DEF exit
  <2>3. failures = 0 => Unused(data, issued', uses) /\ PendingUnused(data, exit, issued', uses)
    BY <2>1, <2>2 DEF IInv, TokensInv, PendingUnused
  <2>4. failures = 0 /\ crashes = 0 => InGroups(data, exit)
    BY <1>1, <2>1, <2>2 DEF IInv, GroupsInv, InGroups
  <2> QED BY <1>1, <2>1, <2>2, <2>3, <2>4, ChangeKeeps
<1>5. ASSUME Crash
      PROVE  IInv'
  <2>1. /\ data' = NoData /\ phase' = "down" /\ rest' = answerThen
        /\ UNCHANGED <<usersFile, expired, failures, issued, uses, unsaved>>
        /\ crashes' \in 0..MaxCrashes /\ crashes' # 0
    BY <1>5, UserManagerAssumption DEF Crash, IInv, TypeOK
  <2>2. fromJson(usersFile)' = fromJson(usersFile)
    BY <2>1 DEF fromJson
  <2>3. TypeOK'
    BY <1>1, <2>1, FirstData DEF IInv, TypeOK, Phases
  <2>4. SavedInv'
    BY <1>1, <2>1 DEF SavedInv, AnsweredIsSaved
  <2>5. TokensInv'
    BY <1>2, <2>1, <2>2 DEF IInv, TokensInv
  <2>6. GroupsInv'
    BY <2>1 DEF GroupsInv
  <2> QED BY <2>3, <2>4, <2>5, <2>6 DEF IInv
<1>6. ASSUME NEW t \in Tokens, Expire(t)
      PROVE  IInv'
  BY <1>6 DEF Expire, IInv, TypeOK, SavedInv, AnsweredIsSaved, TokensInv, GroupsInv, fromJson
<1>7. ASSUME UNCHANGED vars
      PROVE  IInv'
  BY <1>7 DEF vars, IInv, TypeOK, SavedInv, AnsweredIsSaved, TokensInv, GroupsInv, fromJson
<1> QED BY <1>3, <1>4, <1>5, <1>6, <1>7

LEMMA StepInv ==
  ASSUME IInv, [Next]_vars
  PROVE  IInv'
<1>1. ASSUME Request
      PROVE  IInv'
  BY <1>1, UserRequestKeeps, UserRegisterKeeps, GroupRequestKeeps, TokenGenerateKeeps,
     TokenRemoveKeeps DEF Request
<1>2. ASSUME openFile \/ writeFile \/ FailOpen \/ Start \/ Shutdown \/ Crash
      PROVE  IInv'
  BY <1>2, WriteKeeps, FailKeeps, StartKeeps, OtherStepsKeep
<1>3. ASSUME NEW t \in Tokens, Expire(t)
      PROVE  IInv'
  BY <1>3, OtherStepsKeep
<1>4. CASE UNCHANGED vars
  BY <1>4, OtherStepsKeep
<1> QED BY <1>1, <1>2, <1>3, <1>4 DEF Next

THEOREM Inductive == Spec => []IInv
<1>1. Init => IInv
  BY InitInv
<1>2. IInv /\ [Next]_vars => IInv'
  BY StepInv
<1> QED BY <1>1, <1>2, PTL DEF Spec

(***************************************************************************)
(* The theorems                                                            *)
(***************************************************************************)

\* Every variable has its type; only an operation that has changed the lists
\* has anything left to do.
THEOREM UsersTypeCorrect == Spec => []TypeOK
<1>1. IInv => TypeOK
  BY DEF IInv
<1> QED BY <1>1, Inductive, PTL

\* Whenever no operation is under way and the last write did not fail, the
\* users file gives back what is in memory, but for memberships of groups that
\* have been removed.
THEOREM AnswersAreSaved == Spec => []AnsweredIsSaved
<1>1. IInv => AnsweredIsSaved
  BY DEF IInv, SavedInv
<1> QED BY <1>1, Inductive, PTL

\* As long as no write failed, no token is accepted twice, whatever crashes and
\* restarts come between.
THEOREM TokensOpenOnce == Spec => []TokenUsedOnce
<1>1. IInv => TokenUsedOnce
  BY DEF IInv, TokensInv, TokenUsedOnce
<1> QED BY <1>1, Inductive, PTL

\* As long as the server neither crashes nor fails to write, users are only in
\* groups that exist, but while a group is being taken out of its members.
THEOREM GroupsExistIfOrderly == Spec => []UserGroupsExistIfOrderly
<1>1. IInv => UserGroupsExistIfOrderly
  BY DEF IInv, GroupsInv, InGroups, UserGroupsExistIfOrderly, UserGroupsExist
<1> QED BY <1>1, Inductive, PTL

=============================================================================
