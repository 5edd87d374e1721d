----------------------------- MODULE AccountsProofs -----------------------------
(***************************************************************************)
(* Theorems about SessionManager and UserStore, each by itself, and about   *)
(* Accounts, which composes them with the windows and the connections, for  *)
(* any accounts, connections, windows and bounds.                          *)
(***************************************************************************)
EXTENDS Accounts, FiniteSetTheorems, TLAPS

-----------------------------------------------------------------------------
(* SessionManager. *)

\* The maps keep their types: a logout erases entries, a login overwrites them.
LEMMA SessionTypeStep == TypeOK /\ [Next]_smVars => TypeOK'
<1> SUFFICES ASSUME TypeOK, [Next]_smVars PROVE TypeOK'
  OBVIOUS
<1>1. ASSUME NEW fd \in Fds, NEW u \in Users, Login(fd, u) PROVE TypeOK'
  BY <1>1 DEF Login, TypeOK
<1>2. ASSUME NEW fd \in Fds, Logout(fd) PROVE TypeOK'
  BY <1>2 DEF Logout, TypeOK
<1>3. CASE UNCHANGED smVars
  BY <1>3 DEF smVars, TypeOK
<1> QED BY <1>1, <1>2, <1>3 DEF Next

\* Both maps are total functions over accounts and connections.
THEOREM TypeCorrect == Spec => []TypeOK
<1>1. Init => TypeOK
  BY DEF Init, TypeOK
<1> QED BY <1>1, SessionTypeStep, PTL DEF Spec

\* One step keeps CallerIsNotified.  A login checks that the account is in neither map
\* before it writes both, so the only entry it can break is the one it overwrites.
LEMMA CallerIsNotifiedStep ==
  TypeOK /\ CallerIsNotified /\ [Next]_smVars => CallerIsNotified'
<1> SUFFICES ASSUME TypeOK, CallerIsNotified, [Next]_smVars PROVE CallerIsNotified'
  OBVIOUS
<1>1. ASSUME NEW fd \in Fds, NEW u \in Users, Login(fd, u) PROVE CallerIsNotified'
  <2> SUFFICES ASSUME NEW f \in Fds, NEW v \in Users, fdToUser'[f] = v
               PROVE userIdToFd'[v] = f
    BY DEF CallerIsNotified
  <2>1. CASE f = fd
    BY <1>1, <2>1 DEF Login, TypeOK
  <2>2. CASE f # fd
    <3>1. userIdToFd[v] = f
      BY <1>1, <2>2 DEF Login, TypeOK, CallerIsNotified
    <3>2. v # u
      BY <1>1, <3>1, AbsentValues DEF Login, IsLoggedIn
    <3> QED BY <1>1, <3>1, <3>2 DEF Login, TypeOK
  <2> QED BY <2>1, <2>2
<1>2. ASSUME NEW fd \in Fds, Logout(fd) PROVE CallerIsNotified'
  <2> SUFFICES ASSUME NEW f \in Fds, NEW v \in Users, fdToUser'[f] = v
               PROVE userIdToFd'[v] = f
    BY DEF CallerIsNotified
  <2>1. f # fd /\ fdToUser[f] = v
    BY <1>2, AbsentValues DEF Logout, TypeOK
  <2>2. userIdToFd[v] = f /\ v # fdToUser[fd]
    BY <2>1 DEF CallerIsNotified
  <2> QED BY <1>2, <2>2 DEF Logout, GetUser
<1>3. CASE UNCHANGED smVars
  BY <1>3 DEF smVars, CallerIsNotified
<1> QED BY <1>1, <1>2, <1>3 DEF Next

\* The user a request is handled as is notified on the connection it came from.
THEOREM CallersAreNotified == Spec => []CallerIsNotified
<1>1. Init => CallerIsNotified
  BY AbsentValues DEF Init, CallerIsNotified
<1> QED BY <1>1, TypeCorrect, CallerIsNotifiedStep, PTL DEF Spec

\* "Duplicate login is rejected": no account acts on two connections at once.
THEOREM NoDuplicateLogin == Spec => []OneConnectionPerUser
<1>1. CallerIsNotified => OneConnectionPerUser
  BY DEF CallerIsNotified, OneConnectionPerUser
<1> QED BY <1>1, CallersAreNotified, PTL

LEMMA SessionStep ==
  ASSUME TypeOK, [Next]_smVars, NEW u \in Users, userIdToFd[u] # NoFd
  PROVE  userIdToFd'[u] \in {userIdToFd[u], NoFd}
<1>1. ASSUME NEW fd \in Fds, NEW v \in Users, Login(fd, v)
      PROVE  userIdToFd'[u] = userIdToFd[u]
  BY <1>1 DEF Login, IsLoggedIn, TypeOK
<1>2. ASSUME NEW fd \in Fds, Logout(fd)
      PROVE  userIdToFd'[u] \in {userIdToFd[u], NoFd}
  BY <1>2 DEF Logout
<1>3. CASE UNCHANGED smVars
  BY <1>3 DEF smVars
<1> QED BY <1>1, <1>2, <1>3 DEF Next

\* A session is never moved to another connection without a logout in between.
THEOREM NoTakeover == Spec => SessionsAreNotMoved
<1>1. TypeOK /\ [Next]_smVars =>
        [\A u \in Users : userIdToFd[u] # NoFd =>
            userIdToFd'[u] \in {userIdToFd[u], NoFd}]_smVars
  BY SessionStep
<1> QED BY <1>1, TypeCorrect, PTL DEF Spec, SessionsAreNotMoved

-----------------------------------------------------------------------------
(* UserStore.  The inductive invariant adds to the types that nextId_ is     *)
(* above every id in use, which is what keeps ids unique, and that the file  *)
(* is current or torn, which is what makes a restart bring back everything   *)
(* or nothing.                                                             *)

IdsBelowNext == \A n \in Names : idOf[n] < nextId

StoreInv ==
    /\ StoreTypeOK /\ IdsBelowNext /\ IdsAreUnique /\ FileIsCurrent
    /\ cut \subseteq Registered

OneAdmin == [Nobody EXCEPT ![DefaultAdmin] = 1]

OnlyAdmin == idOf = OneAdmin /\ nextId = 2 /\ usersFile = idOf /\ cut = {}

\* The constructor's loop leaves nextId_ above every id it read.
LEMMA NextIdAfterIsAbove ==
  ASSUME NEW ids \in [Names -> Nat], NEW n \in NextIdAfter(ids)
  PROVE  n \in Nat \ {0} /\ \A m \in Names : ids[m] < n
BY DEF NextIdAfter

\* A store in which "admin" is the only account satisfies the invariant.
LEMMA OneAdminIsGood == OnlyAdmin => StoreInv
<1> SUFFICES ASSUME OnlyAdmin PROVE StoreInv
  OBVIOUS
<1> USE DEF OnlyAdmin
<1>1. DefaultAdmin \in Names /\ DefaultAdmin \in AdminNames
  BY NamesAssumption
<1>2. \A m \in Names : idOf[m] = IF m = DefaultAdmin THEN 1 ELSE 0
  BY <1>1 DEF OneAdmin, Nobody, NoId
<1>3. idOf \in [Names -> Nat]
  BY <1>1 DEF OneAdmin, Nobody, NoId
<1>4. IdsBelowNext
  BY <1>2 DEF IdsBelowNext
<1>5. IdsAreUnique
  BY <1>2 DEF IdsAreUnique, Registered, NoId
<1>6. FileIsCurrent
  BY <1>1, <1>2 DEF FileIsCurrent, Registered, NoId
<1> QED BY <1>3, <1>4, <1>5, <1>6 DEF StoreInv, StoreTypeOK

\* The first start leaves such a store.
LEMMA StoreInitIsGood == StoreInit => StoreInv
BY OneAdminIsGood DEF StoreInit, OneAdmin, OnlyAdmin

\* A registration takes an id above all the others.
LEMMA CreateUserIsGood ==
  ASSUME StoreInv, NEW name \in Names, CreateUser(name)
  PROVE  StoreInv' /\ \A n \in Registered : idOf'[n] = idOf[n]
<1> USE DEF StoreInv, StoreTypeOK, CreateUser, Registers, Saved, NoId
<1>0. /\ cut' \subseteq Registered \cup {name}
      /\ usersFile' = idOf' \/ (cut' # {} /\ usersFile' = Torn)
  OBVIOUS
<1>1. \A n \in Names : idOf'[n] = IF n = name THEN nextId ELSE idOf[n]
  OBVIOUS
<1>2. StoreTypeOK' /\ IdsBelowNext' /\ cut' \subseteq Registered'
  <2>1. idOf' \in [Names -> Nat] /\ nextId' \in Nat \ {0}
    OBVIOUS
  <2>2. Registered \subseteq Registered' /\ name \in Registered'
    BY <1>1 DEF Registered
  <2>3. IdsBelowNext'
    BY <1>1 DEF IdsBelowNext
  <2>4. usersFile' \in [Names -> Nat] \cup {Torn}
    BY <1>0, <2>1
  <2>5. cut' \subseteq Names
    BY <1>0 DEF Registered
  <2> QED BY <1>0, <2>1, <2>2, <2>3, <2>4, <2>5
<1>3. IdsAreUnique'
  BY <1>1 DEF IdsAreUnique, IdsBelowNext, Registered
<1>4. FileIsCurrent'
  <2>1. PICK a \in AdminNames : a \in Registered
    BY DEF FileIsCurrent
  <2>2. a \in Registered'
    BY <1>1, <2>1 DEF Registered
  <2> QED BY <1>0, <2>1, <2>2 DEF FileIsCurrent
<1>5. \A n \in Registered : idOf'[n] = idOf[n]
  BY <1>1 DEF Registered
<1> QED BY <1>2, <1>3, <1>4, <1>5

\* A file that cannot be read leaves nothing but a new administrator, with id 1.
LEMMA LoadOfTornLeavesAdmin ==
  ASSUME Load(Torn)
  PROVE  OnlyAdmin'
<1>1. Loaded(Torn) = Nobody
  BY DEF Loaded
<1>2. \A m \in Names : Nobody[m] = 0
  BY DEF Nobody, NoId
<1>3. NextIdAfter(Nobody) \subseteq {1}
  BY <1>2 DEF NextIdAfter
<1>4. ~ \E a \in AdminNames : Nobody[a] # NoId
  BY <1>2, NamesAssumption DEF NoId
<1>5. cut' = {} /\ \E n \in NextIdAfter(Nobody) :
        /\ idOf' = [Nobody EXCEPT ![DefaultAdmin] = n]
        /\ nextId' = n + 1
        /\ usersFile' = idOf'
  BY <1>1, <1>4 DEF Load
<1>6. PICK n \in NextIdAfter(Nobody) :
        /\ idOf' = [Nobody EXCEPT ![DefaultAdmin] = n]
        /\ nextId' = n + 1
        /\ usersFile' = idOf'
  BY <1>5
<1>7. n = 1
  BY <1>3, <1>6
<1>8. cut' = {}
  BY <1>5
<1> QED BY <1>6, <1>7, <1>8 DEF OnlyAdmin, OneAdmin

LEMMA LoadOfTornIsGood ==
  ASSUME Load(Torn)
  PROVE  StoreInv' /\ idOf' = OneAdmin
<1>1. OnlyAdmin'
  BY LoadOfTornLeavesAdmin
<1>2. StoreInv'
  BY <1>1, OneAdminIsGood, PTL
<1> QED BY <1>1, <1>2 DEF OnlyAdmin

\* A restart with a file that is not torn brings back what was in memory.
LEMMA RestartReads ==
  ASSUME StoreInv, Restart, usersFile # Torn
  PROVE  /\ nextId' \in NextIdAfter(idOf) /\ idOf' = idOf
         /\ usersFile' = idOf /\ cut' = {}
<1>1. usersFile = idOf
  BY DEF StoreInv, FileIsCurrent
<1>2. Loaded(usersFile) = idOf
  BY <1>1 DEF Loaded
<1>3. \E a \in AdminNames : idOf[a] # NoId
  BY DEF StoreInv, FileIsCurrent, Registered
<1> QED BY <1>1, <1>2, <1>3 DEF Restart, Load

LEMMA RestartIsGood ==
  ASSUME StoreInv, Restart
  PROVE  StoreInv' /\ (idOf' = idOf \/ idOf' = OneAdmin)
<1>1. CASE usersFile = Torn
  BY <1>1, LoadOfTornIsGood DEF Restart
<1>2. CASE usersFile # Torn
  <2>1. /\ nextId' \in NextIdAfter(idOf) /\ idOf' = idOf
        /\ usersFile' = idOf /\ cut' = {}
    BY <1>2, RestartReads
  <2>2. nextId' \in Nat \ {0} /\ \A m \in Names : idOf[m] < nextId'
    BY <2>1, NextIdAfterIsAbove DEF StoreInv, StoreTypeOK
  <2> QED
    BY <2>1, <2>2
    DEF StoreInv, StoreTypeOK, IdsBelowNext, IdsAreUnique, FileIsCurrent, Registered
<1> QED BY <1>1, <1>2

\* Every step keeps the invariant, and keeps every account or keeps none.
LEMMA StoreStep ==
  ASSUME StoreInv, [StoreNext]_storeVars
  PROVE  /\ StoreInv'
         /\ \/ \A n \in Registered : idOf'[n] = idOf[n]
            \/ idOf' = OneAdmin
<1>1. ASSUME NEW n \in Names, CreateUser(n)
      PROVE  StoreInv' /\ \A m \in Registered : idOf'[m] = idOf[m]
  BY <1>1, CreateUserIsGood
<1>2. ASSUME NEW n \in Names, DieInSave(n) PROVE StoreInv' /\ idOf' = OneAdmin
  BY <1>2, LoadOfTornIsGood DEF DieInSave
<1>3. CASE Restart
  BY <1>3, RestartIsGood
<1>4. CASE UNCHANGED storeVars
  BY <1>4 DEF storeVars, StoreInv, StoreTypeOK, IdsBelowNext, IdsAreUnique,
              FileIsCurrent, Registered
<1> QED BY <1>1, <1>2, <1>3, <1>4 DEF StoreNext

\* The inductive invariant holds of every behaviour.
THEOREM StoreInvariant == StoreSpec => []StoreInv
<1>1. StoreInit => StoreInv
  BY StoreInitIsGood
<1>2. StoreInv /\ [StoreNext]_storeVars => StoreInv'
  BY StoreStep
<1> QED BY <1>1, <1>2, PTL DEF StoreSpec


\* The accounts, the counter and the file keep their types.
THEOREM StoreTypes == StoreSpec => []StoreTypeOK
<1>1. StoreInv => StoreTypeOK
  BY DEF StoreInv
<1> QED BY <1>1, StoreInvariant, PTL

\* No id is given to two accounts, over any number of restarts and lost files.
THEOREM UniqueIds == StoreSpec => []IdsAreUnique
<1>1. StoreInv => IdsAreUnique
  BY DEF StoreInv
<1> QED BY <1>1, StoreInvariant, PTL

\* The file holds every account or, with an account that cannot be written, none, and
\* there is an administrator.
THEOREM CurrentFile == StoreSpec => []FileIsCurrent
<1>1. StoreInv => FileIsCurrent
  BY DEF StoreInv
<1> QED BY <1>1, StoreInvariant, PTL

\* An account keeps its id, or a restart with a torn file has lost all of them.
THEOREM KeptOrAllLost == StoreSpec => AllAccountsOrNone
<1>1. StoreInv /\ [StoreNext]_storeVars =>
        [\/ \A n \in Registered : idOf'[n] = idOf[n]
         \/ idOf' = [Nobody EXCEPT ![DefaultAdmin] = 1]]_storeVars
  BY StoreStep DEF OneAdmin
<1> QED BY <1>1, StoreInvariant, PTL DEF StoreSpec, AllAccountsOrNone

-----------------------------------------------------------------------------
(* Ids and Users.  Accounts takes the ids for 1 .. Cardinality(Names), which *)
(* is right because ids are given out without gaps.                          *)

Counted ==
    /\ nextId = Cardinality(Registered) + 1
    /\ \E m \in Names : idOf[m] = nextId - 1

LEMMA RegisteredFinite ==
  /\ IsFiniteSet(Names) /\ Cardinality(Names) \in Nat
  /\ Registered \subseteq Names /\ IsFiniteSet(Registered)
  /\ Cardinality(Registered) \in Nat /\ Cardinality(Registered) <= Cardinality(Names)
<1>1. IsFiniteSet(Names) /\ Registered \subseteq Names
  BY NamesAssumption DEF Registered
<1>2. IsFiniteSet(Registered) /\ Cardinality(Registered) <= Cardinality(Names)
  BY <1>1, FS_Subset
<1> QED BY <1>1, <1>2, FS_CardinalityType

\* Every account is one of the users of SessionManager.
LEMMA IdsAreUsers ==
  ASSUME StoreInv, Counted, NEW n \in Registered
  PROVE  idOf[n] \in Users /\ idOf[n] # NoUser
<1>1. n \in Names /\ idOf[n] \in Nat /\ idOf[n] # 0
  BY DEF Registered, NoId, StoreInv, StoreTypeOK
<1>2. idOf[n] < nextId /\ nextId = Cardinality(Registered) + 1
  BY <1>1 DEF StoreInv, IdsBelowNext, Counted
<1>3. idOf[n] \in 1 .. Cardinality(Names)
  BY <1>1, <1>2, RegisteredFinite
<1> QED BY <1>1, <1>3, AccountsAssumption DEF NoId

LEMMA OnlyAdminCounted == OnlyAdmin => Counted
<1> SUFFICES ASSUME OnlyAdmin PROVE Counted
  OBVIOUS
<1>1. DefaultAdmin \in Names
  BY NamesAssumption
<1>2. \A m \in Names : idOf[m] = IF m = DefaultAdmin THEN 1 ELSE 0
  BY <1>1 DEF OnlyAdmin, OneAdmin, Nobody, NoId
<1>3. Registered = {DefaultAdmin}
  BY <1>1, <1>2 DEF Registered, NoId
<1>4. Cardinality(Registered) = 1
  BY <1>3, FS_Singleton
<1>5. nextId = 2 /\ idOf[DefaultAdmin] = 1
  BY <1>1, <1>2 DEF OnlyAdmin
<1> QED BY <1>1, <1>4, <1>5 DEF Counted

LEMMA CountedStep ==
  ASSUME StoreInv, Counted, [StoreNext]_storeVars
  PROVE  Counted'
<1>0. nextId \in Nat /\ idOf \in [Names -> Nat]
  BY DEF StoreInv, StoreTypeOK
<1>1. ASSUME NEW n \in Names, CreateUser(n) PROVE Counted'
  <2>1. n \notin Registered /\ Registered' = Registered \cup {n}
    BY <1>0, <1>1, NamesAssumption DEF CreateUser, Registers, Registered, StoreInv, StoreTypeOK,
       NoId
  <2>2. Cardinality(Registered') = Cardinality(Registered) + 1
    BY <2>1, RegisteredFinite, FS_AddElement
  <2>3. nextId' = nextId + 1 /\ idOf'[n] = nextId
    BY <1>0, <1>1 DEF CreateUser, Registers
  <2>4. Cardinality(Registered) \in Nat
    BY RegisteredFinite
  <2> QED BY <1>0, <2>2, <2>3, <2>4 DEF Counted
<1>2. ASSUME NEW n \in Names, DieInSave(n) PROVE Counted'
  <2>1. OnlyAdmin'
    BY <1>2, LoadOfTornLeavesAdmin DEF DieInSave
  <2> QED BY <2>1, OnlyAdminCounted, PTL
<1>5. CASE Restart /\ usersFile = Torn
  <2>1. OnlyAdmin'
    BY <1>5, LoadOfTornLeavesAdmin DEF Restart
  <2> QED BY <2>1, OnlyAdminCounted, PTL
<1>3. CASE Restart /\ usersFile # Torn
  <2>1. idOf' = idOf /\ nextId' \in NextIdAfter(idOf)
    BY <1>3, RestartReads
  <2>2. PICK m \in Names : idOf[m] = nextId - 1
    BY DEF Counted
  <2>3. /\ nextId' \in {1} \cup {idOf[k] + 1 : k \in Names}
        /\ \A k \in Names : idOf[k] < nextId'
    BY <2>1 DEF NextIdAfter
  <2>4. \A k \in Names : idOf[k] < nextId
    BY DEF StoreInv, IdsBelowNext
  <2>5. nextId' = nextId
    <3>1. nextId' > nextId - 1 /\ nextId' \in Nat
      BY <1>0, <2>2, <2>3
    <3>2. CASE nextId' = 1
      BY <1>0, <3>1, <3>2 DEF StoreInv, StoreTypeOK
    <3>3. CASE nextId' \in {idOf[k] + 1 : k \in Names}
      BY <1>0, <2>4, <3>1, <3>3
    <3> QED BY <2>3, <3>2, <3>3
  <2> QED BY <2>1, <2>5 DEF Counted, Registered
<1>4. CASE UNCHANGED storeVars
  BY <1>4 DEF storeVars, Counted, Registered
<1> QED BY <1>1, <1>2, <1>3, <1>4, <1>5 DEF StoreNext

-----------------------------------------------------------------------------
(* What is under way between a window and the server.  The server takes the  *)
(* connection for user u, where a cut account, whose login is never          *)
(* answered, counts as nobody; the window shows p and asked last for an account   *)
(* with the id given; q are its requests and a the answers to it under way.  *)

Requests ==
    [type : {"LOGIN_REQ", "LOGOUT_REQ", "CREATE_USER_REQ"}, name : Names]

Answered == Users \cup {NoUser}

LoginsAsk(q, name) ==
    \A i \in 1 .. Len(q) : q[i].type = "LOGIN_REQ" => q[i].name = name

NoLogout(q) == \A i \in 1 .. Len(q) : q[i].type # "LOGOUT_REQ"

\* One logout, and no login before it that could let anybody else in.
LogsOutOnce(q, u, id) ==
    \E k \in 1 .. Len(q) :
        /\ q[k].type = "LOGOUT_REQ"
        /\ \A i \in 1 .. Len(q) : q[i].type = "LOGOUT_REQ" => i = k
        /\ \A i \in 1 .. Len(q) : i < k /\ q[i].type = "LOGIN_REQ" => id = u

Refusals(a) == \A i \in 1 .. Len(a) : a[i] = NoUser

AdmitsOnce(a, u) ==
    \E k \in 1 .. Len(a) :
        a[k] = u /\ \A i \in 1 .. Len(a) : i # k => a[i] = NoUser

\* The window shows the user's page.
Shown(u, p, id, q, a) ==
    u # NoUser /\ p = u /\ id = u /\ NoLogout(q) /\ Refusals(a)

\* The user has clicked logout and the server does not know it yet.
Leaving(u, p, id, q, a) ==
    u # NoUser /\ p = NoUser /\ LogsOutOnce(q, u, id) /\ Refusals(a)

\* Nobody is logged in at either end.
Anonymous(u, p, id, q, a) ==
    u = NoUser /\ p = NoUser /\ NoLogout(q) /\ Refusals(a)

\* The server has let the user in and the window does not know it yet.
Admitted(u, p, id, q, a) ==
    u # NoUser /\ p = NoUser /\ id = u /\ NoLogout(q) /\ AdmitsOnce(a, u)

Talk(u, p, id, q, a) ==
    \/ Shown(u, p, id, q, a)
    \/ Leaving(u, p, id, q, a)
    \/ Anonymous(u, p, id, q, a)
    \/ Admitted(u, p, id, q, a)

-----------------------------------------------------------------------------
(* One step of such a conversation. *)

LEMMA Appends ==
  ASSUME NEW E, NEW s \in Seq(E), NEW e \in E
  PROVE  /\ Append(s, e) \in Seq(E) /\ Len(Append(s, e)) = Len(s) + 1
         /\ Len(s) \in Nat
         /\ Append(s, e)[Len(s) + 1] = e
         /\ \A i \in 1 .. Len(s) : Append(s, e)[i] = s[i]
OBVIOUS

LEMMA Tails ==
  ASSUME NEW E, NEW s \in Seq(E), s # <<>>
  PROVE  /\ Tail(s) \in Seq(E) /\ Len(Tail(s)) = Len(s) - 1
         /\ Len(s) \in Nat /\ Len(s) > 0
         /\ Head(s) \in E /\ Head(s) = s[1]
         /\ \A i \in 1 .. Len(s) - 1 : Tail(s)[i] = s[i + 1]
OBVIOUS

\* A request that is received leaves the rest.
LEMMA RequestTaken ==
  ASSUME NEW q \in Seq(Requests), q # <<>>
  PROVE  /\ \A name : LoginsAsk(q, name) => LoginsAsk(Tail(q), name)
         /\ NoLogout(q) => NoLogout(Tail(q)) /\ Head(q).type # "LOGOUT_REQ"
         /\ \A u, id : LogsOutOnce(q, u, id) =>
               IF Head(q).type = "LOGOUT_REQ" THEN NoLogout(Tail(q))
               ELSE LogsOutOnce(Tail(q), u, id)
<1> DEFINE t == Tail(q)
<1>1. /\ Len(t) = Len(q) - 1 /\ Len(q) \in Nat /\ Len(q) > 0 /\ Head(q) = q[1]
      /\ \A i \in 1 .. Len(q) - 1 : t[i] = q[i + 1]
  BY Tails
<1> HIDE DEF t
<1>2. \A i \in 1 .. Len(t) : i + 1 \in 1 .. Len(q) /\ t[i] = q[i + 1]
  BY <1>1
<1>3. ASSUME NEW name, LoginsAsk(q, name) PROVE LoginsAsk(t, name)
  BY <1>2, <1>3 DEF LoginsAsk
<1>4. ASSUME NoLogout(q) PROVE NoLogout(t) /\ Head(q).type # "LOGOUT_REQ"
  BY <1>1, <1>2, <1>4 DEF NoLogout
<1>5. ASSUME NEW u, NEW id, LogsOutOnce(q, u, id)
      PROVE  IF Head(q).type = "LOGOUT_REQ" THEN NoLogout(t)
             ELSE LogsOutOnce(t, u, id)
  <2>1. PICK k \in 1 .. Len(q) :
          /\ q[k].type = "LOGOUT_REQ"
          /\ \A i \in 1 .. Len(q) : q[i].type = "LOGOUT_REQ" => i = k
          /\ \A i \in 1 .. Len(q) : i < k /\ q[i].type = "LOGIN_REQ" => id = u
    BY <1>5 DEF LogsOutOnce
  <2>2. CASE k = 1
    <3>1. \A i \in 1 .. Len(t) : t[i].type # "LOGOUT_REQ"
      BY <1>2, <2>1, <2>2
    <3> QED BY <1>1, <2>1, <2>2, <3>1 DEF NoLogout
  <2>3. CASE k # 1
    <3>1. Head(q).type # "LOGOUT_REQ"
      BY <1>1, <2>1, <2>3
    <3>2. k - 1 \in 1 .. Len(t) /\ t[k - 1].type = "LOGOUT_REQ"
      BY <1>1, <2>1, <2>3
    <3>3. \A i \in 1 .. Len(t) : t[i].type = "LOGOUT_REQ" => i = k - 1
      BY <1>2, <2>1
    <3>4. \A i \in 1 .. Len(t) : i < k - 1 /\ t[i].type = "LOGIN_REQ" => id = u
      BY <1>2, <2>1
    <3>5. LogsOutOnce(t, u, id)
      BY <3>2, <3>3, <3>4 DEF LogsOutOnce
    <3> QED BY <3>1, <3>5
  <2> QED BY <2>2, <2>3
<1> QED BY <1>3, <1>4, <1>5 DEF t

\* A request that is sent goes to the end.
LEMMA RequestSent ==
  ASSUME NEW q \in Seq(Requests), NEW m \in Requests
  PROVE  /\ \A name : LoginsAsk(q, name) /\ (m.type = "LOGIN_REQ" => m.name = name) =>
                LoginsAsk(Append(q, m), name)
         /\ NoLogout(q) /\ m.type # "LOGOUT_REQ" => NoLogout(Append(q, m))
         /\ \A u : NoLogout(q) /\ m.type = "LOGOUT_REQ" =>
                LogsOutOnce(Append(q, m), u, u)
         /\ \A u, id : LogsOutOnce(q, u, id) /\ m.type # "LOGOUT_REQ" =>
                LogsOutOnce(Append(q, m), u, id)
<1> DEFINE t == Append(q, m)
<1>1. /\ Len(t) = Len(q) + 1 /\ Len(q) \in Nat /\ t[Len(q) + 1] = m
      /\ \A i \in 1 .. Len(q) : t[i] = q[i]
  BY Appends
<1> HIDE DEF t
<1>2. \A i \in 1 .. Len(t) :
        \/ i \in 1 .. Len(q) /\ t[i] = q[i]
        \/ i = Len(q) + 1 /\ t[i] = m
  BY <1>1
<1>3. ASSUME NEW name, LoginsAsk(q, name), m.type = "LOGIN_REQ" => m.name = name
      PROVE  LoginsAsk(t, name)
  BY <1>2, <1>3 DEF LoginsAsk
<1>4. ASSUME NoLogout(q), m.type # "LOGOUT_REQ" PROVE NoLogout(t)
  BY <1>2, <1>4 DEF NoLogout
<1>5. ASSUME NEW u, NoLogout(q), m.type = "LOGOUT_REQ" PROVE LogsOutOnce(t, u, u)
  <2>1. Len(q) + 1 \in 1 .. Len(t) /\ t[Len(q) + 1].type = "LOGOUT_REQ"
    BY <1>1, <1>5
  <2>2. \A i \in 1 .. Len(t) : t[i].type = "LOGOUT_REQ" => i = Len(q) + 1
    BY <1>2, <1>5 DEF NoLogout
  <2> QED BY <2>1, <2>2 DEF LogsOutOnce
<1>6. ASSUME NEW u, NEW id, LogsOutOnce(q, u, id), m.type # "LOGOUT_REQ"
      PROVE  LogsOutOnce(t, u, id)
  <2>1. PICK k \in 1 .. Len(q) :
          /\ q[k].type = "LOGOUT_REQ"
          /\ \A i \in 1 .. Len(q) : q[i].type = "LOGOUT_REQ" => i = k
          /\ \A i \in 1 .. Len(q) : i < k /\ q[i].type = "LOGIN_REQ" => id = u
    BY <1>6 DEF LogsOutOnce
  <2>2. k \in 1 .. Len(t) /\ t[k].type = "LOGOUT_REQ"
    BY <1>1, <2>1
  <2>3. \A i \in 1 .. Len(t) : t[i].type = "LOGOUT_REQ" => i = k
    BY <1>2, <1>6, <2>1
  <2>4. \A i \in 1 .. Len(t) : i < k /\ t[i].type = "LOGIN_REQ" => id = u
    BY <1>1, <1>2, <2>1
  <2> QED BY <2>2, <2>3, <2>4 DEF LogsOutOnce
<1> QED BY <1>3, <1>4, <1>5, <1>6 DEF t

LEMMA AnswerTaken ==
  ASSUME NEW a \in Seq(Answered), a # <<>>
  PROVE  /\ Refusals(a) => Refusals(Tail(a)) /\ Head(a) = NoUser
         /\ \A u : AdmitsOnce(a, u) /\ u # NoUser =>
                \/ Head(a) = u /\ Refusals(Tail(a))
                \/ Head(a) = NoUser /\ AdmitsOnce(Tail(a), u)
<1> DEFINE t == Tail(a)
<1>1. /\ Len(t) = Len(a) - 1 /\ Len(a) \in Nat /\ Len(a) > 0 /\ Head(a) = a[1]
      /\ \A i \in 1 .. Len(a) - 1 : t[i] = a[i + 1]
  BY Tails
<1> HIDE DEF t
<1>2. \A i \in 1 .. Len(t) : i + 1 \in 1 .. Len(a) /\ t[i] = a[i + 1]
  BY <1>1
<1>3. ASSUME Refusals(a) PROVE Refusals(t) /\ Head(a) = NoUser
  BY <1>1, <1>2, <1>3 DEF Refusals
<1>4. ASSUME NEW u, AdmitsOnce(a, u), u # NoUser
      PROVE  \/ Head(a) = u /\ Refusals(t)
             \/ Head(a) = NoUser /\ AdmitsOnce(t, u)
  <2>1. PICK k \in 1 .. Len(a) :
          a[k] = u /\ \A i \in 1 .. Len(a) : i # k => a[i] = NoUser
    BY <1>4 DEF AdmitsOnce
  <2>2. CASE k = 1
    BY <1>1, <1>2, <2>1, <2>2 DEF Refusals
  <2>3. CASE k # 1
    <3>1. k - 1 \in 1 .. Len(t) /\ t[k - 1] = u
      BY <1>1, <2>1, <2>3
    <3>2. \A i \in 1 .. Len(t) : i # k - 1 => t[i] = NoUser
      BY <1>2, <2>1
    <3>3. Head(a) = NoUser
      BY <1>1, <2>1, <2>3
    <3> QED BY <3>1, <3>2, <3>3 DEF AdmitsOnce
  <2> QED BY <2>2, <2>3
<1> QED BY <1>3, <1>4 DEF t

LEMMA AnswerSent ==
  ASSUME NEW a \in Seq(Answered), NEW v \in Answered
  PROVE  /\ Refusals(a) /\ v = NoUser => Refusals(Append(a, v))
         /\ Refusals(a) => AdmitsOnce(Append(a, v), v)
         /\ \A u : AdmitsOnce(a, u) /\ v = NoUser => AdmitsOnce(Append(a, v), u)
<1> DEFINE t == Append(a, v)
<1>1. /\ Len(t) = Len(a) + 1 /\ Len(a) \in Nat /\ t[Len(a) + 1] = v
      /\ \A i \in 1 .. Len(a) : t[i] = a[i]
  BY Appends
<1> HIDE DEF t
<1>2. \A i \in 1 .. Len(t) :
        \/ i \in 1 .. Len(a) /\ t[i] = a[i]
        \/ i = Len(a) + 1 /\ t[i] = v
  BY <1>1
<1>3. ASSUME Refusals(a), v = NoUser PROVE Refusals(t)
  BY <1>2, <1>3 DEF Refusals
<1>4. ASSUME Refusals(a) PROVE AdmitsOnce(t, v)
  <2>1. Len(a) + 1 \in 1 .. Len(t)
    BY <1>1
  <2>2. \A i \in 1 .. Len(t) : i # Len(a) + 1 => t[i] = NoUser
    BY <1>2, <1>4 DEF Refusals
  <2> QED BY <1>1, <2>1, <2>2 DEF AdmitsOnce
<1>5. ASSUME NEW u, AdmitsOnce(a, u), v = NoUser PROVE AdmitsOnce(t, u)
  <2>1. PICK k \in 1 .. Len(a) :
          a[k] = u /\ \A i \in 1 .. Len(a) : i # k => a[i] = NoUser
    BY <1>5 DEF AdmitsOnce
  <2>2. k \in 1 .. Len(t) /\ t[k] = u
    BY <1>1, <2>1
  <2>3. \A i \in 1 .. Len(t) : i # k => t[i] = NoUser
    BY <1>2, <1>5, <2>1
  <2> QED BY <2>2, <2>3 DEF AdmitsOnce
<1> QED BY <1>3, <1>4, <1>5 DEF t

\* Another id for the name asked for, when u's own does not change.
LEMMA TalkKnown ==
  ASSUME NEW u, NEW p, NEW id, NEW id2, NEW q, NEW a, Talk(u, p, id, q, a),
         u # NoUser /\ id = u => id2 = u
  PROVE  Talk(u, p, id2, q, a)
<1>1. CASE Shown(u, p, id, q, a)
  BY <1>1 DEF Shown, Talk
<1>2. CASE Leaving(u, p, id, q, a)
  <2>1. LogsOutOnce(q, u, id2)
    BY <1>2 DEF Leaving, LogsOutOnce
  <2> QED BY <1>2, <2>1 DEF Leaving, Talk
<1>3. CASE Anonymous(u, p, id, q, a)
  BY <1>3 DEF Anonymous, Talk
<1>4. CASE Admitted(u, p, id, q, a)
  BY <1>4 DEF Admitted, Talk
<1> QED BY <1>1, <1>2, <1>3, <1>4 DEF Talk

\* The server takes a request that changes nothing and says nothing, or refuses.
LEMMA TalkIgnored ==
  ASSUME NEW u, NEW p, NEW id, NEW q \in Seq(Requests), NEW a \in Seq(Answered),
         Talk(u, p, id, q, a), q # <<>>, Head(q).type # "LOGOUT_REQ"
  PROVE  /\ Talk(u, p, id, Tail(q), a)
         /\ Talk(u, p, id, Tail(q), Append(a, NoUser))
<1>1. NoLogout(q) => NoLogout(Tail(q))
  BY RequestTaken
<1>2. LogsOutOnce(q, u, id) => LogsOutOnce(Tail(q), u, id)
  BY RequestTaken
<1>3. Refusals(a) => Refusals(Append(a, NoUser))
  BY AnswerSent DEF Answered
<1>4. AdmitsOnce(a, u) => AdmitsOnce(Append(a, NoUser), u)
  BY AnswerSent DEF Answered
<1> QED
  BY <1>1, <1>2, <1>3, <1>4 DEF Talk, Shown, Leaving, Anonymous, Admitted

\* Before a logout nobody asks for another account.
LEMMA LeavesNobodyElseIn ==
  ASSUME NEW u, NEW p, NEW id \in Users, NEW q \in Seq(Requests), NEW a,
         q # <<>>, Head(q).type = "LOGIN_REQ", id # u
  PROVE  ~Leaving(u, p, id, q, a)
<1> SUFFICES ASSUME Leaving(u, p, id, q, a) PROVE FALSE
  OBVIOUS
<1>1. PICK k \in 1 .. Len(q) :
        /\ q[k].type = "LOGOUT_REQ"
        /\ \A i \in 1 .. Len(q) : i < k /\ q[i].type = "LOGIN_REQ" => id = u
  BY DEF Leaving, LogsOutOnce
<1>2. q[1].type = "LOGIN_REQ" /\ 1 \in 1 .. Len(q) /\ Len(q) \in Nat
  BY Tails
<1>3. 1 < k
  BY <1>1, <1>2
<1> QED BY <1>1, <1>2, <1>3

\* The server lets the account in that is asked for.  It is not u's, who is logged in, so
\* the connection was anonymous: before a logout nobody asks for another account.
LEMMA TalkAdmitted ==
  ASSUME NEW u, NEW p, NEW id \in Users, NEW q \in Seq(Requests),
         NEW a \in Seq(Answered), Talk(u, p, id, q, a), q # <<>>,
         Head(q).type = "LOGIN_REQ", id # u
  PROVE  Talk(id, p, id, Tail(q), Append(a, id))
<1>1. ~Shown(u, p, id, q, a) /\ ~Admitted(u, p, id, q, a)
  BY DEF Shown, Admitted
<1>2. ~Leaving(u, p, id, q, a)
  BY LeavesNobodyElseIn
<1>3. Anonymous(u, p, id, q, a)
  BY <1>1, <1>2 DEF Talk
<1>4. NoLogout(Tail(q))
  BY <1>3, RequestTaken DEF Anonymous
<1>5. AdmitsOnce(Append(a, id), id)
  BY <1>3, AnswerSent DEF Anonymous, Answered
<1> QED BY <1>3, <1>4, <1>5, AbsentValues DEF Anonymous, Admitted, Talk

\* The same with a cut account: nobody is told, and the connection is as good as anonymous.
LEMMA TalkAdmittedUntold ==
  ASSUME NEW u, NEW p, NEW id \in Users, NEW q \in Seq(Requests),
         NEW a \in Seq(Answered), Talk(u, p, id, q, a), q # <<>>,
         Head(q).type = "LOGIN_REQ", id # u
  PROVE  Talk(NoUser, p, id, Tail(q), a)
<1>1. ~Shown(u, p, id, q, a) /\ ~Admitted(u, p, id, q, a)
  BY DEF Shown, Admitted
<1>2. ~Leaving(u, p, id, q, a)
  BY LeavesNobodyElseIn
<1>3. Anonymous(u, p, id, q, a)
  BY <1>1, <1>2 DEF Talk
<1>4. NoLogout(Tail(q))
  BY <1>3, RequestTaken DEF Anonymous
<1> QED BY <1>3, <1>4 DEF Anonymous, Talk

\* The server takes the logout: nothing else of the old session is under way.
LEMMA TalkLoggedOut ==
  ASSUME NEW u, NEW p, NEW id, NEW q \in Seq(Requests), NEW a \in Seq(Answered),
         Talk(u, p, id, q, a), q # <<>>, Head(q).type = "LOGOUT_REQ"
  PROVE  Talk(NoUser, p, id, Tail(q), a)
<1>1. ~NoLogout(q)
  BY RequestTaken
<1>2. Leaving(u, p, id, q, a)
  BY <1>1 DEF Talk, Shown, Anonymous, Admitted
<1>3. NoLogout(Tail(q))
  BY <1>2, RequestTaken DEF Leaving
<1> QED BY <1>2, <1>3 DEF Leaving, Anonymous, Talk

\* A request is sent that is not a logout.
LEMMA TalkSent ==
  ASSUME NEW u, NEW p, NEW id, NEW q \in Seq(Requests), NEW a,
         NEW m \in Requests, Talk(u, p, id, q, a), m.type # "LOGOUT_REQ"
  PROVE  Talk(u, p, id, Append(q, m), a)
<1>1. NoLogout(q) => NoLogout(Append(q, m))
  BY RequestSent
<1>2. LogsOutOnce(q, u, id) => LogsOutOnce(Append(q, m), u, id)
  BY RequestSent
<1> QED BY <1>1, <1>2 DEF Talk, Shown, Leaving, Anonymous, Admitted

\* The user of the page clicks logout.
LEMMA TalkLogoutSent ==
  ASSUME NEW u, NEW p, NEW id, NEW q \in Seq(Requests), NEW a,
         NEW m \in Requests, Talk(u, p, id, q, a), m.type = "LOGOUT_REQ",
         p # NoUser
  PROVE  Talk(u, NoUser, id, Append(q, m), a)
<1>1. Shown(u, p, id, q, a)
  BY DEF Talk, Leaving, Anonymous, Admitted
<1>2. LogsOutOnce(Append(q, m), u, u)
  BY <1>1, RequestSent DEF Shown
<1> QED BY <1>1, <1>2 DEF Shown, Leaving, Talk

\* With no login under way, the window asks for whatever account it likes.
LEMMA TalkAsksAnew ==
  ASSUME NEW u, NEW p, NEW id, NEW id2, NEW q, NEW a, Talk(u, p, id, q, a),
         p = NoUser, a = <<>>, \A i \in 1 .. Len(q) : q[i].type # "LOGIN_REQ"
  PROVE  Talk(u, p, id2, q, a)
<1>1. ~AdmitsOnce(a, u)
  BY DEF AdmitsOnce
<1>2. CASE Leaving(u, p, id, q, a)
  <2>1. LogsOutOnce(q, u, id2)
    BY <1>2 DEF Leaving, LogsOutOnce
  <2> QED BY <1>2, <2>1 DEF Leaving, Talk
<1>3. CASE Anonymous(u, p, id, q, a)
  BY <1>3 DEF Anonymous, Talk
<1> QED BY <1>1, <1>2, <1>3 DEF Talk, Shown, Admitted

\* The window receives an answer, which the login page follows and the others ignore.
LEMMA TalkReceived ==
  ASSUME NEW u, NEW p, NEW id, NEW q, NEW a \in Seq(Answered),
         Talk(u, p, id, q, a), a # <<>>
  PROVE  Talk(u, IF p = NoUser THEN Head(a) ELSE p, id, q, Tail(a))
<1>1. Refusals(a) => Refusals(Tail(a)) /\ Head(a) = NoUser
  BY AnswerTaken
<1>2. AdmitsOnce(a, u) /\ u # NoUser =>
        \/ Head(a) = u /\ Refusals(Tail(a))
        \/ Head(a) = NoUser /\ AdmitsOnce(Tail(a), u)
  BY AnswerTaken
<1>3. CASE Shown(u, p, id, q, a)
  BY <1>1, <1>3 DEF Shown, Talk
<1>4. CASE Leaving(u, p, id, q, a)
  BY <1>1, <1>4 DEF Leaving, Talk
<1>5. CASE Anonymous(u, p, id, q, a)
  BY <1>1, <1>5 DEF Anonymous, Talk
<1>6. CASE Admitted(u, p, id, q, a)
  BY <1>2, <1>6 DEF Admitted, Shown, Talk
<1> QED BY <1>3, <1>4, <1>5, <1>6 DEF Talk

-----------------------------------------------------------------------------
(* The invariant of Accounts: what is under way on every living connection   *)
(* that a window has, as long as nobody asks for a second account before the *)
(* first answer, and that a new connection starts with nothing.              *)

AccountsType ==
    /\ TypeOK
    /\ clients \subseteq Fds /\ nextFd \in Nat
    /\ sock \in [Windows -> Fds \cup {NoFd}]
    /\ page \in [Windows -> Answered]
    /\ asked \in [Windows -> Names]
    /\ toServer \in [Fds -> Seq(Requests)]
    /\ toClient \in [Fds -> Seq(Answered)]

Fresh ==
    /\ \A fd \in Fds : fd >= nextFd =>
          toServer[fd] = <<>> /\ toClient[fd] = <<>> /\ fdToUser[fd] = NoUser
    /\ \A fd \in clients : fd < nextFd
    /\ \A w \in Windows : sock[w] # NoFd => sock[w] < nextFd

OwnConnections ==
    \A v, w \in Windows : sock[v] = sock[w] /\ sock[v] # NoFd => v = w

\* Whom the window may come to hear of.
Seen(u) == IF u \in CutIds THEN NoUser ELSE u

InConversation(w) ==
    sock[w] \in clients =>
        /\ LoginsAsk(toServer[sock[w]], asked[w])
        /\ Talk(Seen(fdToUser[sock[w]]), page[w], idOf[asked[w]], toServer[sock[w]],
                toClient[sock[w]])

Talks(w) == ~Impatient => InConversation(w)

SessionsAreAccounts ==
    \A fd \in Fds : fdToUser[fd] # NoUser =>
        \E n \in Registered : idOf[n] = fdToUser[fd]

AccountsBase ==
    AccountsType /\ StoreInv /\ Counted /\ CallerIsNotified /\ SessionsAreAccounts

AccountsInv ==
    AccountsBase /\ Fresh /\ OwnConnections /\ \A w \in Windows : Talks(w)

LEMMA FdFacts ==
  /\ \A fd \in Fds : fd \in Int /\ fd >= 1
  /\ NoFd \notin Fds /\ NoUser \notin Users
<1> DEFINE n == Cardinality(Fds)
<1>1. Fds = 1 .. n
  BY AccountsAssumption
<1> HIDE DEF n
<1>2. \A fd \in 1 .. n : fd \in Int /\ fd >= 1
  OBVIOUS
<1> QED BY <1>1, <1>2, AbsentValues

LEMMA AccountsInitIsGood == AccountsInit => AccountsInv
<1> SUFFICES ASSUME AccountsInit PROVE AccountsInv
  OBVIOUS
<1>1. OnlyAdmin
  BY DEF AccountsInit, StoreInit, OnlyAdmin, OneAdmin
<1>2. StoreInv /\ Counted
  BY <1>1, OneAdminIsGood, OnlyAdminCounted
<1>3. AccountsType
  <2>1. DefaultAdmin \in Names /\ <<>> \in Seq(Requests) /\ <<>> \in Seq(Answered)
    BY NamesAssumption
  <2>2. TypeOK /\ clients = {} /\ nextFd = 1
    BY DEF AccountsInit, Init, TypeOK
  <2>3. /\ sock \in [Windows -> Fds \cup {NoFd}]
        /\ page \in [Windows -> Answered]
        /\ asked \in [Windows -> Names]
    BY <2>1 DEF AccountsInit, Answered
  <2>4. toServer \in [Fds -> Seq(Requests)] /\ toClient \in [Fds -> Seq(Answered)]
    BY <2>1 DEF AccountsInit
  <2> QED BY <2>2, <2>3, <2>4 DEF AccountsType
<1>4. CallerIsNotified
  BY AbsentValues DEF AccountsInit, Init, CallerIsNotified
<1>5. Fresh /\ OwnConnections
  BY FdFacts DEF AccountsInit, Init, Fresh, OwnConnections
<1>6. \A w \in Windows : Talks(w)
  BY DEF AccountsInit, Talks, InConversation
<1>7. SessionsAreAccounts
  BY DEF AccountsInit, Init, SessionsAreAccounts
<1> QED BY <1>2, <1>3, <1>4, <1>5, <1>6, <1>7 DEF AccountsInv, AccountsBase

\* A name that somebody asks to log in with has an id among the users.
LEMMA IdOfName ==
  ASSUME StoreInv, Counted, NEW n \in Names
  PROVE  idOf[n] = NoUser \/ idOf[n] \in Users
<1>1. CASE n \in Registered
  BY <1>1, IdsAreUsers
<1>2. CASE n \notin Registered
  BY <1>2, AccountsAssumption DEF Registered
<1> QED BY <1>1, <1>2

-----------------------------------------------------------------------------
(* What each step does to the sessions and to the store. *)

Resets == fdToUser' = [fd \in Fds |-> NoUser] /\ userIdToFd' = [u \in Users |-> NoFd]

LEMMA HandleSteps ==
  ASSUME AccountsBase, NEW fd \in Fds, Handle(fd)
  PROVE  [Next]_smVars /\ [StoreNext]_storeVars
<1> DEFINE m == Head(toServer[fd])
<1>1. m \in Requests
  BY Tails DEF AccountsBase, AccountsType, Handle
<1>2. CASE HandleLogin(fd, m)
  <2>1. UNCHANGED storeVars
    BY <1>2 DEF HandleLogin
  <2>2. m.name \in Names /\ (LogsIn(fd, m.name) \/ UNCHANGED smVars)
    BY <1>1, <1>2 DEF HandleLogin, AnswersLogin, Refuses, Requests
  <2>3. CASE LogsIn(fd, m.name)
    <3>1. idOf[m.name] \in Users /\ Login(fd, idOf[m.name])
      BY <2>3, IdsAreUsers DEF LogsIn, AccountsBase
    <3> QED BY <2>1, <3>1 DEF Next
  <2> QED BY <2>1, <2>2, <2>3
<1>3. CASE HandleLogout(fd, m)
  BY <1>3 DEF HandleLogout, Next
<1>4. CASE HandleCreateUser(fd, m)
  <2>1. m.name \in Names /\ (CreateUser(m.name) \/ UNCHANGED storeVars) /\ UNCHANGED smVars
    BY <1>1, <1>4 DEF HandleCreateUser, Requests
  <2> QED BY <2>1 DEF StoreNext
<1> QED BY <1>2, <1>3, <1>4 DEF Handle

LEMMA DieSteps ==
  ASSUME AccountsBase, Dies
  PROVE  Resets /\ StoreNext
<1>1. Resets
  BY DEF Dies, StartsAgain, Resets
<1>2. CASE Restart
  BY <1>1, <1>2 DEF StoreNext
<1>3. ASSUME NEW fd \in clients, toServer[fd] # <<>>, DieInSave(Head(toServer[fd]).name)
      PROVE  StoreNext
  <2>1. Head(toServer[fd]) \in Requests
    BY <1>3, Tails DEF AccountsBase, AccountsType
  <2>2. Head(toServer[fd]).name \in Names
    BY <2>1 DEF Requests
  <2> QED BY <1>3, <2>2 DEF StoreNext
<1> QED BY <1>1, <1>2, <1>3 DEF Dies

LEMMA WindowLeavesServer ==
  ASSUME NEW w \in Windows, WindowStep(w)
  PROVE  UNCHANGED smVars /\ UNCHANGED storeVars
BY DEF WindowStep, Connects, ClicksLogout, LosesConnection, EntersLogin, ClicksCreateUser,
       Receives, NoticesClosing, ServerIdle, serverVars, smVars, storeVars

LEMMA AccountsSteps ==
  ASSUME AccountsBase, [AccountsNext]_accountVars
  PROVE  ([Next]_smVars \/ Resets) /\ [StoreNext]_storeVars
<1>1. ASSUME NEW fd \in Fds, Closes(fd) PROVE Next /\ UNCHANGED storeVars
  BY <1>1 DEF Closes, EndsSession, Next
<1>2. ASSUME NEW w \in Windows, WindowStep(w) PROVE UNCHANGED smVars /\ UNCHANGED storeVars
  BY <1>2, WindowLeavesServer
<1>3. CASE UNCHANGED accountVars
  BY <1>3 DEF accountVars, serverVars, smVars, storeVars
<1> QED BY <1>1, <1>2, <1>3, HandleSteps, DieSteps DEF AccountsNext

\* A session is of an account that is still there.
LEMMA SessionsStep ==
  ASSUME AccountsBase, [AccountsNext]_accountVars
  PROVE  SessionsAreAccounts'
<1>1. /\ idOf \in [Names -> Nat] /\ fdToUser \in [Fds -> Users \cup {NoUser}]
      /\ SessionsAreAccounts
  BY DEF AccountsBase, AccountsType, TypeOK, StoreInv, StoreTypeOK
<1>2. ASSUME NEW fd \in Fds, Handle(fd) PROVE SessionsAreAccounts'
  <2> DEFINE m == Head(toServer[fd])
  <2>1. m \in Requests
    BY <1>2, Tails DEF AccountsBase, AccountsType, Handle
  <2>2. CASE HandleLogin(fd, m)
    <3>1. UNCHANGED <<idOf, Registered>>
      BY <2>2 DEF HandleLogin, storeVars, Registered
    <3>2. LogsIn(fd, m.name) \/ UNCHANGED smVars
      BY <2>2 DEF HandleLogin, AnswersLogin, Refuses
    <3>3. CASE LogsIn(fd, m.name)
      <4>1. m.name \in Registered /\ fdToUser' = [fdToUser EXCEPT ![fd] = idOf[m.name]]
        BY <3>3 DEF LogsIn, Login
      <4> QED BY <1>1, <3>1, <4>1 DEF SessionsAreAccounts
    <3> QED BY <1>1, <3>1, <3>2, <3>3 DEF smVars, SessionsAreAccounts
  <2>3. CASE HandleLogout(fd, m)
    BY <1>1, <2>3 DEF HandleLogout, Logout, storeVars, SessionsAreAccounts, Registered
  <2>4. CASE HandleCreateUser(fd, m)
    <3>1. /\ UNCHANGED fdToUser
          /\ \A n \in Registered : n \in Registered' /\ idOf'[n] = idOf[n]
      BY <1>1, <2>1, <2>4
      DEF HandleCreateUser, CreateUser, Registers, storeVars, smVars, Registered, Requests
    <3> QED BY <1>1, <3>1 DEF SessionsAreAccounts
  <2> QED BY <1>2, <2>2, <2>3, <2>4 DEF Handle
<1>3. ASSUME NEW fd \in Fds, Closes(fd) PROVE SessionsAreAccounts'
  BY <1>1, <1>3 DEF Closes, EndsSession, Logout, storeVars, SessionsAreAccounts, Registered
<1>4. CASE Dies
  BY <1>4, DieSteps DEF Resets, SessionsAreAccounts
<1>5. ASSUME NEW w \in Windows, WindowStep(w) PROVE SessionsAreAccounts'
  BY <1>1, <1>5, WindowLeavesServer DEF smVars, storeVars, SessionsAreAccounts, Registered
<1>6. CASE UNCHANGED accountVars
  BY <1>1, <1>6 DEF accountVars, serverVars, smVars, storeVars, SessionsAreAccounts,
                    Registered
<1> QED BY <1>2, <1>3, <1>4, <1>5, <1>6 DEF AccountsNext

\* The user store's step and the session's keep their own invariants.
LEMMA OwnInvariantsStep ==
  ASSUME AccountsBase, [AccountsNext]_accountVars
  PROVE  /\ StoreInv' /\ Counted' /\ TypeOK' /\ CallerIsNotified'
         /\ SessionsAreAccounts'
         /\ \/ \A n \in Registered : idOf'[n] = idOf[n]
            \/ idOf' = OneAdmin
<1>1. StoreInv' /\ Counted'
      /\ \/ \A n \in Registered : idOf'[n] = idOf[n]
         \/ idOf' = OneAdmin
  BY AccountsSteps, StoreStep, CountedStep DEF AccountsBase
<1>4. SessionsAreAccounts'
  BY SessionsStep
<1>2. CASE Resets
  BY <1>1, <1>2, <1>4, FdFacts DEF Resets, TypeOK, CallerIsNotified
<1>3. CASE [Next]_smVars
  BY <1>1, <1>3, <1>4, CallerIsNotifiedStep, SessionTypeStep DEF AccountsBase, AccountsType
<1> QED BY <1>2, <1>3, <1>4, AccountsSteps

-----------------------------------------------------------------------------
(* The conversations, action by action. *)

IdsKept ==
    \A n \in Registered : idOf'[n] = idOf[n] /\ (n \in cut' <=> n \in cut)

\* Then an account that is in use is a cut one if it was before.
LEMMA SeenKept ==
  ASSUME StoreInv, StoreInv', IdsKept, SessionsAreAccounts, NEW fd \in Fds,
         fdToUser'[fd] = fdToUser[fd]
  PROVE  Seen(fdToUser[fd])' = Seen(fdToUser[fd])
<1> SUFFICES fdToUser[fd] \in CutIds' <=> fdToUser[fd] \in CutIds
  BY DEF Seen
<1>1. /\ cut \subseteq Registered /\ cut' \subseteq Registered'
      /\ \A m, n \in Registered : idOf[m] = idOf[n] => m = n
      /\ \A m, n \in Registered' : idOf'[m] = idOf'[n] => m = n
  BY DEF StoreInv, IdsAreUnique
<1>2. CASE fdToUser[fd] = NoUser
  BY <1>1, <1>2, AccountsAssumption DEF CutIds, Registered
<1>3. CASE fdToUser[fd] # NoUser
  <2>1. PICK n \in Registered : idOf[n] = fdToUser[fd]
    BY <1>3 DEF SessionsAreAccounts
  <2>2. n \in Registered' /\ idOf'[n] = fdToUser[fd] /\ (n \in cut' <=> n \in cut)
    BY <2>1 DEF IdsKept, Registered
  <2>3. fdToUser[fd] \in CutIds <=> n \in cut
    BY <1>1, <2>1 DEF CutIds
  <2>4. fdToUser[fd] \in CutIds' <=> n \in cut'
    BY <1>1, <2>2 DEF CutIds
  <2> QED BY <2>2, <2>3, <2>4
<1> QED BY <1>2, <1>3

\* Nothing happens to the connection of w, except that other accounts are created.
LEMMA TalksOn ==
  ASSUME AccountsInv, StoreInv', NEW w \in Windows, IdsKept,
         sock'[w] = sock[w], page'[w] = page[w], asked'[w] = asked[w],
         sock[w] \in clients' =>
            /\ sock[w] \in clients
            /\ fdToUser'[sock[w]] = fdToUser[sock[w]]
            /\ toServer'[sock[w]] = toServer[sock[w]]
            /\ toClient'[sock[w]] = toClient[sock[w]]
  PROVE  Talks(w)'
<1> SUFFICES ASSUME ~Impatient, sock[w] \in clients' PROVE Talks(w)'
  BY DEF Talks, InConversation
<1> DEFINE u == Seen(fdToUser[sock[w]])
           id == idOf[asked[w]]
           id2 == idOf'[asked[w]]
<1>1. Talks(w) /\ sock[w] \in clients /\ asked[w] \in Names /\ sock[w] \in Fds
  BY DEF AccountsInv, AccountsBase, AccountsType
<1>5. Seen(fdToUser[sock[w]])' = u
  BY <1>1, SeenKept DEF AccountsInv, AccountsBase
<1>2. u # NoUser /\ id = u => id2 = u
  BY <1>1, AccountsAssumption DEF IdsKept, Registered
<1>3. Talk(u, page[w], id, toServer[sock[w]], toClient[sock[w]])
      /\ LoginsAsk(toServer[sock[w]], asked[w])
  BY <1>1 DEF Talks, InConversation
<1> HIDE DEF u, id, id2
<1>4. Talk(u, page[w], id2, toServer[sock[w]], toClient[sock[w]])
  BY <1>2, <1>3, TalkKnown
<1> QED BY <1>1, <1>3, <1>4, <1>5 DEF Talks, InConversation, id2

\* What the server does with a request on fd, seen from the window that has fd.
LEMMA TalksToServer ==
  ASSUME ~Impatient, AccountsInv, StoreInv', IdsKept, NEW fd \in Fds, Handle(fd),
         NEW w \in Windows, sock[w] = fd
  PROVE  Talks(w)'
<1> DEFINE q == toServer[fd]
           a == toClient[fd]
           u == Seen(fdToUser[fd])
           name == asked[w]
           id == idOf[name]
           m == Head(q)
<1>1. /\ q \in Seq(Requests) /\ q # <<>> /\ a \in Seq(Answered)
      /\ name \in Names /\ fd \in clients /\ toServer'[fd] = Tail(q)
      /\ UNCHANGED windowVars /\ UNCHANGED clients /\ HasWindow(fd)
  BY DEF Handle, AccountsInv, AccountsBase, AccountsType, HasWindow
<1>2. Talk(u, page[w], id, q, a) /\ LoginsAsk(q, name)
  BY <1>1 DEF AccountsInv, Talks, InConversation
<1>3. LoginsAsk(Tail(q), name)
  BY <1>1, <1>2, RequestTaken
<1>4. m.type = "LOGIN_REQ" => m.name = name
  BY <1>1, <1>2, Tails DEF LoginsAsk
<1>5. SUFFICES Talk(Seen(fdToUser[fd])', page[w], idOf'[name], Tail(q), toClient'[fd])
  BY <1>1, <1>3 DEF Talks, InConversation, windowVars
<1>6. fdToUser \in [Fds -> Answered] /\ toClient \in [Fds -> Seq(Answered)]
  BY DEF AccountsInv, AccountsBase, AccountsType, TypeOK, Answered
<1>10. fdToUser'[fd] = fdToUser[fd] => Seen(fdToUser[fd])' = u
  BY SeenKept DEF AccountsInv, AccountsBase
<1>7. CASE HandleLogin(fd, m)
  <2>1. m.type = "LOGIN_REQ" /\ m.name = name /\ idOf'[name] = id /\ CutIds' = CutIds
    BY <1>4, <1>7 DEF HandleLogin, storeVars, CutIds
  <2>2. CASE LogsIn(fd, name) /\ AnswersSuccess(fd, name)
    <3>1. name \in Registered /\ ~IsLoggedIn(id) /\ fdToUser'[fd] = id
      BY <1>6, <2>2 DEF LogsIn, Login
    <3>2. id \in Users
      BY <3>1, IdsAreUsers DEF AccountsInv, AccountsBase
    <3>3. id # fdToUser[fd]
      BY <3>1, <3>2, FdFacts DEF AccountsInv, AccountsBase, CallerIsNotified, IsLoggedIn
    <3>4. id # u
      BY <3>2, <3>3, FdFacts DEF Seen
    <3>5. id \in CutIds <=> name \in cut
      BY <3>1
      DEF CutIds, AccountsInv, AccountsBase, StoreInv, IdsAreUnique
    <3>6. CASE name \in cut
      <4>1. toClient'[fd] = a /\ Seen(fdToUser[fd])' = NoUser
        BY <2>1, <2>2, <3>1, <3>5, <3>6 DEF AnswersSuccess, Seen
      <4>2. Talk(NoUser, page[w], id, Tail(q), a)
        <5> HIDE DEF q, a, u, id, m
        <5> QED BY <1>1, <1>2, <2>1, <3>2, <3>4, TalkAdmittedUntold DEF m
      <4> QED BY <2>1, <4>1, <4>2
    <3>7. CASE name \notin cut
      <4>1. toClient'[fd] = Append(a, id) /\ Seen(fdToUser[fd])' = id
        BY <1>1, <1>6, <2>1, <2>2, <3>1, <3>5, <3>7 DEF AnswersSuccess, Answers, Seen
      <4>2. Talk(id, page[w], id, Tail(q), Append(a, id))
        <5> HIDE DEF q, a, u, id, m
        <5> QED BY <1>1, <1>2, <2>1, <3>2, <3>4, TalkAdmitted DEF m
      <4> QED BY <2>1, <4>1, <4>2
    <3> QED BY <3>6, <3>7
  <2>3. CASE UNCHANGED smVars /\ Answers(fd, NoUser)
    <3>1. fdToUser'[fd] = fdToUser[fd] /\ toClient'[fd] = Append(a, NoUser)
      BY <1>1, <1>6, <2>3 DEF Answers, smVars
    <3>2. Talk(u, page[w], id, Tail(q), Append(a, NoUser))
      <4> HIDE DEF q, a, u, id, m
      <4> QED BY <1>1, <1>2, <2>1, TalkIgnored DEF m
    <3> QED BY <1>10, <2>1, <3>1, <3>2
  <2> QED BY <1>7, <2>1, <2>2, <2>3 DEF HandleLogin, AnswersLogin, Refuses
<1>8. CASE HandleLogout(fd, m)
  <2>1. /\ m.type = "LOGOUT_REQ" /\ idOf'[name] = id /\ toClient'[fd] = a
        /\ fdToUser'[fd] = NoUser
    BY <1>6, <1>8 DEF HandleLogout, storeVars, Logout
  <2>2. Talk(NoUser, page[w], id, Tail(q), a)
    <3> HIDE DEF q, a, u, id, m
    <3> QED BY <1>1, <1>2, <2>1, TalkLoggedOut DEF m
  <2>3. Seen(fdToUser[fd])' = NoUser
    BY <2>1 DEF Seen
  <2> QED BY <2>1, <2>2, <2>3
<1>9. CASE HandleCreateUser(fd, m)
  <2>1. /\ m.type = "CREATE_USER_REQ" /\ toClient'[fd] = a
        /\ fdToUser'[fd] = fdToUser[fd]
    BY <1>9 DEF HandleCreateUser, smVars
  <2>2. Talk(u, page[w], id, Tail(q), a)
    <3> HIDE DEF q, a, u, id, m
    <3> QED BY <1>1, <1>2, <2>1, TalkIgnored DEF m
  <2>3. u # NoUser /\ id = u => idOf'[name] = u
    BY <1>1, AccountsAssumption DEF IdsKept, Registered
  <2>4. Talk(u, page[w], idOf'[name], Tail(q), a)
    <3> DEFINE id2 == idOf'[name]
    <3>1. u # NoUser /\ id = u => id2 = u
      BY <2>3
    <3> HIDE DEF q, a, u, id, id2
    <3> QED BY <2>2, <3>1, TalkKnown DEF id2
  <2> QED BY <1>10, <2>1, <2>4
<1> QED BY <1>7, <1>8, <1>9 DEF Handle

LEMMA HandleTouchesOne ==
  ASSUME AccountsInv, NEW fd \in Fds, Handle(fd)
  PROVE  /\ IdsKept
         /\ \A g \in Fds : g # fd =>
               /\ fdToUser'[g] = fdToUser[g]
               /\ toServer'[g] = toServer[g]
               /\ toClient'[g] = toClient[g]
         /\ toServer' \in [Fds -> Seq(Requests)]
         /\ toClient' \in [Fds -> Seq(Answered)]
<1> DEFINE m == Head(toServer[fd])
<1>1. /\ toServer \in [Fds -> Seq(Requests)] /\ toClient \in [Fds -> Seq(Answered)]
      /\ fdToUser \in [Fds -> Answered] /\ idOf \in [Names -> Nat]
  BY DEF AccountsInv, AccountsBase, AccountsType, TypeOK, Answered, StoreInv, StoreTypeOK
<1>2. m \in Requests /\ Tail(toServer[fd]) \in Seq(Requests)
  BY <1>1, Tails DEF Handle
<1>3. /\ toServer' \in [Fds -> Seq(Requests)]
      /\ \A g \in Fds : g # fd => toServer'[g] = toServer[g]
  BY <1>1, <1>2 DEF Handle
<1>4. ASSUME NEW v \in Answered, Answers(fd, v)
      PROVE  /\ toClient' \in [Fds -> Seq(Answered)]
             /\ \A g \in Fds : g # fd => toClient'[g] = toClient[g]
  <2>1. Append(toClient[fd], v) \in Seq(Answered)
    BY <1>1, Appends
  <2> QED BY <1>1, <1>4, <2>1 DEF Answers
<1>8. UNCHANGED toClient =>
         /\ toClient' \in [Fds -> Seq(Answered)]
         /\ \A g \in Fds : g # fd => toClient'[g] = toClient[g]
  BY <1>1
<1>5. CASE HandleLogin(fd, m)
  <2>1. IdsKept
    BY <1>5 DEF HandleLogin, storeVars, IdsKept
  <2>2. m.name \in Names /\ (idOf[m.name] \in Answered) /\ NoUser \in Answered
    BY <1>2, IdOfName DEF Requests, Answered, AccountsInv, AccountsBase
  <2>3. \A g \in Fds : g # fd => fdToUser'[g] = fdToUser[g]
    BY <1>1, <1>5 DEF HandleLogin, AnswersLogin, LogsIn, Login, Refuses, smVars
  <2>4. Answers(fd, idOf[m.name]) \/ Answers(fd, NoUser) \/ UNCHANGED toClient
    BY <1>5 DEF HandleLogin, AnswersLogin, AnswersSuccess
  <2>5. /\ toClient' \in [Fds -> Seq(Answered)]
        /\ \A g \in Fds : g # fd => toClient'[g] = toClient[g]
    BY <1>4, <1>8, <2>2, <2>4
  <2> QED BY <1>3, <2>1, <2>3, <2>5
<1>6. CASE HandleLogout(fd, m)
  BY <1>1, <1>3, <1>6 DEF HandleLogout, Logout, storeVars, IdsKept
<1>7. CASE HandleCreateUser(fd, m)
  <2>1. IdsKept
    BY <1>1, <1>2, <1>7
    DEF HandleCreateUser, CreateUser, Registers, storeVars, IdsKept, Registered
  <2> QED BY <1>1, <1>3, <1>7, <2>1 DEF HandleCreateUser, smVars
<1> QED BY <1>5, <1>6, <1>7 DEF Handle

LEMMA HandleKeeps ==
  ASSUME AccountsInv, NEW fd \in Fds, Handle(fd)
  PROVE  AccountsInv'
<1>1. StoreInv' /\ Counted' /\ TypeOK' /\ CallerIsNotified' /\ SessionsAreAccounts'
  BY OwnInvariantsStep DEF AccountsInv, AccountsNext
<1>2. /\ UNCHANGED <<clients, nextFd>> /\ UNCHANGED windowVars /\ fd \in clients
  BY DEF Handle
<1>3. AccountsType'
  BY <1>1, <1>2, HandleTouchesOne
  DEF AccountsInv, AccountsBase, AccountsType, windowVars
<1>4. Fresh'
  <2>1. \A g \in Fds : g >= nextFd => g # fd
    BY <1>2, FdFacts DEF AccountsInv, AccountsBase, AccountsType, Fresh
  <2> QED BY <1>2, <2>1, HandleTouchesOne DEF AccountsInv, Fresh, windowVars
<1>5. OwnConnections'
  BY <1>2 DEF AccountsInv, OwnConnections, windowVars
<1>6. ASSUME NEW w \in Windows PROVE Talks(w)'
  <2>1. CASE sock[w] = fd
    BY <1>1, <2>1, HandleTouchesOne, TalksToServer DEF Talks, InConversation
  <2>2. CASE sock[w] # fd
    <3>1. sock[w] \in clients => sock[w] \in Fds
      BY DEF AccountsInv, AccountsBase, AccountsType
    <3> QED BY <1>1, <1>2, <2>2, <3>1, HandleTouchesOne, TalksOn DEF windowVars
  <2> QED BY <2>1, <2>2
<1> QED BY <1>1, <1>3, <1>4, <1>5, <1>6 DEF AccountsInv, AccountsBase

LEMMA ClosesKeeps ==
  ASSUME AccountsInv, NEW fd \in Fds, Closes(fd)
  PROVE  AccountsInv'
<1>1. StoreInv' /\ Counted' /\ TypeOK' /\ CallerIsNotified' /\ SessionsAreAccounts'
  BY OwnInvariantsStep DEF AccountsInv, AccountsNext
<1>2. /\ UNCHANGED nextFd /\ UNCHANGED windowVars /\ UNCHANGED toClient
      /\ clients' = clients \ {fd} /\ UNCHANGED storeVars /\ fd \in clients
  BY DEF Closes
<1>3. /\ toServer' \in [Fds -> Seq(Requests)]
      /\ \A g \in Fds : g # fd => toServer'[g] = toServer[g]
      /\ \A g \in Fds : g # fd => fdToUser'[g] = fdToUser[g]
      /\ toServer'[fd] = <<>> /\ fdToUser'[fd] = NoUser
  <2>1. /\ toServer \in [Fds -> Seq(Requests)] /\ <<>> \in Seq(Requests)
        /\ fdToUser \in [Fds -> Answered]
    BY DEF AccountsInv, AccountsBase, AccountsType, TypeOK, Answered
  <2> QED BY <2>1 DEF Closes, EndsSession, Logout
<1>4. AccountsType'
  BY <1>1, <1>2, <1>3 DEF AccountsInv, AccountsBase, AccountsType, windowVars
<1>5. Fresh'
  BY <1>2, <1>3 DEF AccountsInv, Fresh, windowVars
<1>6. OwnConnections'
  BY <1>2 DEF AccountsInv, OwnConnections, windowVars
<1>7. ASSUME NEW w \in Windows PROVE Talks(w)'
  <2>1. IdsKept
    BY <1>2 DEF IdsKept, storeVars
  <2>2. sock[w] \in clients' => sock[w] \in Fds /\ sock[w] # fd
    BY <1>2 DEF AccountsInv, AccountsBase, AccountsType
  <2> QED BY <1>1, <1>2, <1>3, <2>1, <2>2, TalksOn DEF windowVars
<1> QED BY <1>1, <1>4, <1>5, <1>6, <1>7 DEF AccountsInv, AccountsBase

LEMMA DiesKeeps ==
  ASSUME AccountsInv, Dies
  PROVE  AccountsInv'
<1>1. StoreInv' /\ Counted' /\ TypeOK' /\ CallerIsNotified' /\ SessionsAreAccounts'
  BY OwnInvariantsStep DEF AccountsInv, AccountsNext
<1>2. /\ UNCHANGED nextFd /\ UNCHANGED windowVars /\ UNCHANGED toClient
      /\ clients' = {} /\ toServer' = [fd \in Fds |-> <<>>]
      /\ fdToUser' = [fd \in Fds |-> NoUser]
  BY DEF Dies, StartsAgain
<1>3. AccountsType'
  <2>1. <<>> \in Seq(Requests)
    OBVIOUS
  <2> QED BY <1>1, <1>2, <2>1 DEF AccountsInv, AccountsBase, AccountsType, windowVars
<1>4. Fresh'
  BY <1>2 DEF AccountsInv, Fresh, windowVars
<1>5. OwnConnections'
  BY <1>2 DEF AccountsInv, OwnConnections, windowVars
<1>6. \A w \in Windows : Talks(w)'
  BY <1>2 DEF Talks, InConversation
<1> QED BY <1>1, <1>3, <1>4, <1>5, <1>6 DEF AccountsInv, AccountsBase

-----------------------------------------------------------------------------
(* The windows' steps.  A window changes its own state and its own           *)
(* connection only; the server does not move.                              *)

\* What a step of w leaves alone.
OthersStay(w) ==
    /\ UNCHANGED smVars /\ UNCHANGED storeVars
    /\ \A v \in Windows : v # w =>
          sock'[v] = sock[v] /\ page'[v] = page[v] /\ asked'[v] = asked[v]
    /\ \A fd \in Fds : fd # sock[w] =>
          toServer'[fd] = toServer[fd] /\ toClient'[fd] = toClient[fd]

LEMMA OthersTalk ==
  ASSUME AccountsInv, NEW w \in Windows, OthersStay(w), clients' \subseteq Fds,
         \A v \in Windows : v # w /\ sock[v] \in clients' => sock[v] \in clients,
         NEW v \in Windows, v # w
  PROVE  Talks(v)'
<1>1. IdsKept
  BY DEF OthersStay, storeVars, IdsKept
<1>2. sock'[v] = sock[v] /\ page'[v] = page[v] /\ asked'[v] = asked[v]
  BY DEF OthersStay
<1>3. sock[v] \in clients' =>
        /\ sock[v] \in clients
        /\ fdToUser'[sock[v]] = fdToUser[sock[v]]
        /\ toServer'[sock[v]] = toServer[sock[v]]
        /\ toClient'[sock[v]] = toClient[sock[v]]
  <2> SUFFICES ASSUME sock[v] \in clients'
               PROVE  sock[v] \in Fds /\ sock[v] # sock[w] /\ sock[v] \in clients
    BY DEF OthersStay, smVars
  <2>1. sock[v] \in Fds /\ sock[v] # NoFd
    BY FdFacts
  <2> QED BY <2>1 DEF AccountsInv, OwnConnections
<1>4. StoreInv'
  BY DEF AccountsInv, AccountsBase, OthersStay, storeVars, StoreInv, StoreTypeOK,
         IdsBelowNext, IdsAreUnique, FileIsCurrent, Registered
<1> QED BY <1>1, <1>2, <1>3, <1>4, TalksOn

LEMMA SendsOne ==
  ASSUME AccountsInv, NEW w \in Windows, NEW name \in Names,
         NEW type \in {"LOGIN_REQ", "LOGOUT_REQ", "CREATE_USER_REQ"},
         Sends(w, type, name)
  PROVE  /\ toServer' \in [Fds -> Seq(Requests)]
         /\ \A fd \in Fds : fd # sock[w] => toServer'[fd] = toServer[fd]
         /\ sock[w] \in clients =>
               toServer'[sock[w]] = Append(toServer[sock[w]], [type |-> type, name |-> name])
<1>1. toServer \in [Fds -> Seq(Requests)] /\ clients \subseteq Fds
  BY DEF AccountsInv, AccountsBase, AccountsType
<1>2. [type |-> type, name |-> name] \in Requests
  BY DEF Requests
<1>3. CASE sock[w] \in clients
  <2>1. /\ sock[w] # NoFd /\ sock[w] \in Fds
        /\ Append(toServer[sock[w]], [type |-> type, name |-> name]) \in Seq(Requests)
    BY <1>1, <1>2, <1>3, FdFacts, Appends
  <2> QED BY <1>1, <1>3, <2>1 DEF Sends
<1>4. CASE sock[w] \notin clients
  BY <1>1, <1>4 DEF Sends
<1> QED BY <1>3, <1>4

\* A step that opens no connection keeps everything but the window's own conversation.
LEMMA WindowKeeps ==
  ASSUME AccountsInv, NEW w \in Windows, WindowStep(w),
         UNCHANGED <<clients, nextFd>>, OthersStay(w),
         sock' = [sock EXCEPT ![w] = sock'[w]], sock'[w] \in {sock[w], NoFd},
         page' \in [Windows -> Answered], asked' \in [Windows -> Names],
         toServer' \in [Fds -> Seq(Requests)], toClient' \in [Fds -> Seq(Answered)],
         Talks(w)'
  PROVE  AccountsInv'
<1>1. StoreInv' /\ Counted' /\ TypeOK' /\ CallerIsNotified' /\ SessionsAreAccounts'
  BY OwnInvariantsStep DEF AccountsInv, AccountsNext
<1>2. sock \in [Windows -> Fds \cup {NoFd}] /\ clients \subseteq Fds /\ nextFd \in Nat
  BY DEF AccountsInv, AccountsBase, AccountsType
<1>3. sock' \in [Windows -> Fds \cup {NoFd}]
  BY <1>2
<1>4. AccountsType'
  BY <1>1, <1>2, <1>3 DEF AccountsType
<1>5. Fresh'
  <2>1. \A fd \in Fds : fd >= nextFd => fd # sock[w]
    BY <1>2, FdFacts DEF AccountsInv, Fresh
  <2> QED BY <1>2, <2>1 DEF AccountsInv, Fresh, OthersStay, smVars
<1>6. OwnConnections'
  BY <1>2 DEF AccountsInv, OwnConnections
<1>7. ASSUME NEW v \in Windows, v # w PROVE Talks(v)'
  BY <1>2, <1>7, OthersTalk
<1> QED BY <1>1, <1>4, <1>5, <1>6, <1>7 DEF AccountsInv, AccountsBase

LEMMA ConnectsKeeps ==
  ASSUME AccountsInv, NEW w \in Windows, Connects(w)
  PROVE  AccountsInv'
<1>1. StoreInv' /\ Counted' /\ TypeOK' /\ CallerIsNotified' /\ SessionsAreAccounts'
  BY OwnInvariantsStep DEF AccountsInv, AccountsNext, WindowStep
<1>2. /\ sock \in [Windows -> Fds \cup {NoFd}] /\ clients \subseteq Fds /\ nextFd \in Nat
      /\ asked \in [Windows -> Names] /\ nextFd \in Fds
  BY DEF AccountsInv, AccountsBase, AccountsType, Connects
<1>3. AccountsType'
  BY <1>1, <1>2 DEF AccountsInv, AccountsBase, AccountsType, Connects
<1>4. Fresh'
  <2>1. \A fd \in Fds : fd >= nextFd' => fd >= nextFd
    BY <1>2, FdFacts DEF Connects
  <2>2. \A fd \in clients' : fd < nextFd'
    BY <1>2, FdFacts DEF Connects, AccountsInv, Fresh
  <2>3. \A v \in Windows : sock'[v] # NoFd => sock'[v] < nextFd'
    <3> SUFFICES ASSUME NEW v \in Windows, sock'[v] # NoFd PROVE sock'[v] < nextFd + 1
      BY DEF Connects
    <3>1. CASE v = w
      BY <1>2, <3>1 DEF Connects
    <3>2. CASE v # w
      <4>1. sock[v] \in Fds /\ sock[v] < nextFd
        BY <1>2, <3>2 DEF Connects, AccountsInv, Fresh
      <4>2. sock'[v] = sock[v]
        BY <1>2, <3>2 DEF Connects
      <4>3. sock[v] \in Int
        BY <4>1, FdFacts
      <4> QED BY <1>2, <4>1, <4>2, <4>3
    <3> QED BY <3>1, <3>2
  <2> QED BY <2>1, <2>2, <2>3 DEF AccountsInv, Fresh, Connects, smVars
<1>5. \A v \in Windows : sock[v] # nextFd
  BY <1>2, FdFacts DEF AccountsInv, Fresh
<1>6. OwnConnections'
  BY <1>2, <1>5 DEF AccountsInv, OwnConnections, Connects
<1>7. Talks(w)'
  <2>1. /\ toServer'[nextFd] = <<>> /\ toClient'[nextFd] = <<>>
        /\ fdToUser'[nextFd] = NoUser /\ page'[w] = NoUser /\ sock'[w] = nextFd
    BY <1>2 DEF Connects, AccountsInv, Fresh, smVars
  <2>2. LoginsAsk(<<>>, asked'[w]) /\ NoLogout(<<>>) /\ Refusals(<<>>)
    BY DEF LoginsAsk, NoLogout, Refusals
  <2> QED BY <2>1, <2>2 DEF Talks, InConversation, Talk, Anonymous, Seen
<1>8. ASSUME NEW v \in Windows, v # w PROVE Talks(v)'
  <2>1. OthersStay(w)
    BY <1>2 DEF OthersStay, Connects, smVars, storeVars
  <2>2. clients' \subseteq Fds
    BY <1>2 DEF Connects
  <2>3. \A x \in Windows : x # w /\ sock[x] \in clients' => sock[x] \in clients
    BY <1>5 DEF Connects
  <2> QED BY <1>8, <2>1, <2>2, <2>3, OthersTalk
<1> QED BY <1>1, <1>3, <1>4, <1>6, <1>7, <1>8 DEF AccountsInv, AccountsBase

\* A window that gives up its connection has no conversation left.
LEMMA LeavesKeeps ==
  ASSUME AccountsInv, NEW w \in Windows, ServerIdle, Leaves(w), WindowStep(w)
  PROVE  AccountsInv'
<1>1. OthersStay(w) /\ UNCHANGED <<clients, nextFd>>
  BY DEF OthersStay, Leaves, ServerIdle, serverVars, smVars, storeVars, AccountsInv,
         AccountsBase, AccountsType
<1>4. <<>> \in Seq(Answered) /\ DefaultAdmin \in Names /\ NoUser \in Answered
  BY NamesAssumption DEF Answered
<1>2. /\ sock' = [sock EXCEPT ![w] = sock'[w]] /\ sock'[w] = NoFd
      /\ page' \in [Windows -> Answered] /\ asked' \in [Windows -> Names]
      /\ toServer' \in [Fds -> Seq(Requests)] /\ toClient' \in [Fds -> Seq(Answered)]
  BY <1>4 DEF Leaves, AccountsInv, AccountsBase, AccountsType
<1>3. Talks(w)'
  BY <1>1, <1>2, FdFacts DEF Talks, InConversation, AccountsInv, AccountsBase, AccountsType
<1> QED BY <1>1, <1>2, <1>3, WindowKeeps

LEMMA ClicksLogoutKeeps ==
  ASSUME AccountsInv, NEW w \in Windows, ClicksLogout(w)
  PROVE  AccountsInv'
<1>1. DefaultAdmin \in Names
  BY NamesAssumption
<1> DEFINE m == [type |-> "LOGOUT_REQ", name |-> DefaultAdmin]
<1>2. m \in Requests
  BY <1>1 DEF Requests
<1>3. /\ toServer' \in [Fds -> Seq(Requests)]
      /\ \A fd \in Fds : fd # sock[w] => toServer'[fd] = toServer[fd]
      /\ sock[w] \in clients => toServer'[sock[w]] = Append(toServer[sock[w]], m)
  BY <1>1, SendsOne DEF ClicksLogout
<1>4. OthersStay(w) /\ UNCHANGED <<clients, nextFd>>
  BY <1>3 DEF OthersStay, ClicksLogout, ServerIdle, serverVars, smVars, storeVars,
              AccountsInv, AccountsBase, AccountsType
<1>5. /\ sock' = [sock EXCEPT ![w] = sock'[w]] /\ sock'[w] = sock[w]
      /\ page' \in [Windows -> Answered] /\ asked' \in [Windows -> Names]
      /\ toClient' \in [Fds -> Seq(Answered)]
  BY DEF ClicksLogout, AccountsInv, AccountsBase, AccountsType, Answered
<1>6. Talks(w)'
  <2> SUFFICES ASSUME ~Impatient, sock[w] \in clients PROVE Talks(w)'
    BY <1>4, <1>5 DEF Talks, InConversation
  <2> DEFINE q == toServer[sock[w]]
             a == toClient[sock[w]]
             u == Seen(fdToUser[sock[w]])
             id == idOf[asked[w]]
             p == page[w]
  <2>1. q \in Seq(Requests) /\ Talk(u, p, id, q, a) /\ LoginsAsk(q, asked[w]) /\ p # NoUser
    BY DEF AccountsInv, AccountsBase, AccountsType, Talks, InConversation, ClicksLogout
  <2> HIDE DEF q, a, u, id, p
  <2>2. Talk(u, NoUser, id, Append(q, m), a) /\ LoginsAsk(Append(q, m), asked[w])
    BY <1>2, <2>1, TalkLogoutSent, RequestSent
  <2>3. page'[w] = NoUser /\ asked'[w] = asked[w] /\ toClient' = toClient
        /\ fdToUser' = fdToUser /\ idOf' = idOf /\ cut' = cut
    BY <1>4 DEF ClicksLogout, OthersStay, smVars, storeVars, AccountsInv, AccountsBase,
                AccountsType
  <2>9. CutIds' = CutIds
    BY <2>3 DEF CutIds
  <2> QED BY <1>3, <1>5, <2>2, <2>3, <2>9 DEF Talks, InConversation, Seen, q, a, u, id
<1> QED BY <1>3, <1>4, <1>5, <1>6, WindowKeeps DEF WindowStep

LEMMA ClicksCreateUserKeeps ==
  ASSUME AccountsInv, NEW w \in Windows, NEW name \in Names, ClicksCreateUser(w, name)
  PROVE  AccountsInv'
<1> DEFINE m == [type |-> "CREATE_USER_REQ", name |-> name]
<1>2. m \in Requests
  BY DEF Requests
<1>3. /\ toServer' \in [Fds -> Seq(Requests)]
      /\ \A fd \in Fds : fd # sock[w] => toServer'[fd] = toServer[fd]
      /\ sock[w] \in clients => toServer'[sock[w]] = Append(toServer[sock[w]], m)
  BY SendsOne DEF ClicksCreateUser
<1>4. OthersStay(w) /\ UNCHANGED <<clients, nextFd>>
  BY <1>3 DEF OthersStay, ClicksCreateUser, ServerIdle, serverVars, smVars, storeVars,
              windowVars
<1>5. /\ sock' = [sock EXCEPT ![w] = sock'[w]] /\ sock'[w] = sock[w]
      /\ page' \in [Windows -> Answered] /\ asked' \in [Windows -> Names]
      /\ toClient' \in [Fds -> Seq(Answered)]
  BY DEF ClicksCreateUser, windowVars, AccountsInv, AccountsBase, AccountsType
<1>6. Talks(w)'
  <2> SUFFICES ASSUME ~Impatient, sock[w] \in clients PROVE Talks(w)'
    BY <1>4, <1>5 DEF Talks, InConversation
  <2> DEFINE q == toServer[sock[w]]
             a == toClient[sock[w]]
             u == Seen(fdToUser[sock[w]])
             id == idOf[asked[w]]
             p == page[w]
  <2>1. q \in Seq(Requests) /\ Talk(u, p, id, q, a) /\ LoginsAsk(q, asked[w])
    BY DEF AccountsInv, AccountsBase, AccountsType, Talks, InConversation
  <2> HIDE DEF q, a, u, id, p
  <2>2. Talk(u, p, id, Append(q, m), a) /\ LoginsAsk(Append(q, m), asked[w])
    BY <1>2, <2>1, TalkSent, RequestSent
  <2>3. page' = page /\ asked' = asked /\ toClient' = toClient
        /\ fdToUser' = fdToUser /\ idOf' = idOf /\ cut' = cut
    BY <1>4 DEF ClicksCreateUser, OthersStay, smVars, storeVars, windowVars
  <2>9. CutIds' = CutIds
    BY <2>3 DEF CutIds
  <2> QED BY <1>3, <1>5, <2>2, <2>3, <2>9 DEF Talks, InConversation, Seen, q, a, u, id, p
<1> QED BY <1>3, <1>4, <1>5, <1>6, WindowKeeps DEF WindowStep

\* Whoever waits for the answer asks for the same account again, if at all.
LEMMA EntersLoginKeeps ==
  ASSUME AccountsInv, NEW w \in Windows, NEW name \in Names, EntersLogin(w, name)
  PROVE  AccountsInv'
<1> DEFINE m == [type |-> "LOGIN_REQ", name |-> name]
<1>2. m \in Requests
  BY DEF Requests
<1>3. /\ toServer' \in [Fds -> Seq(Requests)]
      /\ \A fd \in Fds : fd # sock[w] => toServer'[fd] = toServer[fd]
      /\ sock[w] \in clients => toServer'[sock[w]] = Append(toServer[sock[w]], m)
  BY SendsOne DEF EntersLogin
<1>4. OthersStay(w) /\ UNCHANGED <<clients, nextFd>>
  BY <1>3 DEF OthersStay, EntersLogin, ServerIdle, serverVars, smVars, storeVars,
              AccountsInv, AccountsBase, AccountsType
<1>5. /\ sock' = [sock EXCEPT ![w] = sock'[w]] /\ sock'[w] = sock[w]
      /\ page' \in [Windows -> Answered] /\ asked' \in [Windows -> Names]
      /\ toClient' \in [Fds -> Seq(Answered)]
  BY DEF EntersLogin, AccountsInv, AccountsBase, AccountsType
<1>6. Talks(w)'
  <2> SUFFICES ASSUME ~Impatient, sock[w] \in clients PROVE Talks(w)'
    BY <1>4, <1>5 DEF Talks, InConversation
  <2> DEFINE q == toServer[sock[w]]
             a == toClient[sock[w]]
             u == Seen(fdToUser[sock[w]])
             id == idOf[asked[w]]
             id2 == idOf[name]
             p == page[w]
  <2>1. /\ q \in Seq(Requests) /\ Talk(u, p, id, q, a) /\ LoginsAsk(q, asked[w])
        /\ p = NoUser /\ asked \in [Windows -> Names]
    BY DEF AccountsInv, AccountsBase, AccountsType, Talks, InConversation, EntersLogin
  <2>2. \/ name = asked[w]
        \/ a = <<>> /\ \A i \in 1 .. Len(q) : q[i].type # "LOGIN_REQ"
    BY <2>1 DEF EntersLogin, LoginUnderWay
  <2>3. Talk(u, p, id2, q, a) /\ LoginsAsk(q, name)
    <3>1. CASE name = asked[w]
      BY <2>1, <3>1
    <3>2. CASE a = <<>> /\ \A i \in 1 .. Len(q) : q[i].type # "LOGIN_REQ"
      <4>1. LoginsAsk(q, name)
        BY <3>2 DEF LoginsAsk
      <4> HIDE DEF q, a, u, id, id2, p
      <4> QED BY <2>1, <3>2, <4>1, TalkAsksAnew
    <3> QED BY <2>2, <3>1, <3>2
  <2> HIDE DEF q, a, u, id, id2, p
  <2>4. Talk(u, p, id2, Append(q, m), a) /\ LoginsAsk(Append(q, m), name)
    BY <1>2, <2>1, <2>3, TalkSent, RequestSent
  <2>5. page' = page /\ asked'[w] = name /\ toClient' = toClient
        /\ fdToUser' = fdToUser /\ idOf' = idOf /\ cut' = cut
    BY <1>4, <2>1 DEF EntersLogin, OthersStay, smVars, storeVars
  <2>9. CutIds' = CutIds
    BY <2>5 DEF CutIds
  <2> QED BY <1>3, <1>5, <2>4, <2>5, <2>9 DEF Talks, InConversation, Seen, q, a, u, id2, p
<1> QED BY <1>3, <1>4, <1>5, <1>6, WindowKeeps DEF WindowStep

LEMMA ReceivesKeeps ==
  ASSUME AccountsInv, NEW w \in Windows, Receives(w)
  PROVE  AccountsInv'
<1>1. /\ sock[w] # NoFd /\ sock[w] \in Fds /\ toClient[sock[w]] # <<>>
      /\ toClient \in [Fds -> Seq(Answered)] /\ page \in [Windows -> Answered]
      /\ toClient' = [toClient EXCEPT ![sock[w]] = Tail(@)]
  BY DEF Receives, AccountsInv, AccountsBase, AccountsType
<1>2. Tail(toClient[sock[w]]) \in Seq(Answered) /\ Head(toClient[sock[w]]) \in Answered
  BY <1>1, Tails
<1>3. page' = [page EXCEPT ![w] =
                  IF page[w] = NoUser THEN Head(toClient[sock[w]]) ELSE page[w]]
  BY <1>1 DEF Receives
<1>4. OthersStay(w) /\ UNCHANGED <<clients, nextFd>>
  BY <1>1, <1>3 DEF OthersStay, Receives, ServerIdle, serverVars, smVars, storeVars
<1>5. /\ sock' = [sock EXCEPT ![w] = sock'[w]] /\ sock'[w] = sock[w]
      /\ page' \in [Windows -> Answered] /\ asked' \in [Windows -> Names]
      /\ toServer' \in [Fds -> Seq(Requests)] /\ toClient' \in [Fds -> Seq(Answered)]
  BY <1>1, <1>2, <1>3 DEF Receives, AccountsInv, AccountsBase, AccountsType
<1>6. Talks(w)'
  <2> SUFFICES ASSUME ~Impatient, sock[w] \in clients PROVE Talks(w)'
    BY <1>4, <1>5 DEF Talks, InConversation
  <2> DEFINE q == toServer[sock[w]]
             a == toClient[sock[w]]
             u == Seen(fdToUser[sock[w]])
             id == idOf[asked[w]]
             p == page[w]
  <2>1. a \in Seq(Answered) /\ a # <<>> /\ Talk(u, p, id, q, a) /\ LoginsAsk(q, asked[w])
    BY <1>1 DEF AccountsInv, Talks, InConversation
  <2> HIDE DEF q, a, u, id, p
  <2>2. Talk(u, IF p = NoUser THEN Head(a) ELSE p, id, q, Tail(a))
    BY <2>1, TalkReceived
  <2>3. /\ page'[w] = IF p = NoUser THEN Head(a) ELSE p
        /\ toClient'[sock[w]] = Tail(a) /\ UNCHANGED <<asked, toServer>>
        /\ fdToUser' = fdToUser /\ idOf' = idOf /\ cut' = cut
    BY <1>1, <1>3, <1>4 DEF Receives, OthersStay, smVars, storeVars, p, a
  <2>9. CutIds' = CutIds
    BY <2>3 DEF CutIds
  <2> QED BY <1>5, <2>1, <2>2, <2>3, <2>9 DEF Talks, InConversation, Seen, q, a, u, id
<1> QED BY <1>4, <1>5, <1>6, WindowKeeps DEF WindowStep

-----------------------------------------------------------------------------

\* The invariant of the composition holds of every behaviour; of impatient users it says
\* nothing but that types, stores, maps and fresh connections are right.
LEMMA AccountsInvariant == AccountsSpec => []AccountsInv
<1>1. ASSUME AccountsInv, [AccountsNext]_accountVars PROVE AccountsInv'
  <2> USE <1>1
  <2>1. ASSUME NEW w \in Windows, WindowStep(w) PROVE AccountsInv'
    <3>1. CASE LosesConnection(w) \/ NoticesClosing(w)
      BY <2>1, <3>1, LeavesKeeps DEF LosesConnection, NoticesClosing
    <3> QED BY <2>1, <3>1, ConnectsKeeps, ClicksLogoutKeeps, ClicksCreateUserKeeps,
               EntersLoginKeeps, ReceivesKeeps DEF WindowStep
  <2>2. CASE UNCHANGED accountVars
    <3>1. CutIds' = CutIds
      BY <2>2 DEF accountVars, serverVars, storeVars, CutIds
    <3>2. AccountsBase'
      BY <2>2 DEF accountVars, serverVars, smVars, storeVars, windowVars, AccountsInv,
         AccountsBase, AccountsType, TypeOK, StoreInv, StoreTypeOK, IdsBelowNext,
         IdsAreUnique, FileIsCurrent, Registered, Counted, CallerIsNotified,
         SessionsAreAccounts
    <3>3. Fresh' /\ OwnConnections'
      BY <2>2 DEF accountVars, serverVars, smVars, windowVars, AccountsInv, Fresh,
         OwnConnections
    <3>4. \A w \in Windows : Talks(w)'
      BY <2>2, <3>1 DEF accountVars, serverVars, smVars, storeVars, windowVars,
         AccountsInv, Talks, InConversation, Seen
    <3> QED BY <3>2, <3>3, <3>4 DEF AccountsInv
  <2> QED BY <2>1, <2>2, HandleKeeps, ClosesKeeps, DiesKeeps DEF AccountsNext
<1> QED BY <1>1, AccountsInitIsGood, PTL DEF AccountsSpec

\* As long as nobody asks for a second account before the first answer, every window on a
\* living connection is in one of four states with the server: its user is shown at both
\* ends, is leaving, has just been let in, or there is nobody (but perhaps a cut account,
\* let in without a word).
THEOREM ConversationInvariant ==
  ASSUME ~Impatient
  PROVE  AccountsSpec => [](\A w \in Windows : InConversation(w))
<1>1. AccountsInv => \A w \in Windows : InConversation(w)
  BY DEF AccountsInv, Talks
<1> QED BY <1>1, AccountsInvariant, PTL

\* On a quiet connection the server takes the window's requests as coming from the user
\* whose page it shows, whatever was clicked, lost or restarted before, provided that
\* nobody asks for a second account before the first answer.
THEOREM WindowsActAsShown ==
  ASSUME ~Impatient
  PROVE  AccountsSpec => []ActsAsShown
<1>1. AccountsInv => ActsAsShown
  <2> SUFFICES ASSUME AccountsInv, NEW w \in Windows, sock[w] \in clients,
                      toServer[sock[w]] = <<>>, toClient[sock[w]] = <<>>
               PROVE  \/ fdToUser[sock[w]] = page[w]
                      \/ fdToUser[sock[w]] \in CutIds /\ page[w] = NoUser
    BY DEF ActsAsShown, GetUser
  <2>1. Talk(Seen(fdToUser[sock[w]]), page[w], idOf[asked[w]], <<>>, <<>>)
    BY DEF AccountsInv, Talks, InConversation
  <2>2. \A u, id : ~LogsOutOnce(<<>>, u, id) /\ ~AdmitsOnce(<<>>, u)
    BY DEF LogsOutOnce, AdmitsOnce
  <2> QED BY <2>1, <2>2 DEF Talk, Shown, Leaving, Anonymous, Admitted, Seen
<1> QED BY <1>1, AccountsInvariant, PTL

\* Composed with the windows, too, a caller is notified on the connection it calls on, ids
\* are unique, and the file holds every account or, with one that cannot be written, none.
THEOREM PartsKeepTheirPromises ==
  AccountsSpec => [](CallerIsNotified /\ IdsAreUnique /\ FileIsCurrent)
<1>1. AccountsInv => CallerIsNotified /\ IdsAreUnique /\ FileIsCurrent
  BY DEF AccountsInv, AccountsBase, StoreInv
<1> QED BY <1>1, AccountsInvariant, PTL

\* And, whatever is lost or dies, no session moves without a logout and an account keeps
\* its id until all of them are lost.
THEOREM PartsKeepTheirSteps == AccountsSpec => SessionsAreNotMoved /\ AllAccountsOrNone
<1>1. AccountsInv /\ [AccountsNext]_accountVars =>
        [\A u \in Users : userIdToFd[u] # NoFd =>
            userIdToFd'[u] \in {userIdToFd[u], NoFd}]_smVars
  <2> SUFFICES ASSUME AccountsInv, [AccountsNext]_accountVars,
                      NEW u \in Users, userIdToFd[u] # NoFd
               PROVE  userIdToFd'[u] \in {userIdToFd[u], NoFd}
    OBVIOUS
  <2>1. TypeOK /\ ([Next]_smVars \/ Resets)
    BY AccountsSteps DEF AccountsInv, AccountsBase, AccountsType
  <2> QED BY <2>1, SessionStep DEF Resets
<1>2. AccountsInv /\ [AccountsNext]_accountVars =>
        [\/ \A n \in Registered : idOf'[n] = idOf[n]
         \/ idOf' = [Nobody EXCEPT ![DefaultAdmin] = 1]]_storeVars
  BY OwnInvariantsStep DEF AccountsInv, OneAdmin
<1> QED
  BY <1>1, <1>2, AccountsInvariant, PTL
  DEF AccountsSpec, SessionsAreNotMoved, AllAccountsOrNone

=============================================================================
