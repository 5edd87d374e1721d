-------------------------- MODULE ThunderServerProofs --------------------------
(***************************************************************************)
(* Theorems about the whole server, for any accounts, connections, request *)
(* types and bounds.  First, the server implements the specifications of   *)
(* its class manager and question manager: whatever arrives, in whatever   *)
(* order, each of them only sees its own operations, restarts of the       *)
(* process included.  So every theorem about them holds of the server, and *)
(* those are then used to prove what ties them to the connections.         *)
(***************************************************************************)
EXTENDS ThunderServer, TLAPS

\* The theorems about the two managers.
CMP == INSTANCE ClassManagerProofs
QMP == INSTANCE QuestionManagerProofs WITH Classes <- ClassIds

LEMMA ConstantsAreFine ==
  /\ Teachers \cap Students = {}
  /\ NoUser \notin Teachers \cup Students
  /\ NoUser \notin Users
  /\ MaxClasses \in Nat /\ MaxEvents \in Nat /\ MaxClock \in Nat /\ MaxRestarts \in Nat
  /\ DeadlineRequests \subseteq Int /\ DefaultDeadline \in Nat \ {0}
  /\ NotYet \notin Nat
  /\ MaxQuestions \in Nat /\ NumOptions \in Nat \ {0, 1}
  /\ AnswerRequests \subseteq Int /\ NoQuestion \notin Nat
  /\ NoClass \notin ClassIds
  /\ RecordedTypes \subseteq CMP!EventTypes
  /\ NoFd \notin Fds
  /\ LongTexts \in BOOLEAN /\ Torn \notin Seq(QMP!QuestionIds)
BY ServerAssumption, ManagersAssumption, RecordedAssumption
DEF Users, NoClass, ClassIds, Fds, CM!EventTypes, CMP!EventTypes, QMP!QuestionIds

-----------------------------------------------------------------------------
(* The two instances of each manager are the same. *)

LEMMA SameTypes == (CM!TypeOK <=> CMP!TypeOK) /\ (QM!TypeOK <=> QMP!TypeOK)
BY DEF CM!TypeOK, CMP!TypeOK, CM!ClassIds, CMP!ClassIds, CM!CheckinRecord,
       CMP!CheckinRecord, CM!EventRecord, CMP!EventRecord, CM!EventTypes, CMP!EventTypes,
       CM!Accounts, CMP!Accounts,
       QM!TypeOK, QMP!TypeOK, QM!QuestionIds, QMP!QuestionIds, QM!AnswerRecord,
       QMP!AnswerRecord, QM!ValidAnswers, QMP!ValidAnswers

LEMMA SameInits == (CM!Init <=> CMP!Init) /\ (QM!Init <=> QMP!Init)
BY DEF CM!Init, CMP!Init, CM!ClassIds, CMP!ClassIds, CM!NoCheckin, CMP!NoCheckin,
       QM!Init, QMP!Init, QM!QuestionIds, QMP!QuestionIds

LEMMA SameClassNext == [CM!Next]_CM!cmVars <=> [CMP!Next]_CMP!cmVars
BY DEF CM!Next, CM!TeacherStep, CM!StudentStep, CM!CreateClass, CM!StartClass,
       CM!EndClass, CM!Forget, CM!JoinClass, CM!LeaveClass, CM!RemoveFromAll,
       CM!OpenCheckin, CM!Opening, CM!Checkin, CM!MayCheckIn, CM!RandomCall,
       CM!StartScreenShare, CM!StopScreenShare, CM!StartAudio, CM!StopAudio, CM!GrantMic,
       CM!TakenFromHolder, CM!RevokeMic, CM!Tick, CM!Restart, CM!IdAfterLoad,
       CM!AddEvent, CM!Writes, CM!Logged, CM!Event, CM!OwnedBy, CM!RunBy, CM!NoCheckin,
       CM!ClassIds, CM!lifeVars, CM!mediaVars, CM!logVars, CM!cmVars,
       CMP!Next, CMP!TeacherStep, CMP!StudentStep, CMP!CreateClass, CMP!StartClass,
       CMP!EndClass, CMP!Forget, CMP!JoinClass, CMP!LeaveClass, CMP!RemoveFromAll,
       CMP!OpenCheckin, CMP!Opening, CMP!Checkin, CMP!MayCheckIn, CMP!RandomCall,
       CMP!StartScreenShare, CMP!StopScreenShare, CMP!StartAudio, CMP!StopAudio,
       CMP!GrantMic, CMP!TakenFromHolder, CMP!RevokeMic, CMP!Tick, CMP!Restart,
       CMP!IdAfterLoad, CMP!AddEvent, CMP!Writes, CMP!Logged, CMP!Event, CMP!OwnedBy,
       CMP!RunBy, CMP!NoCheckin, CMP!ClassIds, CMP!lifeVars, CMP!mediaVars, CMP!logVars,
       CMP!cmVars

LEMMA SameQuestionNext == [QM!Next]_QM!qmVars <=> [QMP!Next]_QMP!qmVars
BY DEF QM!Next, QM!PublishQuestion, QM!SubmitAnswer, QM!MayAnswer, QM!Restart,
       QM!LastInFile, QM!InFile, QM!IdAfterLoad, QM!LoadAnswers, QM!KnownQuestions, QM!QuestionIds,
       QM!ValidAnswers, QM!questionVars, QM!answerVars, QM!qmVars, QM!SetToSeqs,
       QM!Cardinality, QM!Range, QMP!SetToSeqs, QMP!Cardinality, QMP!Range,
       QMP!Next, QMP!PublishQuestion, QMP!SubmitAnswer, QMP!MayAnswer, QMP!Restart,
       QMP!LastInFile, QMP!InFile, QMP!IdAfterLoad, QMP!LoadAnswers, QMP!KnownQuestions,
       QMP!QuestionIds, QMP!ValidAnswers, QMP!questionVars, QMP!answerVars, QMP!qmVars

-----------------------------------------------------------------------------
(* The kinds of steps. *)

\* A class operation: the connections, the sessions and the questions stay.
ClassStep ==
    /\ CM!Next
    /\ UNCHANGED <<accounts, connVars, smVars, qmVars, restarts>>

QuestionStep ==
    /\ QM!Next
    /\ UNCHANGED <<accounts, connVars, smVars, cmVars, restarts>>

OtherStep == UNCHANGED <<connVars, smVars, cmVars, qmVars, restarts>>

Opens == \/ Connect
         \/ \E fd \in Fds, u \in Users : LoginReq(fd, u)
Ends == \E fd \in Fds : CloseConnection(fd) \/ LogoutReq(fd)

LEMMA ClassIdsAgree == CM!ClassIds = ClassIds /\ QM!QuestionIds = 1 .. MaxQuestions
BY DEF CM!ClassIds, ClassIds, QM!QuestionIds

\* Every operation of the class manager leaves the count of restarts to the restarts.
LEMMA TeacherRequestStep ==
  ASSUME NEW c \in ClassIds, NEW t \in Teachers, CM!TeacherStep(c, t), OnlyClasses
  PROVE  ClassStep
<1>1. restarts' = restarts
  BY DEF CM!TeacherStep, CM!StartClass, CM!EndClass, CM!OpenCheckin, CM!RandomCall,
         CM!StartScreenShare, CM!StopScreenShare, CM!StartAudio, CM!StopAudio,
         CM!GrantMic, CM!RevokeMic, CM!AddEvent, CM!Writes
<1> QED BY <1>1, ClassIdsAgree DEF ClassStep, OnlyClasses, CM!Next

LEMMA StudentRequestStep ==
  ASSUME NEW c \in ClassIds, NEW u \in Students, CM!StudentStep(c, u), OnlyClasses
  PROVE  ClassStep
<1>1. restarts' = restarts
  BY DEF CM!StudentStep, CM!JoinClass, CM!LeaveClass, CM!Checkin, CM!AddEvent, CM!Writes
<1> QED BY <1>1, ClassIdsAgree DEF ClassStep, OnlyClasses, CM!Next

\* The checks of a case in the switch establish who the manager is called for.
LEMMA ClassRequestKind ==
  ASSUME NEW fd \in Fds, NEW c \in ClassIds, ClassRequest(fd, c)
  PROVE  ClassStep \/ QuestionStep
<1>1. CASE StartClassReq(fd, c) \/ EndClassReq(fd, c)
  BY <1>1, TeacherRequestStep
  DEF StartClassReq, EndClassReq, ByTeacher, CM!TeacherStep
<1>2. CASE JoinClassReq(fd, c) \/ LeaveClassReq(fd, c) \/ CheckinReq(fd, c)
  BY <1>2, StudentRequestStep
  DEF JoinClassReq, LeaveClassReq, CheckinReq, ByStudent, CM!StudentStep
<1>3. CASE \E seconds \in DeadlineRequests : OpenCheckinReq(fd, c, seconds)
  BY <1>3, TeacherRequestStep DEF OpenCheckinReq, ByTeacher, CM!TeacherStep
<1>4. CASE \E u \in Students : RandomCallReq(fd, c, u)
  BY <1>4, TeacherRequestStep DEF RandomCallReq, ByTeacher, CM!TeacherStep
<1>5. CASE PublishQuestionReq(fd, c)
  BY <1>5 DEF PublishQuestionReq, QuestionStep, OnlyQuestions, QM!Next,
              QM!PublishQuestion
<1> QED BY <1>1, <1>2, <1>3, <1>4, <1>5 DEF ClassRequest

LEMMA MediaRequestKind ==
  ASSUME NEW fd \in Fds, NEW c \in ClassIds, MediaRequest(fd, c)
  PROVE  ClassStep \/ OtherStep
<1>1. CASE StartScreenShareReq(fd, c) \/ StopScreenShareReq(fd, c)
  BY <1>1, TeacherRequestStep
  DEF StartScreenShareReq, StopScreenShareReq, ByTeacher, CM!TeacherStep
<1>2. CASE StartAudioReq(fd, c) \/ StopAudioReq(fd, c)
  BY <1>2, TeacherRequestStep DEF StartAudioReq, StopAudioReq, ByTeacher, CM!TeacherStep
<1>3. CASE (\E u \in Students : GrantMicReq(fd, c, u)) \/ RevokeMicReq(fd, c)
  BY <1>3, TeacherRequestStep DEF GrantMicReq, RevokeMicReq, ByTeacher, CM!TeacherStep
<1>4. CASE ScreenFrame(fd, c) \/ AudioFrame(fd, c)
  BY <1>4 DEF ScreenFrame, AudioFrame, OnlySends, OtherStep
<1> QED BY <1>1, <1>2, <1>3, <1>4 DEF MediaRequest

LEMMA StepKinds ==
  ASSUME [Next]_vars
  PROVE  ClassStep \/ QuestionStep \/ OtherStep \/ Opens \/ Ends \/ RestartServer
<1>1. ASSUME NEW fd \in Fds, SessionRequest(fd)
      PROVE  ClassStep \/ OtherStep \/ Opens \/ Ends
  <2>1. ASSUME CreateClassReq(fd) PROVE ClassStep
    BY <2>1 DEF CreateClassReq, ByTeacher, ClassStep, OnlyClasses, CM!Next,
                CM!CreateClass, CM!AddEvent, CM!Writes
  <2>2. ASSUME NEW u \in Users, CreateUserReq(fd, u) PROVE OtherStep
    BY <2>2 DEF CreateUserReq, OtherStep
  <2> QED BY <1>1, <2>1, <2>2 DEF SessionRequest, Opens, Ends
<1>2. ASSUME NEW fd \in Fds, NEW q \in 1 .. MaxQuestions, NEW answer \in AnswerRequests,
             SubmitAnswerReq(fd, q, answer)
      PROVE  QuestionStep
  BY <1>2, ClassIdsAgree DEF SubmitAnswerReq, ByStudent, QuestionStep, OnlyQuestions,
                             QM!Next, QM!SubmitAnswer
<1>3. NobodyIdle \/ UNCHANGED vars => OtherStep
  BY DEF NobodyIdle, OnlySends, vars, OtherStep
<1> QED
  BY <1>1, <1>2, <1>3, ClassRequestKind, MediaRequestKind DEF Next, Opens, Ends

-----------------------------------------------------------------------------
(* The server implements its managers. *)

\* The maps of the sessions, and the classes' types: what is needed to see that a user
\* who is not a student has no class to leave.
Sessions ==
    /\ SM!TypeOK
    /\ clients \subseteq Fds

LEMMA SessionsStep ==
  ASSUME Sessions, [Next]_vars
  PROVE  Sessions'
<1> USE DEF Sessions, SM!TypeOK
<1>1. CASE ClassStep \/ QuestionStep \/ OtherStep
  BY <1>1 DEF ClassStep, QuestionStep, OtherStep, connVars, smVars
<1>2. CASE Opens
  BY <1>2 DEF Opens, Connect, LoginReq, SM!Login, connVars, smVars
<1>3. CASE Ends
  BY <1>3 DEF Ends, CloseConnection, LogoutReq, EndSession, SM!Logout, connVars
<1>4. CASE RestartServer
  BY <1>4 DEF RestartServer
<1> QED BY <1>1, <1>2, <1>3, <1>4, StepKinds

\* Leaving every class is a step of the class manager, whoever leaves.
LEMMA RemoveFromAllStep ==
  ASSUME CM!TypeOK, NEW u \in Users, CM!RemoveFromAll(u)
  PROVE  [CM!Next]_CM!cmVars
<1>1. CASE u \in Students
  BY <1>1 DEF CM!Next
<1>2. CASE u \notin Students
  <2>1. members' = members /\ events' = events
    BY <1>2 DEF CM!RemoveFromAll, CM!Writes, CM!TypeOK
  <2>2. /\ clock' \in {clock, clock + 1} /\ clock' <= MaxClock /\ clock \in Nat
        /\ UNCHANGED <<CM!lifeVars, checkins, CM!mediaVars, restarts>>
    BY DEF CM!RemoveFromAll, CM!Writes, CM!TypeOK
  <2>3. CASE clock' = clock
    BY <2>1, <2>2, <2>3 DEF CM!cmVars, CM!logVars
  <2>4. CASE clock' = clock + 1
    <3>1. clock < MaxClock
      BY <2>2, <2>4, ConstantsAreFine
    <3> QED BY <2>1, <2>2, <2>4, <3>1 DEF CM!Next, CM!Tick
  <2> QED BY <2>2, <2>3, <2>4
<1> QED BY <1>1, <1>2

\* Every step of the server is one of the class manager, or none.
LEMMA ClassManagerStep ==
  ASSUME Sessions, CM!TypeOK, [Next]_vars
  PROVE  [CM!Next]_CM!cmVars
<1> USE DEF cmVars, CM!cmVars, CM!lifeVars, CM!mediaVars, CM!logVars
<1>1. CASE ClassStep \/ QuestionStep \/ OtherStep
  BY <1>1 DEF ClassStep, QuestionStep, OtherStep
<1>2. CASE Opens
  BY <1>2 DEF Opens, Connect, LoginReq
<1>3. CASE Ends
  <2>1. PICK fd \in Fds : EndSession(fd)
    BY <1>3 DEF Ends, CloseConnection, LogoutReq, Sessions
  <2>2. CASE Caller(fd) = NoUser
    BY <2>1, <2>2 DEF EndSession
  <2>3. CASE Caller(fd) # NoUser
    <3>1. Caller(fd) \in Users
      BY <2>3 DEF Sessions, SM!TypeOK, Caller, SM!GetUser
    <3>2. CM!RemoveFromAll(Caller(fd))
      BY <2>1, <2>3 DEF EndSession
    <3> QED BY <3>1, <3>2, RemoveFromAllStep
  <2> QED BY <2>2, <2>3
<1>4. CASE RestartServer
  BY <1>4 DEF RestartServer, CM!Next
<1> QED BY <1>1, <1>2, <1>3, <1>4, StepKinds

\* And one of the question manager, or none.
LEMMA QuestionManagerStep ==
  ASSUME [Next]_vars
  PROVE  [QM!Next]_QM!qmVars
<1> USE DEF qmVars, QM!qmVars, QM!questionVars, QM!answerVars
<1>1. CASE ClassStep \/ QuestionStep \/ OtherStep
  BY <1>1 DEF ClassStep, QuestionStep, OtherStep
<1>2. CASE Opens
  BY <1>2 DEF Opens, Connect, LoginReq
<1>3. CASE Ends
  BY <1>3 DEF Ends, CloseConnection, LogoutReq, EndSession, CM!RemoveFromAll, CM!Writes
<1>4. CASE RestartServer
  BY <1>4 DEF RestartServer, QM!Next
<1> QED BY <1>1, <1>2, <1>3, <1>4, StepKinds

LEMMA ClassTypeStep ==
  ASSUME CM!TypeOK, [CM!Next]_CM!cmVars
  PROVE  CM!TypeOK'
<1>1. CMP!TypeOK /\ [CMP!Next]_CMP!cmVars
  BY SameTypes, SameClassNext
<1>2. CMP!TypeOK'
  BY <1>1, CMP!TypeStep, ConstantsAreFine
<1> QED BY <1>2, SameTypes, PTL

\* The types that the steps rest on.
THEOREM ServerTypes == Spec => [](Sessions /\ CM!TypeOK)
<1>1. Init => Sessions /\ CM!TypeOK
  <2>1. Init => CMP!TypeOK
    BY SameInits, ConstantsAreFine, CMP!InitType DEF Init
  <2>2. Init => Sessions
    BY DEF Init, SM!Init, Sessions, SM!TypeOK
  <2> QED BY <2>1, <2>2, SameTypes
<1>2. Sessions /\ CM!TypeOK /\ [Next]_vars => (Sessions /\ CM!TypeOK)'
  <2> SUFFICES ASSUME Sessions, CM!TypeOK, [Next]_vars
               PROVE  Sessions' /\ CM!TypeOK'
    OBVIOUS
  <2>1. [CM!Next]_CM!cmVars
    BY ClassManagerStep
  <2> QED BY <2>1, SessionsStep, ClassTypeStep
<1> QED BY <1>1, <1>2, PTL DEF Spec

\* Whatever clients send, and whenever connections or the process end, the class manager
\* only sees its own operations.
THEOREM ServerRunsClassManager == Spec => CM!Spec
<1>1. Init => CM!Init
  BY DEF Init
<1>2. Sessions /\ CM!TypeOK /\ [Next]_vars => [CM!Next]_CM!cmVars
  BY ClassManagerStep
<1> QED BY <1>1, <1>2, ServerTypes, PTL DEF Spec, CM!Spec

\* So does the question manager.
THEOREM ServerRunsQuestionManager == Spec => QM!Spec
<1>1. Init => QM!Init
  BY DEF Init
<1>2. [Next]_vars => [QM!Next]_QM!qmVars
  BY QuestionManagerStep
<1> QED BY <1>1, <1>2, PTL DEF Spec, QM!Spec

\* The managers' inductive invariants hold of the server.
LEMMA ManagersInvariant == Spec => [](CMP!Inv /\ QMP!QuestionInv)
<1>1. CM!Init /\ QM!Init => CMP!Init /\ QMP!Init
  BY SameInits
<1>2. [CM!Next]_CM!cmVars => [CMP!Next]_CMP!cmVars
  BY SameClassNext
<1>3. [QM!Next]_QM!qmVars => [QMP!Next]_QMP!qmVars
  BY SameQuestionNext
<1>4. CMP!Spec => []CMP!Inv
  BY CMP!Invariance, ConstantsAreFine
<1>5. QMP!Spec => []QMP!QuestionInv
  BY QMP!QuestionInvariant, ConstantsAreFine
<1>6. Spec => CMP!Spec /\ QMP!Spec
  BY <1>1, <1>2, <1>3, ServerRunsClassManager, ServerRunsQuestionManager, PTL
  DEF CM!Spec, CMP!Spec, QM!Spec, QMP!Spec
<1> QED BY <1>4, <1>5, <1>6, PTL

-----------------------------------------------------------------------------
(* Connections, sessions and rosters. *)

\* Both directions of the session maps name the same open connection, but for accounts that
\* were displaced: nobody acts for those, and nobody can log in to them again.
Linked ==
    /\ AccountsFollowConnections
    /\ \A fd \in Fds : Caller(fd) # NoUser => fd \in clients /\ SM!GetFd(Caller(fd)) = fd
    /\ \A u \in displaced :
          /\ u \in Users /\ SM!IsLoggedIn(u)
          /\ \A fd \in Fds : Caller(fd) # u

SessionInv == Sessions /\ Linked

LEMMA OpensKeepLinks ==
  ASSUME SessionInv, Opens
  PROVE  Linked'
<1> USE DEF SessionInv, Sessions, SM!TypeOK, Linked, AccountsFollowConnections,
            SM!IsLoggedIn, SM!GetFd, SM!GetUser, Caller
<1>1. CASE Connect
  BY <1>1 DEF Connect, smVars
<1>2. ASSUME NEW fd \in Fds, NEW u \in Users, LoginReq(fd, u)
      PROVE  Linked'
  <2>1. /\ fd \in clients /\ clients' = clients
        /\ userIdToFd[u] = NoFd
        /\ fdToUser' = [fdToUser EXCEPT ![fd] = u]
        /\ userIdToFd' = [userIdToFd EXCEPT ![u] = fd]
        /\ displaced' = displaced \cup ({fdToUser[fd]} \ {NoUser})
    BY <1>2 DEF LoginReq, Handles, SM!Login, connVars
  <2>2. ASSUME NEW v \in Users \ displaced', userIdToFd'[v] # NoFd
        PROVE  userIdToFd'[v] \in clients' /\ fdToUser'[userIdToFd'[v]] = v
    <3>1. CASE v = u
      BY <2>1, <3>1
    <3>2. CASE v # u
      <4>1. userIdToFd'[v] = userIdToFd[v] /\ v \notin displaced /\ v # NoUser
        BY <2>1, <2>2, <3>2, ConstantsAreFine
      <4>2. userIdToFd[v] \in clients /\ fdToUser[userIdToFd[v]] = v
        BY <2>2, <4>1
      <4>3. userIdToFd[v] # fd
        BY <2>1, <2>2, <4>1, <4>2
      <4> QED BY <2>1, <4>1, <4>2, <4>3
    <3> QED BY <3>1, <3>2
  <2>3. ASSUME NEW g \in Fds, fdToUser'[g] # NoUser
        PROVE  g \in clients' /\ userIdToFd'[fdToUser'[g]] = g
    <3>1. CASE g = fd
      BY <2>1, <3>1
    <3>2. CASE g # fd
      <4>1. fdToUser'[g] = fdToUser[g] /\ fdToUser[g] \in Users
        BY <2>1, <2>3, <3>2
      <4>2. g \in clients /\ userIdToFd[fdToUser[g]] = g
        BY <2>3, <4>1
      <4>3. fdToUser[g] # u
        BY <2>1, <4>2, ConstantsAreFine
      <4> QED BY <2>1, <4>1, <4>2, <4>3
    <3> QED BY <3>1, <3>2
  <2>4. ASSUME NEW v \in displaced'
        PROVE  /\ v \in Users /\ userIdToFd'[v] # NoFd
               /\ \A g \in Fds : fdToUser'[g] # v
    <3>1. CASE v \in displaced
      <4>1. v \in Users /\ userIdToFd[v] # NoFd /\ \A g \in Fds : fdToUser[g] # v
        BY <3>1
      <4> QED BY <2>1, <4>1
    <3>2. CASE v = fdToUser[fd] /\ v # NoUser
      <4>1. v \in Users /\ userIdToFd[v] = fd
        BY <3>2
      <4>2. v # u /\ userIdToFd'[v] = fd
        BY <2>1, <4>1, ConstantsAreFine
      <4>3. ASSUME NEW g \in Fds PROVE fdToUser'[g] # v
        <5>1. CASE g = fd
          BY <2>1, <4>2, <5>1
        <5>2. CASE g # fd
          BY <2>1, <3>2, <4>1, <5>2
        <5> QED BY <5>1, <5>2
      <4> QED BY <4>1, <4>2, <4>3, ConstantsAreFine
    <3> QED BY <2>1, <2>4, <3>1, <3>2
  <2> QED BY <2>2, <2>3, <2>4
<1> QED BY <1>1, <1>2 DEF Opens

\* logout forgets the user on the connection and nobody else.
LEMMA EndsKeepLinks ==
  ASSUME SessionInv, NEW fd \in Fds, EndSession(fd), clients' \in {clients, clients \ {fd}}
  PROVE  /\ Linked'
         /\ \A u \in Users : u # Caller(fd) => userIdToFd'[u] = userIdToFd[u]
<1> USE DEF SessionInv, Sessions, SM!TypeOK, Linked, AccountsFollowConnections,
            SM!IsLoggedIn, SM!GetFd, SM!GetUser, Caller
<1>1. /\ fdToUser' = [fdToUser EXCEPT ![fd] = NoUser]
      /\ userIdToFd' = [u \in Users |-> IF u = fdToUser[fd] THEN NoFd ELSE userIdToFd[u]]
      /\ displaced' = displaced
  BY DEF EndSession, SM!Logout
<1>2. ASSUME NEW u \in Users \ displaced', userIdToFd'[u] # NoFd
      PROVE  userIdToFd'[u] \in clients' /\ fdToUser'[userIdToFd'[u]] = u
  <2>1. u # fdToUser[fd] /\ userIdToFd'[u] = userIdToFd[u]
    BY <1>1, <1>2
  <2>2. userIdToFd[u] \in clients /\ fdToUser[userIdToFd[u]] = u
    BY <1>1, <1>2, <2>1
  <2>3. userIdToFd[u] # fd
    BY <2>1, <2>2
  <2> QED BY <1>1, <2>1, <2>2, <2>3
<1>3. ASSUME NEW g \in Fds, fdToUser'[g] # NoUser
      PROVE  g \in clients' /\ userIdToFd'[fdToUser'[g]] = g
  <2>1. g # fd /\ fdToUser'[g] = fdToUser[g] /\ fdToUser[g] \in Users
    BY <1>1, <1>3
  <2>2. g \in clients /\ userIdToFd[fdToUser[g]] = g
    BY <1>3, <2>1
  <2>3. fdToUser[g] # fdToUser[fd]
    <3> SUFFICES ASSUME fdToUser[g] = fdToUser[fd] PROVE FALSE
      OBVIOUS
    <3>1. fdToUser[fd] # NoUser
      BY <2>1, ConstantsAreFine
    <3>2. userIdToFd[fdToUser[fd]] = fd
      BY <3>1
    <3> QED BY <2>1, <2>2, <3>2
  <2> QED BY <1>1, <2>1, <2>2, <2>3
<1>4. \A u \in Users : u # fdToUser[fd] => userIdToFd'[u] = userIdToFd[u]
  BY <1>1
<1>5. ASSUME NEW u \in displaced'
      PROVE  /\ u \in Users /\ userIdToFd'[u] # NoFd
             /\ \A g \in Fds : fdToUser'[g] # u
  <2>1. u \in Users /\ userIdToFd[u] # NoFd /\ \A g \in Fds : fdToUser[g] # u
    BY <1>1, <1>5
  <2> QED BY <1>1, <2>1, ConstantsAreFine
<1> QED BY <1>2, <1>3, <1>4, <1>5

LEMMA EndsAreSessions ==
  ASSUME Ends
  PROVE  \E fd \in Fds : EndSession(fd) /\ clients' \in {clients, clients \ {fd}}
BY DEF Ends, CloseConnection, LogoutReq, connVars

LEMMA LinkedStep ==
  ASSUME SessionInv, [Next]_vars
  PROVE  SessionInv'
<1>1. CASE ClassStep \/ QuestionStep \/ OtherStep
  BY <1>1 DEF ClassStep, QuestionStep, OtherStep, connVars, smVars, SessionInv, Sessions,
     SM!TypeOK, Linked, AccountsFollowConnections, SM!IsLoggedIn, SM!GetFd, SM!GetUser,
     Caller
<1>2. CASE Opens
  BY <1>2, OpensKeepLinks, SessionsStep DEF SessionInv
<1>3. CASE Ends
  BY <1>3, EndsAreSessions, EndsKeepLinks, SessionsStep DEF SessionInv
<1>4. CASE RestartServer
  <2>1. Linked'
    BY <1>4, ConstantsAreFine
    DEF RestartServer, Linked, AccountsFollowConnections, SM!IsLoggedIn, SM!GetFd,
        SM!GetUser, Caller
  <2> QED BY <2>1, SessionsStep DEF SessionInv
<1> QED BY <1>1, <1>2, <1>3, <1>4, StepKinds

LEMMA SessionInvariant == Spec => []SessionInv
<1>1. Init => SessionInv
  BY DEF Init, SM!Init, SessionInv, Sessions, SM!TypeOK, Linked,
         AccountsFollowConnections, SM!IsLoggedIn, SM!GetFd, SM!GetUser, Caller
<1>2. SessionInv /\ [Next]_vars => SessionInv'
  BY LinkedStep
<1> QED BY <1>1, <1>2, PTL DEF Spec

\* An account counts as logged in only while an open connection acts for it, unless that
\* connection has logged in another account over it.
THEOREM LoggedInIsConnected == Spec => []AccountsFollowConnections
<1>1. SessionInv => AccountsFollowConnections
  BY DEF SessionInv, Linked
<1> QED BY <1>1, SessionInvariant, PTL

-----------------------------------------------------------------------------
(* The roster. *)

Online(u) == SM!GetFd(u) \in clients /\ SM!GetUser(SM!GetFd(u)) = u

\* Only a student's own JOIN_CLASS_REQ adds to a roster, and only that student.
LEMMA JoinersAreCallers ==
  ASSUME CM!TypeOK, [Next]_vars, NEW c \in ClassIds, NEW u \in members'[c] \ members[c]
  PROVE  \E fd \in clients : Caller(fd) = u
<1>1. members # members'
  OBVIOUS
<1>2. ASSUME NEW fd \in Fds, NEW d \in ClassIds, ClassRequest(fd, d)
      PROVE  \E g \in clients : Caller(g) = u
  <2>1. CASE JoinClassReq(fd, d)
    BY <2>1 DEF JoinClassReq, ByStudent, Handles, CM!JoinClass, CM!TypeOK
  <2>2. CASE EndClassReq(fd, d) \/ LeaveClassReq(fd, d)
    <3>1. members'[c] \subseteq members[c]
      BY <2>2, ClassIdsAgree
      DEF EndClassReq, LeaveClassReq, CM!EndClass, CM!Forget, CM!LeaveClass, CM!TypeOK
    <3> QED BY <3>1
  <2>3. CASE \/ StartClassReq(fd, d) \/ CheckinReq(fd, d)
             \/ \E seconds \in DeadlineRequests : OpenCheckinReq(fd, d, seconds)
    BY <1>1, <2>3
    DEF StartClassReq, CheckinReq, OpenCheckinReq, CM!StartClass, CM!Checkin,
        CM!OpenCheckin
  <2>4. CASE (\E v \in Students : RandomCallReq(fd, d, v)) \/ PublishQuestionReq(fd, d)
    BY <1>1, <2>4
    DEF RandomCallReq, PublishQuestionReq, OnlyQuestions, cmVars, CM!RandomCall
  <2> QED BY <1>2, <2>1, <2>2, <2>3, <2>4 DEF ClassRequest
<1>3. ASSUME NEW fd \in Fds, NEW d \in ClassIds, MediaRequest(fd, d)
      PROVE  members' = members
  BY <1>3
  DEF MediaRequest, StartScreenShareReq, StopScreenShareReq, ScreenFrame, StartAudioReq,
      StopAudioReq, AudioFrame, GrantMicReq, RevokeMicReq, OnlySends, cmVars,
      CM!StartScreenShare, CM!StopScreenShare, CM!StartAudio, CM!StopAudio, CM!GrantMic,
      CM!RevokeMic
<1>4. ASSUME NEW fd \in Fds, CloseConnection(fd) \/ SessionRequest(fd)
      PROVE  members'[c] \subseteq members[c]
  <2>1. EndSession(fd) => members'[c] \subseteq members[c]
    BY ClassIdsAgree DEF EndSession, CM!RemoveFromAll, cmVars
  <2> QED BY <1>4, <2>1
          DEF CloseConnection, SessionRequest, CreateUserReq, LoginReq, LogoutReq,
              CreateClassReq, CM!CreateClass, cmVars
<1>5. ASSUME NEW fd \in Fds, NEW q \in 1 .. MaxQuestions, NEW answer \in AnswerRequests,
             SubmitAnswerReq(fd, q, answer)
      PROVE  members' = members
  BY <1>5 DEF SubmitAnswerReq, OnlyQuestions, cmVars
<1>6. RestartServer => members'[c] = {}
  BY ClassIdsAgree DEF RestartServer, CM!Restart
<1>7. Connect \/ NobodyIdle \/ UNCHANGED vars => members' = members
  BY DEF Connect, NobodyIdle, OnlySends, vars, cmVars
<1> QED BY <1>1, <1>2, <1>3, <1>4, <1>5, <1>6, <1>7 DEF Next

LEMMA RosterStep ==
  ASSUME SessionInv, CM!TypeOK, RosterIsOnline, [Next]_vars
  PROVE  RosterIsOnline'
<1> USE DEF SM!GetFd, SM!GetUser, Caller
<1>1. CASE ClassStep
  <2>1. UNCHANGED <<clients, fdToUser, userIdToFd, displaced>>
    BY <1>1 DEF ClassStep, connVars, smVars
  <2>2. ASSUME NEW c \in ClassIds, NEW u \in members'[c] \ displaced
        PROVE  userIdToFd[u] \in clients /\ fdToUser[userIdToFd[u]] = u
    <3>1. CASE u \in members[c]
      BY <3>1 DEF RosterIsOnline
    <3>2. CASE u \notin members[c]
      <4>1. PICK fd \in clients : fdToUser[fd] = u
        BY <3>2, JoinersAreCallers
      <4>2. fd \in Fds
        BY DEF SessionInv, Sessions
      <4>3. CM!TypeOK'
        BY ClassManagerStep, ClassTypeStep DEF SessionInv
      <4>4. u # NoUser
        BY <4>3, ClassIdsAgree, ConstantsAreFine DEF CM!TypeOK
      <4> QED BY <4>1, <4>2, <4>4 DEF SessionInv, Linked
    <3> QED BY <3>1, <3>2
  <2> QED BY <2>1, <2>2 DEF RosterIsOnline
<1>2. CASE QuestionStep \/ OtherStep
  BY <1>2 DEF QuestionStep, OtherStep, connVars, smVars, cmVars, RosterIsOnline
<1>3. CASE Opens
  <2>1. CASE Connect
    BY <2>1 DEF Connect, smVars, cmVars, RosterIsOnline
  <2>2. ASSUME NEW fd \in Fds, NEW v \in Users, LoginReq(fd, v)
        PROVE  RosterIsOnline'
    <3>1. /\ clients' = clients /\ members' = members
          /\ userIdToFd[v] = NoFd
          /\ fdToUser' = [fdToUser EXCEPT ![fd] = v]
          /\ userIdToFd' = [userIdToFd EXCEPT ![v] = fd]
          /\ displaced' = displaced \cup ({fdToUser[fd]} \ {NoUser})
      BY <2>2 DEF LoginReq, SM!Login, SM!IsLoggedIn, connVars, cmVars
    <3>2. ASSUME NEW c \in ClassIds, NEW u \in members[c] \ displaced'
          PROVE  userIdToFd'[u] \in clients /\ fdToUser'[userIdToFd'[u]] = u
      <4>1. userIdToFd[u] \in clients /\ fdToUser[userIdToFd[u]] = u /\ u \in Users
        BY <3>1, ClassIdsAgree DEF RosterIsOnline, CM!TypeOK, Users
      <4>2. userIdToFd[u] \in Fds
        BY <4>1 DEF SessionInv, Sessions
      <4>3. u # v /\ u # NoUser
        BY <3>1, <4>1, <4>2, ConstantsAreFine
      <4>4. userIdToFd[u] # fd
        BY <3>1, <3>2, <4>1, <4>3
      <4> QED BY <3>1, <4>1, <4>2, <4>3, <4>4 DEF SessionInv, Sessions, SM!TypeOK
    <3> QED BY <3>1, <3>2 DEF RosterIsOnline
  <2> QED BY <1>3, <2>1, <2>2 DEF Opens
<1>4. CASE Ends
  <2>1. PICK fd \in Fds : EndSession(fd) /\ clients' \in {clients, clients \ {fd}}
    BY <1>4, EndsAreSessions
  <2>d. displaced' = displaced
    BY <2>1 DEF EndSession
  <2>2. Linked' /\ \A u \in Users : u # Caller(fd) => userIdToFd'[u] = userIdToFd[u]
    BY <2>1, EndsKeepLinks
  <2>3. ASSUME NEW c \in ClassIds, NEW u \in members'[c] \ displaced'
        PROVE  userIdToFd'[u] \in clients' /\ fdToUser'[userIdToFd'[u]] = u
    <3>1. u \in members[c] /\ u # Caller(fd)
      <4>1. CASE Caller(fd) = NoUser
        BY <2>1, <2>3, <4>1, ClassIdsAgree, ConstantsAreFine
        DEF EndSession, cmVars, CM!TypeOK
      <4>2. CASE Caller(fd) # NoUser
        BY <2>1, <2>3, <4>2, ClassIdsAgree DEF EndSession, CM!RemoveFromAll
      <4> QED BY <4>1, <4>2
    <3>2. u \in Users /\ userIdToFd[u] \in clients
      BY <2>d, <3>1, ClassIdsAgree DEF RosterIsOnline, CM!TypeOK, Users
    <3>3. userIdToFd'[u] = userIdToFd[u]
      BY <2>2, <3>1, <3>2
    <3>4. userIdToFd'[u] # NoFd
      BY <3>2, <3>3, ConstantsAreFine DEF SessionInv, Sessions
    <3> QED BY <2>2, <3>2, <3>4 DEF Linked, AccountsFollowConnections, SM!IsLoggedIn
  <2> QED BY <2>3 DEF RosterIsOnline
<1>5. CASE RestartServer
  BY <1>5, ClassIdsAgree DEF RestartServer, CM!Restart, RosterIsOnline
<1> QED BY <1>1, <1>2, <1>3, <1>4, <1>5, StepKinds

\* The roster holds no ghosts but displaced accounts, whichever way connections end.
THEOREM NoGhosts == Spec => []RosterIsOnline
<1>1. Init => RosterIsOnline
  BY ClassIdsAgree DEF Init, CM!Init, RosterIsOnline
<1>2. SessionInv /\ CM!TypeOK /\ RosterIsOnline /\ [Next]_vars => RosterIsOnline'
  BY RosterStep
<1> QED BY <1>1, <1>2, SessionInvariant, ServerTypes, PTL DEF Spec

-----------------------------------------------------------------------------
(* Frames and answers. *)

\* A user who has a connection, and was not displaced there, is the one acting on it.
LEMMA PushedToCaller ==
  ASSUME SessionInv, NEW u \in Users \ displaced, SM!GetFd(u) \in clients
  PROVE  SM!GetUser(SM!GetFd(u)) = u
BY ConstantsAreFine
DEF SessionInv, Sessions, Linked, AccountsFollowConnections, SM!IsLoggedIn, SM!GetFd,
    SM!GetUser

LEMMA FramesStep ==
  ASSUME SessionInv, CMP!Inv, FramesStayInClass, [Next]_vars
  PROVE  FramesStayInClass'
<1> USE DEF SM!GetFd, SM!GetUser
<1>t. CMP!TypeOK /\ CMP!ClassIds = ClassIds
  BY DEF CMP!Inv, CMP!ClassIds, ClassIds
<1>1. ASSUME NEW fd \in Fds, NEW c \in ClassIds,
             ScreenFrame(fd, c) \/ AudioFrame(fd, c)
      PROVE  FramesStayInClass'
  <2>1. UNCHANGED <<clients, fdToUser, userIdToFd, displaced, members, owner>>
    BY <1>1 DEF ScreenFrame, AudioFrame, OnlySends, connVars, smVars, cmVars
  <2>2. owner[c] \in Teachers
    <3>1. status[c] = "ACTIVE"
      BY <1>1, <1>t DEF ScreenFrame, AudioFrame, CMP!Inv, CMP!OnlyActiveClassesRun
    <3> QED BY <3>1, <1>t DEF CMP!Inv, CMP!TypeOK, CMP!IdsAreFresh
  <2>3. ASSUME NEW n \in sent', n.user \notin displaced
        PROVE  fdToUser'[n.to] \in ClassOf(n)'
    <3>1. PICK v \in members[c] \cup {owner[c]}, from \in {Caller(fd)},
              type \in FrameTypes :
                 userIdToFd[v] \in clients
                 /\ n = [to |-> userIdToFd[v], user |-> v, msg |-> Message(type, c, from)]
      <4>1. CASE ScreenFrame(fd, c)
        BY <2>3, <4>1 DEF ScreenFrame, Broadcast, PushTo, FrameTypes
      <4>2. CASE AudioFrame(fd, c)
        BY <2>3, <4>2 DEF AudioFrame, PushTo, FrameTypes
      <4> QED BY <1>1, <4>1, <4>2
    <3>3. v \in Users
      BY <1>t, <2>2 DEF CMP!TypeOK, Users
    <3>4. n.to = userIdToFd[v] /\ n.user = v /\ n.msg.class = c
      BY <3>1 DEF Message
    <3>2. fdToUser[n.to] = v
      BY <2>3, <3>1, <3>3, <3>4, PushedToCaller
    <3> QED BY <2>1, <3>2, <3>4 DEF ClassOf
  <2> QED BY <2>1, <2>3 DEF FramesStayInClass
<1>2. ASSUME \A n \in sent' : n.msg.type \notin FrameTypes
      PROVE  FramesStayInClass'
  BY <1>2 DEF FramesStayInClass, FrameTypes
<1>3. sent' = {} => FramesStayInClass'
  BY DEF FramesStayInClass
<1> USE DEF Quietly
<1>4. ASSUME NEW fd \in Fds, NEW c \in ClassIds, ClassRequest(fd, c)
      PROVE  FramesStayInClass'
  <2>1. CASE \/ \E seconds \in DeadlineRequests : OpenCheckinReq(fd, c, seconds)
             \/ \E u \in Students : RandomCallReq(fd, c, u)
             \/ PublishQuestionReq(fd, c)
    BY <1>2, <2>1
    DEF OpenCheckinReq, RandomCallReq, PublishQuestionReq, Broadcast, PushTo, Message,
        FrameTypes
  <2> QED
    BY <1>3, <1>4, <2>1
    DEF ClassRequest, StartClassReq, EndClassReq, JoinClassReq, LeaveClassReq, CheckinReq
<1>5. ASSUME NEW fd \in Fds, NEW c \in ClassIds, MediaRequest(fd, c)
      PROVE  FramesStayInClass'
  <2>1. CASE \/ StartScreenShareReq(fd, c) \/ StopScreenShareReq(fd, c)
             \/ StartAudioReq(fd, c) \/ StopAudioReq(fd, c)
    BY <1>2, <2>1
    DEF StartScreenShareReq, StopScreenShareReq, StartAudioReq, StopAudioReq, Broadcast,
        PushTo, Message, FrameTypes
  <2>2. CASE (\E u \in Students : GrantMicReq(fd, c, u)) \/ RevokeMicReq(fd, c)
    BY <1>2, <2>2 DEF GrantMicReq, RevokeMicReq, PushTo, Message, FrameTypes
  <2> QED BY <1>1, <1>5, <2>1, <2>2 DEF MediaRequest
<1>6. ASSUME NEW fd \in Fds, CloseConnection(fd) \/ SessionRequest(fd)
      PROVE  FramesStayInClass'
  BY <1>3, <1>6
  DEF CloseConnection, SessionRequest, CreateUserReq, LoginReq, LogoutReq, EndSession,
      CreateClassReq
<1>7. ASSUME NEW fd \in Fds, NEW q \in 1 .. MaxQuestions, NEW answer \in AnswerRequests,
             SubmitAnswerReq(fd, q, answer)
      PROVE  FramesStayInClass'
  BY <1>3, <1>7 DEF SubmitAnswerReq
<1>8. Connect \/ NobodyIdle \/ RestartServer => FramesStayInClass'
  BY <1>3 DEF Connect, NobodyIdle, RestartServer
<1>9. UNCHANGED vars => FramesStayInClass'
  BY DEF vars, connVars, smVars, cmVars, FramesStayInClass, ClassOf
<1> QED BY <1>4, <1>5, <1>6, <1>7, <1>8, <1>9 DEF Next

\* A relayed frame reaches only connections whose user is in the class or owns it, or has
\* displaced such a user there.
THEOREM FramesInClass == Spec => []FramesStayInClass
<1>1. Init => FramesStayInClass
  BY DEF Init, FramesStayInClass
<1>2. SessionInv /\ CMP!Inv /\ FramesStayInClass /\ [Next]_vars => FramesStayInClass'
  BY FramesStep
<1> QED BY <1>1, <1>2, SessionInvariant, ManagersInvariant, PTL DEF Spec

LEMMA OnlySubmitsRecord ==
  ASSUME QMP!QuestionInv, [Next]_vars, answers' # answers
  PROVE  \E fd \in Fds, q \in 1 .. MaxQuestions, answer \in AnswerRequests :
            SubmitAnswerReq(fd, q, answer)
<1>1. ASSUME NEW fd \in Fds, NEW c \in ClassIds, ClassRequest(fd, c)
      PROVE  answers' = answers
  BY <1>1
  DEF ClassRequest, StartClassReq, EndClassReq, JoinClassReq, LeaveClassReq,
      OpenCheckinReq, CheckinReq, RandomCallReq, PublishQuestionReq, OnlyClasses, qmVars,
      QM!PublishQuestion, QM!answerVars
<1>2. ASSUME NEW fd \in Fds, NEW c \in ClassIds, MediaRequest(fd, c)
      PROVE  answers' = answers
  BY <1>2, MediaRequestKind DEF ClassStep, OtherStep, qmVars
<1>3. ASSUME NEW fd \in Fds, CloseConnection(fd) \/ SessionRequest(fd)
      PROVE  answers' = answers
  BY <1>3
  DEF CloseConnection, SessionRequest, CreateUserReq, LoginReq, LogoutReq, EndSession,
      CreateClassReq, OnlyClasses, qmVars
<1>4. RestartServer => answers' = answers
  BY DEF RestartServer, QM!Restart, QM!LoadAnswers, QMP!QuestionInv, QMP!AnswersAreSaved
<1>5. Connect \/ NobodyIdle \/ UNCHANGED vars => answers' = answers
  BY DEF Connect, NobodyIdle, OnlySends, vars, qmVars
<1> QED BY <1>1, <1>2, <1>3, <1>4, <1>5 DEF Next

LEMMA AnswerStep ==
  ASSUME CMP!Inv, QMP!QuestionInv, [Next]_vars,
         NEW q \in 1 .. MaxQuestions, Len(answers'[q]) > Len(answers[q])
  PROVE  /\ Len(answers'[q]) = Len(answers[q]) + 1
         /\ answers'[q][Len(answers'[q])].user \in members[questionClass[q]]
         /\ status[questionClass[q]] = "ACTIVE"
<1>t. answers \in [1 .. MaxQuestions -> Seq(QMP!AnswerRecord)]
  BY DEF QMP!QuestionInv, QMP!TypeOK, QMP!QuestionIds
<1>n. Len(answers[q]) \in Nat
  BY <1>t
<1>1. PICK fd \in Fds, p \in 1 .. MaxQuestions, answer \in AnswerRequests :
           SubmitAnswerReq(fd, p, answer)
  BY <1>n, OnlySubmitsRecord
<1> DEFINE record == [user |-> Caller(fd), answer |-> answer]
<1>2. /\ answers' = [answers EXCEPT ![p] = Append(answers[p], record)]
      /\ Caller(fd) \in Students /\ answer \in QM!ValidAnswers
      /\ p \in QM!KnownQuestions
      /\ Caller(fd) \in members[questionClass[p]]
  BY <1>1 DEF SubmitAnswerReq, ByStudent, IsMember, QM!SubmitAnswer, QM!MayAnswer
<1>3. p = q
  BY <1>2, <1>t, <1>n
<1>4. record \in QMP!AnswerRecord /\ record.user = Caller(fd)
  BY <1>2 DEF QMP!AnswerRecord, QMP!ValidAnswers, QM!ValidAnswers
<1>5. questionClass[q] \in ClassIds
  BY <1>2, <1>3 DEF QMP!QuestionInv, QMP!TypeOK, QMP!QuestionIds, QM!KnownQuestions,
                    QM!QuestionIds
<1>6. status[questionClass[q]] = "ACTIVE"
  BY <1>2, <1>3, <1>5
  DEF CMP!Inv, CMP!OnlyActiveClassesRun, CMP!ClassIds, ClassIds
<1> HIDE DEF record
<1>7. answers'[q] = Append(answers[q], record)
  BY <1>2, <1>3, <1>t
<1>8. Len(answers'[q]) = Len(answers[q]) + 1 /\ answers'[q][Len(answers'[q])] = record
  BY <1>7, <1>4, <1>t, <1>n
<1> QED BY <1>2, <1>3, <1>4, <1>6, <1>8

\* Whoever has an answer recorded is then in the class of the question, which runs.
THEOREM AnswersFromClass == Spec => AnswersComeFromTheClass
<1>1. CMP!Inv /\ QMP!QuestionInv /\ [Next]_vars =>
        [\A q \in 1 .. MaxQuestions :
            Len(answers'[q]) > Len(answers[q]) =>
              /\ Len(answers'[q]) = Len(answers[q]) + 1
              /\ answers'[q][Len(answers'[q])].user \in members[questionClass[q]]
              /\ status[questionClass[q]] = "ACTIVE"]_vars
  BY AnswerStep
<1> QED BY <1>1, ManagersInvariant, PTL DEF Spec, AnswersComeFromTheClass

=============================================================================
