----------------------------- MODULE ThunderServer -----------------------------
(***************************************************************************)
(* The server program: main.cpp's message handler and disconnect handler   *)
(* over TcpServer's connections, SessionManager, ClassManager and          *)
(* QuestionManager.                                                        *)
(*                                                                         *)
(* The Qt event loop runs one handler at a time, so one request is one      *)
(* step: the checks of its case in the switch, the manager call, and the   *)
(* notifications it pushes.  A request that fails its checks changes       *)
(* nothing and is left out, and so are replies to the caller and requests  *)
(* that only read.  Notifications are kept, for one step, in `sent'.       *)
(* Time passes only while a record is written: no handler's check reads    *)
(* the clock, so a tick between two requests would change nothing here.    *)
(***************************************************************************)
EXTENDS Integers, Sequences, FiniteSets

CONSTANTS
    Admins, Teachers, Students,     \* the accounts, by role; roles never change
    InitialAccounts,                \* accounts in users.json when the server starts
    MaxConnections,                 \* bound on the connections ever accepted
    Requests,                       \* the message types the clients send
    NoUser, NoFd, NotYet, NoQuestion, Torn,
    MaxClasses, DeadlineRequests, DefaultDeadline, RecordedTypes, MaxEvents,
    MaxClock, MaxQuestions, NumOptions, AnswerRequests, LongTexts, MaxRestarts

Users == Admins \cup Teachers \cup Students
Fds == 1 .. MaxConnections
ClassIds == 1 .. MaxClasses
NoClass == 0

ASSUME ServerAssumption ==
    /\ Admins # {} /\ Admins \cap (Teachers \cup Students) = {}
    /\ InitialAccounts \subseteq Users /\ InitialAccounts \cap Admins # {}
    /\ NoUser \notin Users /\ NoFd \notin Nat
    /\ MaxConnections \in Nat

\* What ClassManager and QuestionManager assume of their constants.
ASSUME ManagersAssumption ==
    /\ Teachers \cap Students = {}
    /\ MaxClasses \in Nat /\ MaxEvents \in Nat /\ MaxClock \in Nat /\ MaxRestarts \in Nat
    /\ DeadlineRequests \subseteq Int /\ DefaultDeadline \in Nat \ {0}
    /\ NotYet \notin Nat
    /\ MaxQuestions \in Nat /\ NumOptions \in Nat \ {0, 1}
    /\ AnswerRequests \subseteq Int /\ NoQuestion \notin Nat
    /\ LongTexts \in BOOLEAN /\ Torn \notin Seq(1 .. MaxQuestions)

VARIABLES
    accounts,           \* the users of UserStore
    clients,            \* clients_: the ids of the open connections
    nextClientId,       \* nextClientId_
    sent,               \* notifications pushed by the last step
    fdToUser, userIdToFd,
    displaced,          \* accounts whose connection has logged in another (history)
    nextClassId, status, owner, members, checkins, screenSharing, audioActive,
    micHolder, events, clock,
    nextQuestionId, questionClass, activeQuestion, answers, answered,
    questionsFile, cutText, answersFile,
    restarts            \* the managers are restarted together

SM == INSTANCE SessionManager
CM == INSTANCE ClassManager
QM == INSTANCE QuestionManager WITH Classes <- ClassIds

ASSUME RecordedAssumption == RecordedTypes \subseteq CM!EventTypes

connVars == <<clients, nextClientId>>
smVars == <<fdToUser, userIdToFd, displaced>>
cmVars == <<nextClassId, status, owner, members, checkins, screenSharing,
            audioActive, micHolder, events, clock>>
qmVars == <<nextQuestionId, questionClass, activeQuestion, answers, answered,
            questionsFile, cutText, answersFile>>
vars == <<accounts, connVars, sent, smVars, cmVars, qmVars, restarts>>

\* What a class operation, a question operation or a relayed frame leaves alone.
OnlyClasses == UNCHANGED <<accounts, connVars, smVars, qmVars>>
OnlyQuestions == UNCHANGED <<accounts, connVars, smVars, cmVars>>
OnlySends == UNCHANGED <<accounts, connVars, smVars, cmVars, qmVars, restarts>>

\* UserStore::ensureDefaults: without an administrator one is created.
Init ==
    /\ accounts = InitialAccounts
    /\ clients = {} /\ nextClientId = 1
    /\ sent = {} /\ displaced = {}
    /\ SM!Init /\ CM!Init /\ QM!Init

-----------------------------------------------------------------------------
(* Pushing notifications. *)

Message(type, c, from) == [type |-> type, class |-> c, from |-> from]

\* findFd and send: nothing is sent to a user without a connection, nor on a
\* connection that is no longer in clients_.
PushTo(users, m) ==
    { [to |-> SM!GetFd(u), user |-> u, msg |-> m] :
        u \in {v \in users : SM!GetFd(v) \in clients} }

BroadcastToAll(c, type, from) ==  \* mutant: pushed to every student online
    PushTo(Students, Message(type, c, from))

\* To the class as it is when the manager call has returned.
Broadcast(c, type, from) == PushTo(members[c], Message(type, c, from))

Quietly == sent' = {}

-----------------------------------------------------------------------------
(* Connections and sessions. *)

Caller(fd) == SM!GetUser(fd)

Handles(fd, type) == type \in Requests /\ fd \in clients

ByTeacher(fd, type) == Handles(fd, type) /\ Caller(fd) \in Teachers
ByStudent(fd, type) == Handles(fd, type) /\ Caller(fd) \in Students

\* onNewConnection: ids are never used again while the process runs.
Connect ==
    /\ nextClientId \in Fds
    /\ clients' = clients \cup {nextClientId}
    /\ nextClientId' = nextClientId + 1
    /\ Quietly
    /\ UNCHANGED <<accounts, smVars, cmVars, qmVars, restarts>>

EndSessionButStay(fd) ==  \* mutant: removeFromAll is not called
    /\ SM!Logout(fd)
    /\ Quietly
    /\ UNCHANGED <<accounts, displaced, cmVars, qmVars, restarts>>

LeaveClassesOnly(fd) ==  \* mutant: the session is kept
    /\ IF Caller(fd) = NoUser THEN UNCHANGED <<cmVars, restarts>>
                              ELSE CM!RemoveFromAll(Caller(fd))
    /\ Quietly
    /\ UNCHANGED <<accounts, smVars, qmVars>>

\* The disconnect handler: the user on the connection leaves every class, then the
\* session goes.
EndSession(fd) ==
    /\ IF Caller(fd) = NoUser THEN UNCHANGED <<cmVars, restarts>>
                              ELSE CM!RemoveFromAll(Caller(fd))
    /\ SM!Logout(fd)
    /\ Quietly
    /\ UNCHANGED <<accounts, displaced, qmVars>>

\* onDisconnected, and the body of onIdleCheck for one idle connection: there
\* disconnectFromHost may run onDisconnected once more, which finds no user and
\* nothing left to remove.
CloseConnection(fd) ==
    /\ fd \in clients
    /\ EndSession(fd)
    /\ clients' = clients \ {fd}
    /\ UNCHANGED nextClientId

\* onIdleCheck when no connection has been silent for long enough.
NobodyIdle == Quietly /\ OnlySends

\* login() asks whether the account is in a session, not whether the connection is: the
\* account it acted for stays "logged in", and in its classes, with nobody behind it.
LoginReq(fd, u) ==
    /\ Handles(fd, "LOGIN_REQ")
    /\ u \in accounts
    /\ SM!Login(fd, u)
    /\ displaced' = displaced \cup ({Caller(fd)} \ {NoUser})
    /\ Quietly
    /\ UNCHANGED <<accounts, connVars, cmVars, qmVars, restarts>>

LogoutReq(fd) ==
    /\ Handles(fd, "LOGOUT_REQ")
    /\ EndSession(fd)
    /\ UNCHANGED connVars

\* createUser refuses a username that is taken; accounts are never removed.
CreateUserReq(fd, u) ==
    /\ Handles(fd, "CREATE_USER_REQ") /\ Caller(fd) \in Admins
    /\ u \notin accounts
    /\ accounts' = accounts \cup {u}
    /\ Quietly
    /\ UNCHANGED <<connVars, smVars, cmVars, qmVars, restarts>>

-----------------------------------------------------------------------------
(* Class requests. *)

CreateClassReq(fd) ==
    /\ ByTeacher(fd, "CREATE_CLASS_REQ")
    /\ CM!CreateClass(Caller(fd)) /\ Quietly /\ OnlyClasses

StartClassReq(fd, c) ==
    /\ ByTeacher(fd, "START_CLASS_REQ")
    /\ CM!StartClass(c, Caller(fd)) /\ Quietly /\ OnlyClasses

\* Nobody is told: neither the students nor the owner's other screens.
EndClassReq(fd, c) ==
    /\ ByTeacher(fd, "END_CLASS_REQ")
    /\ CM!EndClass(c, Caller(fd)) /\ Quietly /\ OnlyClasses

JoinClassReq(fd, c) ==
    /\ ByStudent(fd, "JOIN_CLASS_REQ")
    /\ CM!JoinClass(c, Caller(fd)) /\ Quietly /\ OnlyClasses

LeaveClassReq(fd, c) ==
    /\ ByStudent(fd, "LEAVE_CLASS_REQ")
    /\ CM!LeaveClass(c, Caller(fd)) /\ Quietly /\ OnlyClasses

OpenCheckinReq(fd, c, seconds) ==
    /\ ByTeacher(fd, "OPEN_CHECKIN_REQ")
    /\ CM!OpenCheckin(c, Caller(fd), seconds)
    /\ sent' = Broadcast(c, "NOTIFY_CHECKIN_OPENED", Caller(fd))
    /\ OnlyClasses

CheckinReq(fd, c) ==
    /\ ByStudent(fd, "CHECKIN_REQ")
    /\ CM!Checkin(c, Caller(fd)) /\ Quietly /\ OnlyClasses

RandomCallReq(fd, c, u) ==
    /\ ByTeacher(fd, "RANDOM_CALL_REQ")
    /\ CM!RandomCall(c, Caller(fd), u)
    /\ sent' = PushTo({u}, Message("NOTIFY_RANDOM_CALLED", c, Caller(fd)))
    /\ OnlyClasses

-----------------------------------------------------------------------------
(* Questions. *)

\* When saveQuestions throws, nobody is notified and the teacher gets no answer.
PublishQuestionReq(fd, c) ==
    /\ ByTeacher(fd, "PUBLISH_QUESTION_REQ")
    /\ CM!RunBy(c, Caller(fd))
    /\ QM!PublishQuestion(c)
    /\ sent' = IF cutText' THEN {}
               ELSE Broadcast(c, "NOTIFY_QUESTION_PUBLISHED", Caller(fd))
    /\ OnlyQuestions

IsAnyone(q, u) == TRUE  \* mutant: the roster is not asked

\* The roster is asked first, then submitAnswer does its own checks.
IsMember(q, u) == u \in members[questionClass[q]]

SubmitAnswerReq(fd, q, answer) ==
    /\ ByStudent(fd, "SUBMIT_ANSWER_REQ")
    /\ q \in QM!KnownQuestions
    /\ IsMember(q, Caller(fd))
    /\ QM!SubmitAnswer(q, Caller(fd), answer)
    /\ Quietly /\ OnlyQuestions

-----------------------------------------------------------------------------
(* Screen sharing, audio and the microphone. *)

StartScreenShareReq(fd, c) ==
    /\ ByTeacher(fd, "START_SCREEN_SHARE_REQ")
    /\ CM!StartScreenShare(c, Caller(fd))
    /\ sent' = Broadcast(c, "NOTIFY_SCREEN_SHARE_STARTED", Caller(fd))
    /\ OnlyClasses

StopScreenShareReq(fd, c) ==
    /\ ByTeacher(fd, "STOP_SCREEN_SHARE_REQ")
    /\ CM!StopScreenShare(c, Caller(fd))
    /\ sent' = Broadcast(c, "NOTIFY_SCREEN_SHARE_STOPPED", Caller(fd))
    /\ OnlyClasses

ScreenFrameOfOwner(fd, c) ==  \* mutant: isScreenSharing is not asked
    /\ ByTeacher(fd, "SCREEN_FRAME")
    /\ CM!OwnedBy(c, Caller(fd))
    /\ sent' = Broadcast(c, "NOTIFY_SCREEN_FRAME", Caller(fd))
    /\ OnlySends

ScreenFrame(fd, c) ==
    /\ ByTeacher(fd, "SCREEN_FRAME")
    /\ c \in screenSharing /\ CM!OwnedBy(c, Caller(fd))
    /\ sent' = Broadcast(c, "NOTIFY_SCREEN_FRAME", Caller(fd))
    /\ OnlySends

StartAudioReq(fd, c) ==
    /\ ByTeacher(fd, "START_AUDIO_REQ")
    /\ CM!StartAudio(c, Caller(fd))
    /\ sent' = Broadcast(c, "NOTIFY_AUDIO_STARTED", Caller(fd))
    /\ OnlyClasses

StopAudioReq(fd, c) ==
    /\ ByTeacher(fd, "STOP_AUDIO_REQ")
    /\ CM!StopAudio(c, Caller(fd))
    /\ sent' = Broadcast(c, "NOTIFY_AUDIO_STOPPED", Caller(fd))
    /\ OnlyClasses

\* The owner, or the student getMicHolder names; the roster is not asked.
IsTeacherOf(u, c) == u \in Teachers /\ owner[c] = u
IsMicHolder(u, c) == u \in Students /\ micHolder[c] = u

\* To every member but the sender, and to the owner when a student speaks.
AudioFrame(fd, c) ==
    LET u == Caller(fd)
        hearers == (members[c] \ {u})
                       \cup (IF IsMicHolder(u, c) THEN {owner[c]} ELSE {})
    IN
    /\ Handles(fd, "AUDIO_FRAME")
    /\ c \in audioActive
    /\ IsTeacherOf(u, c) \/ IsMicHolder(u, c)
    /\ sent' = PushTo(hearers, Message("NOTIFY_AUDIO_FRAME", c, u))
    /\ OnlySends

\* The student who loses the microphone is told before the one who gets it.
GrantMicReq(fd, c, u) ==
    LET loser == {micHolder[c]} \ {NoUser, u} IN
    /\ ByTeacher(fd, "GRANT_MIC_REQ")
    /\ CM!GrantMic(c, Caller(fd), u)
    /\ sent' = PushTo(loser, Message("NOTIFY_MIC_REVOKED", c, Caller(fd)))
                \cup PushTo({u}, Message("NOTIFY_MIC_GRANTED", c, Caller(fd)))
    /\ OnlyClasses

RevokeMicReq(fd, c) ==
    /\ ByTeacher(fd, "REVOKE_MIC_REQ")
    /\ CM!RevokeMic(c, Caller(fd))
    /\ sent' = PushTo({micHolder[c]}, Message("NOTIFY_MIC_REVOKED", c, Caller(fd)))
    /\ OnlyClasses

-----------------------------------------------------------------------------

\* The process ends between two handlers and starts again: connections and sessions
\* are gone, client ids start over, and the managers load their files.
RestartServer ==
    /\ CM!Restart /\ QM!Restart
    /\ clients' = {} /\ nextClientId' = 1
    /\ fdToUser' = [fd \in Fds |-> NoUser]
    /\ userIdToFd' = [u \in Users |-> NoFd]
    /\ displaced' = {}
    /\ Quietly
    /\ UNCHANGED accounts

SessionRequest(fd) ==
    \/ \E u \in Users : CreateUserReq(fd, u) \/ LoginReq(fd, u)
    \/ LogoutReq(fd)
    \/ CreateClassReq(fd)

ClassRequest(fd, c) ==
    \/ StartClassReq(fd, c) \/ EndClassReq(fd, c)
    \/ JoinClassReq(fd, c) \/ LeaveClassReq(fd, c)
    \/ \E seconds \in DeadlineRequests : OpenCheckinReq(fd, c, seconds)
    \/ CheckinReq(fd, c)
    \/ \E u \in Students : RandomCallReq(fd, c, u)
    \/ PublishQuestionReq(fd, c)

MediaRequest(fd, c) ==
    \/ StartScreenShareReq(fd, c) \/ StopScreenShareReq(fd, c) \/ ScreenFrame(fd, c)
    \/ StartAudioReq(fd, c) \/ StopAudioReq(fd, c) \/ AudioFrame(fd, c)
    \/ \E u \in Students : GrantMicReq(fd, c, u)
    \/ RevokeMicReq(fd, c)

Next ==
    \/ Connect \/ NobodyIdle
    \/ \E fd \in Fds :
          \/ CloseConnection(fd)
          \/ SessionRequest(fd)
          \/ \E c \in ClassIds : ClassRequest(fd, c) \/ MediaRequest(fd, c)
          \/ \E q \in 1 .. MaxQuestions, answer \in AnswerRequests :
                SubmitAnswerReq(fd, q, answer)
    \/ RestartServer

Spec == Init /\ [][Next]_vars

-----------------------------------------------------------------------------
(* Properties. *)

RequestTypes ==
    { "LOGIN_REQ", "LOGOUT_REQ", "CREATE_USER_REQ", "CREATE_CLASS_REQ",
      "START_CLASS_REQ", "END_CLASS_REQ", "JOIN_CLASS_REQ", "LEAVE_CLASS_REQ",
      "OPEN_CHECKIN_REQ", "CHECKIN_REQ", "RANDOM_CALL_REQ",
      "PUBLISH_QUESTION_REQ", "SUBMIT_ANSWER_REQ",
      "START_SCREEN_SHARE_REQ", "STOP_SCREEN_SHARE_REQ", "SCREEN_FRAME",
      "START_AUDIO_REQ", "STOP_AUDIO_REQ", "AUDIO_FRAME",
      "GRANT_MIC_REQ", "REVOKE_MIC_REQ" }

FrameTypes == {"NOTIFY_SCREEN_FRAME", "NOTIFY_AUDIO_FRAME"}

ClassOf(n) == members[n.msg.class] \cup {owner[n.msg.class]}

\* An account counts as logged in only while an open connection acts for it, so
\* "already logged in" is never said to a user whose connection is gone: for every account
\* whose connection has not logged in another one.  For those that have been displaced in
\* that way it fails, as LoggedInMeansActing of Accounts shows.
AccountsFollowConnections ==
    \A u \in Users \ displaced : SM!IsLoggedIn(u) =>
        /\ SM!GetFd(u) \in clients
        /\ SM!GetUser(SM!GetFd(u)) = u

\* The roster holds no ghosts but displaced accounts: any other account that is in a class
\* is logged in on an open connection, whichever way earlier connections ended.
RosterIsOnline ==
    \A c \in ClassIds : \A u \in members[c] \ displaced :
        /\ SM!GetFd(u) \in clients
        /\ SM!GetUser(SM!GetFd(u)) = u

\* What is relayed in a class stays in it: the user acting on a connection that gets a
\* frame is a member of the class now, or its owner, unless the connection gets the frame
\* for an account it has displaced.
FramesStayInClass ==
    \A n \in sent :
        n.msg.type \in FrameTypes /\ n.user \notin displaced =>
            SM!GetUser(n.to) \in ClassOf(n)

\* Answers come from the class: when an answer is recorded, its author is in the class
\* of the question and the class is running, so nothing is answered after endClass or
\* after a restart without joining again.
AnswersComeFromTheClass ==
    [][\A q \in 1 .. MaxQuestions :
          Len(answers'[q]) > Len(answers[q]) =>
              /\ Len(answers'[q]) = Len(answers[q]) + 1
              /\ answers'[q][Len(answers'[q])].user \in members[questionClass[q]]
              /\ status[questionClass[q]] = "ACTIVE"]_vars

=============================================================================
