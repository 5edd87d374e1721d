------------------------------- MODULE Classroom -------------------------------
(***************************************************************************)
(* A lesson: the server of ThunderServer, the windows of a teacher and of   *)
(* students, and the TCP connections between them.                         *)
(*                                                                         *)
(* A connection is a pair of FIFO queues.  The server handles the oldest    *)
(* request of a connection in one step, pushes what the handler pushes and  *)
(* then replies; a window handles the oldest message in one step.  Clicks   *)
(* and timers come at any moment.  Of the server's messages only those are   *)
(* sent that change more than a text on a page.                             *)
(*                                                                         *)
(* Everybody is logged in at first, and every page is in the room of class  *)
(* 1.  The handshake of a login is one step here, the subject of Accounts.  *)
(*                                                                         *)
(* A window is named after the user it shows.  MainWindow makes its pages   *)
(* once, and a page knows nothing of who is logged in: whoever logs in at a *)
(* window finds the pages as the user before left them, timers included.    *)
(***************************************************************************)
EXTENDS ThunderServer

CONSTANTS
    Lessons,    \* what the windows do: see LessonType
    MaxTimers   \* bound on the timers of a hasty teacher's page that clicks Start again

VARIABLES
    lesson,         \* the lesson of this behaviour; never changes
    fdOf,           \* the connection of each window, NoFd without one
    shown,          \* the window shows the page of its user, not the login page
    toServer,       \* requests under way, by connection
    toClient,       \* responses and notifications under way, by connection
    teacherPage,    \* the TeacherPage of each window
    studentPage,    \* the StudentPage of each window
    estranged       \* <<user, topic>>: something the page needed was lost (history)

TP == INSTANCE TeacherPage
SP == INSTANCE StudentPage

People == Teachers \cup Students
Topics == {"media", "question"}

windowVars == <<fdOf, shown, teacherPage, studentPage>>
roomVars == <<vars, lesson, windowVars, toServer, toClient, estranged>>

\* A lesson says what is clicked and by whom, which classes the lists show, and which
\* of them run already, with every student in them; `owners' have created the classes,
\* and `queue' bounds the messages under way on a connection in one direction.  "DROP" is
\* a lost connection, "MOVE" somebody logging in where somebody else was before.
LessonType ==
    [clicks : SUBSET (RequestTypes \cup {"ENTER", "DROP", "MOVE"}), who : SUBSET People,
     classes : SUBSET ClassIds, running : SUBSET ClassIds, owners : SUBSET Teachers,
     queue : 1 .. 2]

ASSUME ClassroomAssumption ==
    /\ MaxTimers \in Nat
    /\ IsFiniteSet(People) /\ Cardinality(People) <= MaxConnections
    /\ 1 \in ClassIds
    /\ RequestTypes \subseteq Requests
    /\ Lessons \subseteq LessonType

\* Everybody has connected and logged in, those who own the classes first.
Seats ==
    { seat \in [People -> 1 .. Cardinality(People)] :
        /\ \A u, v \in People : seat[u] = seat[v] => u = v
        /\ \A t \in lesson.owners : seat[t] <= Cardinality(lesson.owners)
        /\ \A t \in Teachers : seat[t] <= Cardinality(Teachers) }

LessonInit ==
    /\ accounts = InitialAccounts
    /\ \E seat \in Seats :
          /\ userIdToFd = [u \in Users |-> IF u \in People THEN seat[u] ELSE NoFd]
          /\ fdToUser = [fd \in Fds |-> IF fd \in {seat[u] : u \in People}
                                        THEN CHOOSE u \in People : seat[u] = fd
                                        ELSE NoUser]
    /\ clients = 1 .. Cardinality(People)
    /\ nextClientId = Cardinality(People) + 1
    /\ sent = {} /\ displaced = {}
    /\ nextClassId = MaxClasses + 1
    /\ status = [c \in ClassIds |-> IF c \in lesson.running THEN "ACTIVE" ELSE "WAITING"]
    /\ owner \in [ClassIds -> lesson.owners]
    /\ members = [c \in ClassIds |-> IF c \in lesson.running THEN Students ELSE {}]
    /\ checkins = [c \in ClassIds |-> CM!NoCheckin]
    /\ screenSharing = {} /\ audioActive = {}
    /\ micHolder = [c \in ClassIds |-> NoUser]
    /\ events = [c \in ClassIds |-> <<>>]
    /\ clock = 1
    /\ QM!Init

RoomInit ==
    /\ lesson \in Lessons
    /\ LessonInit
    /\ fdOf = [u \in People |-> userIdToFd[u]]
    /\ shown = [u \in People |-> TRUE]
    /\ toServer = [fd \in Fds |-> <<>>]
    /\ toClient = [fd \in Fds |-> <<>>]
    /\ teacherPage = [u \in People |-> TP!Entered(TP!NewPage, 1)]
    /\ studentPage = [u \in People |-> SP!Entered(SP!NewPage, 1)]
    /\ estranged = {}

-----------------------------------------------------------------------------
(* The connections. *)

Request(type, c, u, q) == [type |-> type, class |-> c, user |-> u, question |-> q]

ResponseOf ==
    [ START_SCREEN_SHARE_REQ |-> "START_SCREEN_SHARE_RESP",
      STOP_SCREEN_SHARE_REQ |-> "STOP_SCREEN_SHARE_RESP",
      START_AUDIO_REQ |-> "START_AUDIO_RESP",
      STOP_AUDIO_REQ |-> "STOP_AUDIO_RESP",
      RANDOM_CALL_REQ |-> "RANDOM_CALL_RESP" ]

Reply(m, ok) ==
    IF m.type \in DOMAIN ResponseOf
    THEN <<[type |-> ResponseOf[m.type], class |-> m.class, ok |-> ok]>>
    ELSE <<>>

Noticed == SP!Alerts \cup SP!MicLosses \cup {"NOTIFY_QUESTION_PUBLISHED"}

\* No handler pushes two messages to one connection.
PushedOn(fd) ==
    IF \E n \in sent' : n.to = fd /\ n.msg.type \in Noticed
    THEN LET n == CHOOSE n \in sent' : n.to = fd IN
         <<[type |-> n.msg.type, class |-> n.msg.class,
            question |-> IF n.msg.type = "NOTIFY_QUESTION_PUBLISHED"
                         THEN activeQuestion'[n.msg.class] ELSE 0]>>
    ELSE <<>>

SendsBack(fd, m, ok) ==
    /\ toClient' = [f \in Fds |-> toClient[f] \o PushedOn(f)
                                     \o (IF f = fd THEN Reply(m, ok) ELSE <<>>)]
    /\ \A f \in Fds : Len(toClient'[f]) <= lesson.queue

\* TcpClient::send writes only while the socket is connected.
Sends(u, m) ==
    IF fdOf[u] = NoFd THEN UNCHANGED toServer
    ELSE /\ Len(toServer[fdOf[u]]) < lesson.queue
         /\ toServer' = [toServer EXCEPT ![fdOf[u]] = Append(@, m)]

Quiet(u) ==
    /\ fdOf[u] # NoFd /\ shown[u]
    /\ toServer[fdOf[u]] = <<>> /\ toClient[fdOf[u]] = <<>>

UnderWay(u, types) ==
    fdOf[u] # NoFd /\
        \/ \E i \in DOMAIN toServer[fdOf[u]] : toServer[fdOf[u]][i].type \in types
        \/ \E i \in DOMAIN toClient[fdOf[u]] : toClient[fdOf[u]][i].type \in types

-----------------------------------------------------------------------------
(* The server's end. *)

Performs(fd, m) ==
    \/ m.type = "LOGOUT_REQ" /\ LogoutReq(fd)
    \/ m.type = "START_CLASS_REQ" /\ StartClassReq(fd, m.class)
    \/ m.type = "END_CLASS_REQ" /\ EndClassReq(fd, m.class)
    \/ m.type = "JOIN_CLASS_REQ" /\ JoinClassReq(fd, m.class)
    \/ m.type = "LEAVE_CLASS_REQ" /\ LeaveClassReq(fd, m.class)
    \/ /\ m.type = "OPEN_CHECKIN_REQ"
       /\ \E seconds \in DeadlineRequests : OpenCheckinReq(fd, m.class, seconds)
    \/ m.type = "CHECKIN_REQ" /\ CheckinReq(fd, m.class)
    \/ m.type = "RANDOM_CALL_REQ" /\ \E u \in Students : RandomCallReq(fd, m.class, u)
    \/ m.type = "PUBLISH_QUESTION_REQ" /\ PublishQuestionReq(fd, m.class)
    \/ /\ m.type = "SUBMIT_ANSWER_REQ"
       /\ \E answer \in AnswerRequests : SubmitAnswerReq(fd, m.question, answer)
    \/ m.type = "START_SCREEN_SHARE_REQ" /\ StartScreenShareReq(fd, m.class)
    \/ m.type = "STOP_SCREEN_SHARE_REQ" /\ StopScreenShareReq(fd, m.class)
    \/ m.type = "SCREEN_FRAME" /\ ScreenFrame(fd, m.class)
    \/ m.type = "START_AUDIO_REQ" /\ StartAudioReq(fd, m.class)
    \/ m.type = "STOP_AUDIO_REQ" /\ StopAudioReq(fd, m.class)
    \/ m.type = "AUDIO_FRAME" /\ AudioFrame(fd, m.class)
    \/ m.type = "GRANT_MIC_REQ" /\ GrantMicReq(fd, m.class, m.user)
    \/ m.type = "REVOKE_MIC_REQ" /\ RevokeMicReq(fd, m.class)

\* Nobody is told that a class has ended, and who leaves with the microphone is not
\* told when the audio stops; who is not in the class is not told of a question, and
\* nobody is when saving the question throws.
LosesTouch ==
    {<<t, "media">> : t \in {owner[c] : c \in {d \in screenSharing \cup audioActive :
                                                  status'[d] = "ENDED"}}}
    \cup {<<u, "media">> : u \in {v \in Students : \E c \in ClassIds :
              micHolder[c] = v /\ v \in members[c] /\ v \notin members'[c]}}
    \cup {<<u, "question">> : u \in {v \in Students : \E c \in ClassIds :
              activeQuestion'[c] # activeQuestion[c] /\ (v \notin members[c] \/ cutText')}}

\* The page never sees the message.
Unseen(u, m) ==
    <<u, IF m.type = "NOTIFY_QUESTION_PUBLISHED" THEN "question" ELSE "media">>

\* A check of its handler refuses the request; a logout is not checked.
Refuses(fd, m) == m.type # "LOGOUT_REQ" /\ ~ENABLED Performs(fd, m)

\* The head of the queue is handled: performed, or refused.
Handle(fd) ==
    /\ fd \in clients /\ toServer[fd] # <<>>
    /\ LET m == Head(toServer[fd]) IN
       \/ Performs(fd, m) /\ SendsBack(fd, m, TRUE)
       \/ /\ Refuses(fd, m)
          /\ Quietly /\ OnlySends
          /\ SendsBack(fd, m, FALSE)
    /\ toServer' = [toServer EXCEPT ![fd] = Tail(@)]
    /\ estranged' = estranged \cup LosesTouch
    /\ UNCHANGED <<lesson, windowVars>>

-----------------------------------------------------------------------------
(* The windows. *)

ServerIdle == Quietly /\ OnlySends /\ UNCHANGED lesson

DialogOf(u) == studentPage[u].dialog \/ teacherPage[u].dialog

\* A click that asks for a confirmation counts when it is confirmed.
CanClick(u, type) ==
    u \in lesson.who /\ type \in lesson.clicks /\ shown[u] /\ ~DialogOf(u)

\* startShareBtn_ and startAudioBtn_ stay enabled until the response is read: the teacher
\* may enter another class and click again, or click again in the same class.
Hasty(t, type, c) ==
    /\ type \in {"START_SCREEN_SHARE_REQ", "START_AUDIO_REQ"} /\ fdOf[t] # NoFd
    /\ \/ \E i \in DOMAIN toServer[fdOf[t]] :
             toServer[fdOf[t]][i].type = type /\ toServer[fdOf[t]][i].class # c
       \/ \E i \in DOMAIN toClient[fdOf[t]] :
             /\ toClient[fdOf[t]][i].type = ResponseOf[type]
             /\ toClient[fdOf[t]][i].class # c

\* One question at a time is under way, and MaxQuestions in all.
QuestionsLeft(t) ==
    nextQuestionId <= MaxQuestions /\ ~UnderWay(t, {"PUBLISH_QUESTION_REQ"})

TeacherClicks(t, type, c, u) ==
    LET p == teacherPage[t] IN
    /\ CanClick(t, type) /\ type \in TP!Buttons(p)
    /\ IF type \in TP!ListButtons THEN c \in lesson.classes ELSE c = p.class
    /\ type = "GRANT_MIC_REQ" <=> u # NoUser
    /\ type = "PUBLISH_QUESTION_REQ" => QuestionsLeft(t)
    /\ p.hasty /\ type = "START_SCREEN_SHARE_REQ" => p.shareTimers <= MaxTimers
    /\ Sends(t, Request(type, c, u, 0))
    /\ teacherPage' = [teacherPage EXCEPT ![t].hasty = @ \/ Hasty(t, type, c)]
    /\ ServerIdle
    /\ UNCHANGED <<fdOf, shown, studentPage, toClient, estranged>>

StudentClicks(u, type, c) ==
    LET p == studentPage[u]
        q == IF type = "SUBMIT_ANSWER_REQ" THEN p.question ELSE 0 IN
    /\ CanClick(u, type) /\ type \in SP!Buttons(p)
    /\ IF type \in SP!ListButtons THEN c \in lesson.classes ELSE c = p.class
    /\ Sends(u, Request(type, c, NoUser, q))
    /\ ServerIdle /\ UNCHANGED <<windowVars, toClient, estranged>>

TeacherEnters(t, c) ==
    /\ CanClick(t, "ENTER") /\ c \in lesson.classes
    /\ teacherPage' = [teacherPage EXCEPT ![t] = TP!Entered(@, c)]
    /\ ServerIdle
    /\ UNCHANGED <<fdOf, shown, studentPage, toServer, toClient, estranged>>

StudentEnters(u, c) ==
    /\ CanClick(u, "ENTER") /\ c \in lesson.classes
    /\ studentPage' = [studentPage EXCEPT ![u] = SP!Entered(@, c)]
    /\ ServerIdle
    /\ UNCHANGED <<fdOf, shown, teacherPage, toServer, toClient, estranged>>

\* captureAndSendFrame, from any timer that runs, whatever page is shown to whom.
SendsScreen(u) ==
    /\ "SCREEN_FRAME" \in lesson.clicks /\ teacherPage[u].shareTimers > 0
    /\ fdOf[u] # NoFd
    /\ Sends(u, Request("SCREEN_FRAME", teacherPage[u].class, NoUser, 0))
    /\ ServerIdle /\ UNCHANGED <<windowVars, toClient, estranged>>

\* The capture timers of both pages.
Speaks(u, c) ==
    /\ "AUDIO_FRAME" \in lesson.clicks /\ fdOf[u] # NoFd
    /\ Sends(u, Request("AUDIO_FRAME", c, NoUser, 0))
    /\ ServerIdle /\ UNCHANGED <<windowVars, toClient, estranged>>

TeacherSpeaks(u) == teacherPage[u].audio /\ Speaks(u, teacherPage[u].class)
StudentSpeaks(u) == studentPage[u].mic /\ Speaks(u, studentPage[u].class)

\* MainWindow::onMessage: the login page drops what is not a LOGIN_RESP.
Receives(u) ==
    LET fd == fdOf[u] IN
    /\ fd # NoFd /\ toClient[fd] # <<>> /\ ~DialogOf(u)
    /\ toClient' = [toClient EXCEPT ![fd] = Tail(@)]
    /\ studentPage' = IF shown[u] /\ u \in Students
                      THEN [studentPage EXCEPT ![u] = SP!AfterMessage(@, Head(toClient[fd]))]
                      ELSE studentPage
    /\ teacherPage' = IF shown[u] /\ u \in Teachers
                      THEN [teacherPage EXCEPT ![u] = TP!AfterMessage(@, Head(toClient[fd]))]
                      ELSE teacherPage
    /\ estranged' = IF shown[u] THEN estranged
                    ELSE estranged \cup {Unseen(u, Head(toClient[fd]))}
    /\ ServerIdle /\ UNCHANGED <<fdOf, shown, toServer>>

ClosesDialog(u) ==
    /\ DialogOf(u)
    /\ studentPage' = [studentPage EXCEPT ![u].dialog = FALSE]
    /\ teacherPage' = [teacherPage EXCEPT ![u].dialog = FALSE]
    /\ ServerIdle /\ UNCHANGED <<fdOf, shown, toServer, toClient, estranged>>

-----------------------------------------------------------------------------
(* Logging out, losing the connection, coming back.  The pages keep what they *)
(* have: onLogout and onDisconnected only clear the session.                  *)

ClicksLogout(u) ==
    /\ CanClick(u, "LOGOUT_REQ")
    /\ Sends(u, Request("LOGOUT_REQ", 0, NoUser, 0))
    /\ shown' = [shown EXCEPT ![u] = FALSE]
    /\ ServerIdle /\ UNCHANGED <<fdOf, teacherPage, studentPage, toClient, estranged>>

\* Both ends notice, the server after it has handled as much as it had received; what
\* was under way is gone.
LosesConnection(u) ==
    /\ u \in lesson.who /\ "DROP" \in lesson.clicks /\ fdOf[u] # NoFd
    /\ CloseConnection(fdOf[u])
    /\ fdOf' = [fdOf EXCEPT ![u] = NoFd]
    /\ shown' = [shown EXCEPT ![u] = FALSE]
    /\ toServer' = [toServer EXCEPT ![fdOf[u]] = <<>>]
    /\ toClient' = [toClient EXCEPT ![fdOf[u]] = <<>>]
    /\ estranged' = estranged \cup LosesTouch
                        \cup {Unseen(u, toClient[fdOf[u]][i]) : i \in DOMAIN toClient[fdOf[u]]}
    /\ UNCHANGED <<lesson, teacherPage, studentPage>>

Reconnects(u) ==
    /\ fdOf[u] = NoFd
    /\ Connect
    /\ fdOf' = [fdOf EXCEPT ![u] = nextClientId]
    /\ UNCHANGED <<lesson, shown, teacherPage, studentPage, toServer, toClient, estranged>>

Drained(u) == fdOf[u] # NoFd => toServer[fdOf[u]] = <<>> /\ toClient[fdOf[u]] = <<>>

Swapped(f, u, v) == [f EXCEPT ![u] = f[v], ![v] = f[u]]

\* v logs in at the window of u, the same one as before or another, which takes v's name
\* and gives its own to the window v has left.  Whatever was under way at either is handled
\* before the login, refused without one, or dropped by the login page.
LogsIn(v, u) ==
    /\ ~shown[u] /\ ~shown[v] /\ fdOf[u] # NoFd /\ ~DialogOf(u)
    /\ Drained(u) /\ Drained(v)
    /\ u # v => "MOVE" \in lesson.clicks
    /\ LoginReq(fdOf[u], v)
    /\ shown' = [shown EXCEPT ![v] = TRUE]
    /\ fdOf' = Swapped(fdOf, u, v)
    /\ teacherPage' = Swapped(teacherPage, u, v)
    /\ studentPage' = Swapped(studentPage, u, v)
    /\ estranged' = IF u = v THEN estranged ELSE estranged \cup ({u, v} \X Topics)
    /\ UNCHANGED <<lesson, toServer, toClient>>

-----------------------------------------------------------------------------

WindowStep(u) ==
    \/ Receives(u) \/ ClosesDialog(u)
    \/ ClicksLogout(u) \/ LosesConnection(u) \/ Reconnects(u)
    \/ SendsScreen(u) \/ TeacherSpeaks(u) \/ StudentSpeaks(u)

RoomNext ==
    \/ \E fd \in Fds : Handle(fd)
    \/ \E u \in People : WindowStep(u)
    \/ \E u, v \in People : LogsIn(v, u)
    \/ \E t \in Teachers :
          \/ \E type \in lesson.clicks, c \in ClassIds, u \in Students \cup {NoUser} :
                TeacherClicks(t, type, c, u)
          \/ \E c \in ClassIds : TeacherEnters(t, c)
    \/ \E u \in Students, c \in ClassIds :
          \/ \E type \in lesson.clicks : StudentClicks(u, type, c)
          \/ StudentEnters(u, c)

RoomSpec == RoomInit /\ [][RoomNext]_roomVars

-----------------------------------------------------------------------------
(* Properties. *)

InTouch(u, topic) == Quiet(u) /\ <<u, topic>> \notin estranged

\* A student's window captures exactly while the server gives the student the
\* microphone, once it has seen the messages that were on their way: grants, revokes,
\* another student's grant and the end of the audio may cross with anything, a message
\* box holding them up included.  Whoever left with the microphone, or has come to another
\* page than the one that was told, is out of touch.
MicFollowsServer ==
    \A u \in Students : InTouch(u, "media") =>
        (studentPage[u].mic <=> \E c \in ClassIds : micHolder[c] = u)

\* A student who was in the class for every question published has the active one on
\* the page, with nothing on its way.
QuestionFollowsServer ==
    \A u \in Students, c \in ClassIds :
        InTouch(u, "question") /\ u \in members[c] /\ lesson.classes = {c} =>
            studentPage[u].question =
                IF activeQuestion[c] = NoQuestion THEN 0 ELSE activeQuestion[c]

\* With nothing on its way, the teacher's page says that it shares, or has audio on,
\* exactly while the server does it for a class of this teacher: the buttons the page
\* offers are those the server will accept, after a logout or a reconnection too.  Not so
\* for a teacher who has had two starts under way at once, has had a class end on air, or
\* has come to a page somebody else has used.
PageAgreesWithServer ==
    \A t \in Teachers : InTouch(t, "media") /\ ~teacherPage[t].hasty =>
        /\ teacherPage[t].sharing <=> \E c \in screenSharing : owner[c] = t
        /\ teacherPage[t].audio <=> \E c \in audioActive : owner[c] = t

\* No capture timer outlives "Share: inactive": at most one runs, and only while the
\* page says that it shares, whoever uses the page.  It fails on a page whose user has had
\* starts for two classes under way at once: the second timer cannot be stopped.
StoppedMeansStopped ==
    \A u \in People : ~teacherPage[u].hasty =>
        teacherPage[u].shareTimers = IF teacherPage[u].sharing THEN 1 ELSE 0

\* What the teacher shows or says reaches the class it was started for and no other,
\* although a frame carries the class whose room is entered when it is sent; a hasty
\* teacher has two of them.
MediaGoesWhereStarted ==
    \A n \in sent :
        /\ n.msg.from \in Teachers /\ <<n.msg.from, "media">> \notin estranged
        /\ ~teacherPage[n.msg.from].hasty
        =>
            /\ n.msg.type = "NOTIFY_SCREEN_FRAME" =>
                  teacherPage[n.msg.from].sharedIn = n.msg.class
            /\ n.msg.type = "NOTIFY_AUDIO_FRAME" =>
                  teacherPage[n.msg.from].audioIn = n.msg.class

\* "Sharing auto-stops when class ends" (docs/architecture.md): once every class has
\* ended and every message was seen, no teacher's page captures the screen.
SharingStopsWithClass ==
    (\A u \in People : Quiet(u)) /\ (\A c \in ClassIds : status[c] = "ENDED") =>
        \A t \in Teachers : ~teacherPage[t].sharing

=============================================================================
