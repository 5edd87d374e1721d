------------------------------- MODULE Accounts -------------------------------
(***************************************************************************)
(* Logging in and out: the windows of the client programs (MainWindow,     *)
(* LoginPage, AdminPage, TcpClient) and the server's session handling, with *)
(* the connections between them, lost connections and a server that dies.  *)
(*                                                                         *)
(* A connection is a pair of FIFO queues with an id of its own; the real    *)
(* server's ids start over when it is restarted, with every older           *)
(* connection gone.  A window sees the end of its connection later than the *)
(* server, or earlier.  Users of SessionManager are ids of UserStore.      *)
(***************************************************************************)
EXTENDS SessionManager, UserStore, Sequences

CONSTANTS
    Windows,        \* the client programs
    Impatient,      \* may a user ask for another account before the answer
    MaxRequests,    \* bound on the requests under way on a connection
    MaxAnswers,     \* bound on the answers under way on a connection
    MaxRestarts     \* bound on the deaths of the server

ASSUME AccountsAssumption ==
    /\ Users = 1 .. Cardinality(Names)
    /\ Fds = 1 .. Cardinality(Fds)
    /\ Impatient \in BOOLEAN /\ MaxRequests \in Nat /\ MaxAnswers \in Nat
    /\ MaxRestarts \in Nat
    /\ NoUser = NoId

VARIABLES
    clients,        \* clients_: the connections open at the server
    nextFd,         \* the id of the next connection
    restarts,       \* deaths of the server so far
    sock,           \* the connection of each window, NoFd without one
    page,           \* the user whose page the window shows, NoUser: the login page
    asked,          \* the username the window asked for last on its connection
    waiting,        \* the login button is disabled until an answer
    toServer,       \* requests under way, by connection
    toClient        \* LOGIN_RESPs under way, by connection

serverVars == <<smVars, storeVars, clients, restarts>>
windowVars == <<sock, page, asked, waiting>>
accountVars == <<serverVars, nextFd, windowVars, toServer, toClient>>

AccountsInit ==
    /\ Init /\ StoreInit
    /\ clients = {} /\ nextFd = 1 /\ restarts = 0
    /\ sock = [w \in Windows |-> NoFd]
    /\ page = [w \in Windows |-> NoUser]
    /\ asked = [w \in Windows |-> DefaultAdmin]
    /\ waiting = [w \in Windows |-> FALSE]
    /\ toServer = [fd \in Fds |-> <<>>]
    /\ toClient = [fd \in Fds |-> <<>>]

-----------------------------------------------------------------------------
(* The server's end. *)

HasWindow(fd) == \E w \in Windows : sock[w] = fd

IsAdmin(fd) == \E a \in AdminNames \cap Registered : idOf[a] = GetUser(fd)

\* A LOGIN_RESP names the user who is logged in, or NoUser when it says "failed".  The
\* other responses change no more than a text and are left out.  What is sent to a socket
\* that has failed is lost.
Answers(fd, user) ==
    IF HasWindow(fd)
    THEN /\ Len(toClient[fd]) < MaxAnswers
         /\ toClient' = [toClient EXCEPT ![fd] = Append(@, user)]
    ELSE UNCHANGED toClient

\* The displayed name is in the LOGIN_RESP of a success, so send throws when it is cut.
CutIds == {idOf[n] : n \in cut}

\* authenticate, then SessionManager::login.
LogsIn(fd, name) == name \in Registered /\ Login(fd, idOf[name])

AnswersSuccess(fd, name) ==
    IF name \in cut THEN UNCHANGED toClient ELSE Answers(fd, idOf[name])

Refuses(fd, name) ==
    (name \in cut \/ ~ENABLED LogsIn(fd, name)) /\ UNCHANGED smVars

AnswersLoginUnchecked(fd, name) ==  \* mutant: the answer does not ask login()
    /\ LogsIn(fd, name) \/ (~ENABLED LogsIn(fd, name) /\ UNCHANGED smVars)
    /\ Answers(fd, idOf[name])

AnswersSuccessOnly(fd, name) ==  \* mutant: a login that fails is not answered
    \/ LogsIn(fd, name) /\ AnswersSuccess(fd, name)
    \/ Refuses(fd, name) /\ UNCHANGED toClient

\* Of a cut account it is left open which field is cut: the username or the password,
\* with which authenticate finds nobody, or the displayed name.
AnswersLogin(fd, name) ==
    \/ LogsIn(fd, name) /\ AnswersSuccess(fd, name)
    \/ Refuses(fd, name) /\ Answers(fd, NoUser)

HandleLogin(fd, m) ==
    /\ m.type = "LOGIN_REQ"
    /\ AnswersLogin(fd, m.name)
    /\ UNCHANGED storeVars

HandleLogout(fd, m) ==
    /\ m.type = "LOGOUT_REQ"
    /\ Logout(fd)
    /\ UNCHANGED <<storeVars, toClient>>

HandleCreateUser(fd, m) ==
    /\ m.type = "CREATE_USER_REQ"
    /\ \/ IsAdmin(fd) /\ CreateUser(m.name)
       \/ ~(IsAdmin(fd) /\ ENABLED CreateUser(m.name)) /\ UNCHANGED storeVars
    /\ UNCHANGED <<smVars, toClient>>

Handle(fd) ==
    /\ fd \in clients /\ toServer[fd] # <<>>
    /\ LET m == Head(toServer[fd]) IN
       HandleLogin(fd, m) \/ HandleLogout(fd, m) \/ HandleCreateUser(fd, m)
    /\ toServer' = [toServer EXCEPT ![fd] = Tail(@)]
    /\ UNCHANGED <<clients, restarts, nextFd, windowVars>>

ForgetsConnection(fd) ==  \* mutant: the disconnect handler does not log out
    UNCHANGED smVars

EndsSession(fd) == Logout(fd)

\* onDisconnected and onIdleCheck; what the connection still had to say is lost.
Closes(fd) ==
    /\ fd \in clients
    /\ EndsSession(fd)
    /\ clients' = clients \ {fd}
    /\ toServer' = [toServer EXCEPT ![fd] = <<>>]
    /\ UNCHANGED <<storeVars, restarts, nextFd, windowVars, toClient>>

\* All connections and sessions are gone.
StartsAgain ==
    /\ restarts < MaxRestarts /\ restarts' = restarts + 1
    /\ fdToUser' = [fd \in Fds |-> NoUser]
    /\ userIdToFd' = [u \in Users |-> NoFd]
    /\ clients' = {}
    /\ toServer' = [fd \in Fds |-> <<>>]
    /\ UNCHANGED <<nextFd, windowVars, toClient>>

\* Between two handlers, or in the save of the handler that would come next.
Dies ==
    /\ \/ Restart
       \/ \E fd \in clients :
             /\ toServer[fd] # <<>> /\ Head(toServer[fd]).type = "CREATE_USER_REQ"
             /\ IsAdmin(fd) /\ DieInSave(Head(toServer[fd]).name)
    /\ StartsAgain

-----------------------------------------------------------------------------
(* The windows. *)

ServerIdle == UNCHANGED <<serverVars, nextFd>>

\* TcpClient::send does nothing unless the socket is connected.
Sends(w, type, name) ==
    IF sock[w] = NoFd THEN UNCHANGED toServer
    ELSE /\ Len(toServer[sock[w]]) < MaxRequests
         /\ toServer' = IF sock[w] \in clients
                        THEN [toServer EXCEPT ![sock[w]] =
                                 Append(@, [type |-> type, name |-> name])]
                        ELSE toServer

\* onConnectClicked while there is a connection only empties the receive buffer.
Connects(w) ==
    /\ page[w] = NoUser /\ sock[w] = NoFd /\ nextFd \in Fds
    /\ sock' = [sock EXCEPT ![w] = nextFd]
    /\ waiting' = [waiting EXCEPT ![w] = FALSE]
    /\ clients' = clients \cup {nextFd}
    /\ nextFd' = nextFd + 1
    /\ UNCHANGED <<smVars, storeVars, restarts, page, asked, toServer, toClient>>

\* A login of this window has not been answered yet.
LoginUnderWay(w) ==
    /\ sock[w] # NoFd
    /\ \/ toClient[sock[w]] # <<>>
       \/ \E i \in DOMAIN toServer[sock[w]] : toServer[sock[w]][i].type = "LOGIN_REQ"

\* onLoginClicked, by the button or by the Enter key, which is never disabled.
EntersLogin(w, name) ==
    /\ page[w] = NoUser /\ sock[w] # NoFd
    /\ LoginUnderWay(w) /\ ~Impatient => name = asked[w]
    /\ Sends(w, "LOGIN_REQ", name)
    /\ asked' = [asked EXCEPT ![w] = name]
    /\ waiting' = [waiting EXCEPT ![w] = TRUE]
    /\ ServerIdle /\ UNCHANGED <<sock, page, toClient>>

\* onLogout of the pages: the request is sent and the answer is not waited for.
ClicksLogout(w) ==
    /\ page[w] # NoUser
    /\ Sends(w, "LOGOUT_REQ", DefaultAdmin)
    /\ page' = [page EXCEPT ![w] = NoUser]
    /\ ServerIdle /\ UNCHANGED <<sock, asked, waiting, toClient>>

\* AdminPage::onCreateUser.
ClicksCreateUser(w, name) ==
    /\ page[w] # NoUser /\ asked[w] \in AdminNames
    /\ Sends(w, "CREATE_USER_REQ", name)
    /\ ServerIdle /\ UNCHANGED <<windowVars, toClient>>

\* MainWindow::onMessage: only the login page listens to LOGIN_RESP.
Receives(w) ==
    LET fd == sock[w] IN
    /\ fd # NoFd /\ toClient[fd] # <<>>
    /\ toClient' = [toClient EXCEPT ![fd] = Tail(@)]
    /\ IF page[w] = NoUser
       THEN /\ page' = [page EXCEPT ![w] = Head(toClient[fd])]
            /\ waiting' = [waiting EXCEPT ![w] = FALSE]
       ELSE UNCHANGED <<page, waiting>>
    /\ ServerIdle /\ UNCHANGED <<sock, asked, toServer>>

Leaves(w) ==
    /\ sock' = [sock EXCEPT ![w] = NoFd]
    /\ page' = [page EXCEPT ![w] = NoUser]
    /\ asked' = [asked EXCEPT ![w] = DefaultAdmin]
    /\ waiting' = [waiting EXCEPT ![w] = FALSE]
    /\ toClient' = [toClient EXCEPT ![sock[w]] = <<>>]
    /\ UNCHANGED toServer

\* The socket fails at this end; the server has not noticed yet.
LosesConnection(w) ==
    /\ sock[w] \in clients
    /\ ServerIdle /\ Leaves(w)

\* onDisconnected, once what had been sent has been received.
NoticesClosing(w) ==
    /\ sock[w] # NoFd /\ sock[w] \notin clients /\ toClient[sock[w]] = <<>>
    /\ ServerIdle /\ Leaves(w)

-----------------------------------------------------------------------------

WindowStep(w) ==
    \/ Connects(w) \/ ClicksLogout(w) \/ LosesConnection(w)
    \/ \E n \in Names : EntersLogin(w, n) \/ ClicksCreateUser(w, n)
    \/ Receives(w) \/ NoticesClosing(w)

AccountsNext ==
    \/ \E fd \in Fds : Handle(fd) \/ Closes(fd)
    \/ Dies
    \/ \E w \in Windows : WindowStep(w)

\* TCP delivers, both event loops run, and the server ends a connection without a
\* window: by the FIN or the reset, or else by the idle check.
Fairness ==
    /\ \A fd \in Fds :
          /\ WF_accountVars(Handle(fd))
          /\ WF_accountVars(~HasWindow(fd) /\ Closes(fd))
    /\ \A w \in Windows :
          WF_accountVars(Receives(w)) /\ WF_accountVars(NoticesClosing(w))

AccountsSpec == AccountsInit /\ [][AccountsNext]_accountVars /\ Fairness

-----------------------------------------------------------------------------
(* Properties. *)

\* With nothing under way on a living connection, the server takes the window's requests
\* as coming from the user whose page it shows, whatever was clicked before the answers
\* came.  So no request is ever made in another user's name, provided that nobody asks
\* for a second account before the first answer.  A window with the login page acts for
\* nobody, except that the server may have let in a cut account and failed to say so.
ActsAsShown ==
    \A w \in Windows :
        LET fd == sock[w] IN
        fd \in clients /\ toServer[fd] = <<>> /\ toClient[fd] = <<>> =>
            \/ GetUser(fd) = page[w]
            \/ GetUser(fd) \in CutIds /\ page[w] = NoUser

\* The login button of a connected window comes back, unless the account asked for is a
\* cut one: every other LOGIN_REQ is answered, and the answer finds the login page unless
\* an earlier one has led on from it.
LoginIsAnswered ==
    \A w \in Windows :
        waiting[w] /\ sock[w] # NoFd ~>
            ~waiting[w] \/ sock[w] = NoFd \/ asked[w] \in cut

\* Whoever lost the connection can log in again sooner or later: an account does not stay
\* "already logged in" on a connection that no window has.  A cut account may, since its
\* user, never told of the success, may have logged in another one on the connection.
LostSessionsEnd ==
    \A u \in Users :
        IsLoggedIn(u) /\ ~HasWindow(GetFd(u)) ~>
            ~IsLoggedIn(u) \/ HasWindow(GetFd(u)) \/ u \in CutIds

\* "Check if a userId is currently logged in" (session_manager.h): an account that counts
\* as logged in is the one its connection acts for.
LoggedInMeansActing ==
    \A u \in Users : IsLoggedIn(u) => GetUser(GetFd(u)) = u

=============================================================================
