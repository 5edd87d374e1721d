---------------------------- MODULE SessionManager ----------------------------
(***************************************************************************)
(* Who is logged in where: the two maps of SessionManager.                 *)
(*                                                                         *)
(* fdToUser_ and userIdToFd_ are partial maps in the code; here they are   *)
(* total functions with an absent value.  A user stands for its userId: the*)
(* name and role stored beside it never change after createUser.           *)
(***************************************************************************)

CONSTANTS
    Users,      \* the accounts of the user store
    Fds,        \* connection ids handed out by TcpServer
    NoUser,     \* fdToUser_ has no entry
    NoFd        \* userIdToFd_ has no entry (getFd returns -1)

ASSUME AbsentValues == NoUser \notin Users /\ NoFd \notin Fds

VARIABLES
    fdToUser,   \* connection -> user logged in on it
    userIdToFd  \* user -> connection its notifications are sent to

smVars == <<fdToUser, userIdToFd>>

Init ==
    /\ fdToUser = [fd \in Fds |-> NoUser]
    /\ userIdToFd = [u \in Users |-> NoFd]

GetUser(fd) == fdToUser[fd]

IsLoggedIn(u) == userIdToFd[u] # NoFd

GetFd(u) == userIdToFd[u]

LoginAgain(fd, u) ==  \* mutant: an account that is logged in is let in again
    /\ fdToUser' = [fdToUser EXCEPT ![fd] = u]
    /\ userIdToFd' = [userIdToFd EXCEPT ![u] = fd]

\* login: the only refusal is that the account is already in userIdToFd_.  A
\* connection that is logged in as somebody else is not looked at.
Login(fd, u) ==
    /\ ~IsLoggedIn(u)
    /\ fdToUser' = [fdToUser EXCEPT ![fd] = u]
    /\ userIdToFd' = [userIdToFd EXCEPT ![u] = fd]

\* logout: forgets both directions, and does nothing on an anonymous connection.
Logout(fd) ==
    /\ fdToUser' = [fdToUser EXCEPT ![fd] = NoUser]
    /\ userIdToFd' = [u \in Users |-> IF u = GetUser(fd) THEN NoFd
                                                         ELSE userIdToFd[u]]

Next ==
    \E fd \in Fds :
        \/ \E u \in Users : Login(fd, u)
        \/ Logout(fd)

Spec == Init /\ [][Next]_smVars

-----------------------------------------------------------------------------
(* Properties. *)

\* Both maps are total functions over accounts and connections.
TypeOK ==
    /\ fdToUser \in [Fds -> Users \cup {NoUser}]
    /\ userIdToFd \in [Users -> Fds \cup {NoFd}]

\* A request is handled as the user getUser(fd) returns, and that user's
\* notifications go to getFd(user): the two always name the same connection, so a
\* user acts on the connection it is notified on.  The converse does not hold:
\* see AccountsFollowConnections in ThunderServer.
CallerIsNotified ==
    \A fd \in Fds : \A u \in Users :
        fdToUser[fd] = u => userIdToFd[u] = fd

\* "Duplicate login is rejected": no account acts on two connections at once.
OneConnectionPerUser ==
    \A u \in Users : \A f, g \in Fds :
        fdToUser[f] = u /\ fdToUser[g] = u => f = g

\* A login never takes a running session over: a user's notifications move to
\* another connection only through a logout in between.
SessionsAreNotMoved ==
    [][\A u \in Users :
          userIdToFd[u] # NoFd => userIdToFd'[u] \in {userIdToFd[u], NoFd}]_smVars

=============================================================================
