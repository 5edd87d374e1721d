------------------------------- MODULE TcpServer -------------------------------
(***************************************************************************)
(* TcpServer: accepting, reading and dispatching frames, closing, and the  *)
(* idle check.  What the message handler does with a request is the        *)
(* business of ThunderServer: here a dispatched request is remembered.     *)
(*                                                                         *)
(* The network is modelled from how the server uses it: per connection, a  *)
(* stream of pieces that arrives in order, any number at a time, and a     *)
(* peer that may vanish without a word.                                    *)
(***************************************************************************)
EXTENDS Protocol

CONSTANTS
    MaxConnections,     \* bound on the connections ever accepted
    MaxFrames,          \* bound on the frames sent on a connection
    IdleLimit           \* IDLE_TIMEOUT_SECONDS, in ticks

Fds == 1 .. MaxConnections

ASSUME TcpAssumption ==
    MaxConnections \in Nat /\ MaxFrames \in Nat /\ IdleLimit \in Nat

VARIABLES
    nextClientId,   \* nextClientId_
    clients,        \* clients_
    buffers,        \* buffers_[fd]
    idle,           \* now - lastActivity_[fd], counted up to IdleLimit + 1
    dispatched,     \* the requests onMessage_ has been called with, in order
    written,        \* the frames the client has written, in order
    wire,           \* pieces on the way to the server
    peer            \* the client of fd: "there", "closing" or "gone"

serverVars == <<nextClientId, clients, buffers, idle, dispatched>>
tcpVars == <<serverVars, written, wire, peer>>

Init ==
    /\ nextClientId = 1
    /\ clients = {}
    /\ buffers = [fd \in Fds |-> <<>>]
    /\ idle = [fd \in Fds |-> 0]
    /\ dispatched = [fd \in Fds |-> <<>>]
    /\ written = [fd \in Fds |-> <<>>]
    /\ wire = [fd \in Fds |-> <<>>]
    /\ peer = [fd \in Fds |-> "gone"]

-----------------------------------------------------------------------------
(* The clients and the network. *)

ClientWrites(fd, f) ==
    /\ peer[fd] = "there" /\ Len(written[fd]) < MaxFrames
    /\ written' = [written EXCEPT ![fd] = Append(@, f)]
    /\ wire' = [wire EXCEPT ![fd] = @ \o Wire(f)]
    /\ UNCHANGED <<serverVars, peer>>

\* The client closes the connection: the server will read the end of the stream.
PeerCloses(fd) ==
    /\ peer[fd] = "there"
    /\ peer' = [peer EXCEPT ![fd] = "closing"]
    /\ UNCHANGED <<serverVars, written, wire>>

\* The client or its network is gone without a word; what is on the way may be lost.
PeerVanishes(fd) ==
    /\ peer[fd] = "there"
    /\ peer' = [peer EXCEPT ![fd] = "gone"]
    /\ UNCHANGED <<serverVars, written, wire>>

-----------------------------------------------------------------------------
(* The server's slots. *)

NewConnection ==
    /\ nextClientId \in Fds
    /\ nextClientId' = nextClientId + 1
    /\ clients' = clients \cup {nextClientId}
    /\ idle' = [idle EXCEPT ![nextClientId] = 0]
    /\ peer' = [peer EXCEPT ![nextClientId] = "there"]
    /\ UNCHANGED <<buffers, dispatched, written, wire>>

\* The loop of onReadyRead: extractFrame until it returns false.  Run(k) says that the
\* first k calls return true; the last call may still have dropped a malformed frame.
After(buffer, k) == SubSeq(buffer, 2 * k + 1, Len(buffer))

Run(buffer, k) == \A i \in 0 .. k - 1 : Extracts(After(buffer, i))

FirstOnly(buffer) ==  \* mutant: one frame per readyRead
    CHOOSE k \in 0 .. Len(buffer) :
        Run(buffer, k) /\ k <= 1 /\ (k = 1 \/ ~Extracts(buffer))

Loops(buffer) ==
    CHOOSE k \in 0 .. Len(buffer) :
        Run(buffer, k) /\ ~Extracts(After(buffer, k))

Requests(buffer) ==
    [i \in 1 .. Loops(buffer) |-> Body(After(buffer, i - 1))]

\* readAll takes what has arrived, which is some of what was written.
ReadyRead(fd) ==
    /\ fd \in clients
    /\ \E n \in 1 .. Len(wire[fd]) :
          LET buffer == buffers[fd] \o SubSeq(wire[fd], 1, n) IN
          /\ wire' = [wire EXCEPT ![fd] = SubSeq(@, n + 1, Len(@))]
          /\ dispatched' = [dispatched EXCEPT ![fd] = @ \o Requests(buffer)]
          /\ buffers' = [buffers EXCEPT ![fd] = Rest(After(buffer, Loops(buffer)))]
    /\ idle' = [idle EXCEPT ![fd] = 0]
    /\ UNCHANGED <<nextClientId, clients, written, peer>>

\* removeClient: what has not been read is never read.
RemoveClient(fd) ==
    /\ clients' = clients \ {fd}
    /\ buffers' = [buffers EXCEPT ![fd] = <<>>]
    /\ wire' = [wire EXCEPT ![fd] = <<>>]
    /\ idle' = [idle EXCEPT ![fd] = 0]
    /\ peer' = [peer EXCEPT ![fd] = "gone"]
    /\ UNCHANGED <<nextClientId, dispatched, written>>

\* onDisconnected: the end of the stream comes after everything sent before it.
Disconnected(fd) ==
    /\ fd \in clients /\ peer[fd] = "closing" /\ wire[fd] = <<>>
    /\ RemoveClient(fd)

NeverIdle(fd) ==  \* mutant: only a peer that is still there is closed
    idle[fd] > IdleLimit /\ peer[fd] = "there"

IdleTooLong(fd) == idle[fd] > IdleLimit

\* onIdleCheck, for one of the connections it finds.
IdleCheck(fd) ==
    /\ fd \in clients /\ IdleTooLong(fd)
    /\ RemoveClient(fd)

\* Time passes; lastActivity_ is only set by reading.
Tick ==
    /\ \E fd \in clients : idle[fd] <= IdleLimit
    /\ idle' = [fd \in Fds |-> IF fd \in clients /\ idle[fd] <= IdleLimit
                               THEN idle[fd] + 1 ELSE idle[fd]]
    /\ UNCHANGED <<nextClientId, clients, buffers, dispatched, written, wire, peer>>

Next ==
    \/ NewConnection
    \/ Tick
    \/ \E fd \in Fds :
          \/ \E f \in Frames : ClientWrites(fd, f)
          \/ PeerCloses(fd) \/ PeerVanishes(fd)
          \/ ReadyRead(fd)
          \/ Disconnected(fd)
          \/ IdleCheck(fd)

\* What a client that is there has sent arrives and the event loop runs its slots; time
\* passes; the idle timer fires every 30 seconds.
Arrives(fd) == peer[fd] # "gone" /\ ReadyRead(fd)

Fairness ==
    /\ WF_tcpVars(Tick)
    /\ \A fd \in Fds :
          WF_tcpVars(Arrives(fd)) /\ WF_tcpVars(Disconnected(fd)) /\ WF_tcpVars(IdleCheck(fd))

Spec == Init /\ [][Next]_tcpVars /\ Fairness

-----------------------------------------------------------------------------
(* Properties. *)

\* The valid frames whose bodies are among the pieces, in order.
ValidBodies(pieces) ==
    LET bodies[k \in 0 .. Len(pieces)] ==
            IF k = 0 THEN <<>>
            ELSE IF pieces[k].part = "body" /\ pieces[k].frame \in Valid
                 THEN Append(bodies[k - 1], pieces[k].frame)
                 ELSE bodies[k - 1]
    IN  bodies[Len(pieces)]

\* Everything the client has written, as it is cut up.
Stream(frames) ==
    [i \in 1 .. 2 * Len(frames) |-> Wire(frames[(i + 1) \div 2])[2 - (i % 2)]]

\* However the stream is cut up, and whatever malformed frames are between them, the
\* well-formed requests of an open connection are dispatched once each and in the
\* order they were written: none is lost, doubled or overtaken.
DispatchedInOrder ==
    \A fd \in clients :
        dispatched[fd] \o ValidBodies(buffers[fd] \o wire[fd])
            = ValidBodies(Stream(written[fd]))

\* When the event loop waits for more bytes, no complete request is left behind in a
\* buffer, as long as the client writes no malformed frame: a request is never held up
\* until the next one arrives.
NoRequestLeftBehind ==
    \A fd \in clients :
        (\A i \in DOMAIN written[fd] : written[fd][i] \notin Malformed)
            => ~Extracts(buffers[fd])

\* A connection whose client is gone is closed in the end, even when nothing announced
\* it, so the session on it ends and its user can log in again.
DeadConnectionsAreClosed ==
    \A fd \in Fds : (fd \in clients /\ peer[fd] # "there") ~> (fd \notin clients)

=============================================================================
