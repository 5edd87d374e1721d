--------------------------------- MODULE Poll ---------------------------------
(***************************************************************************)
(* What answering promises, without maps, files or restarts: a question is *)
(* published once and a voter answers it at most once.  Votes are never    *)
(* taken back; questions are only if the poll is forgetful, and then all   *)
(* of them, so that they may be published again.                           *)
(***************************************************************************)
CONSTANTS
    Questions, Voters, Options,
    NoVote,     \* the voter has not answered
    Forgetful   \* may the questions be lost

VARIABLES
    published,  \* the questions that can be answered or have been
    votes       \* votes[q][v]: the answer of v to q

pollVars == <<published, votes>>

Init ==
    /\ published = {}
    /\ votes = [q \in Questions |-> [v \in Voters |-> NoVote]]

Publish(q) ==
    /\ q \notin published
    /\ published' = published \cup {q}
    /\ UNCHANGED votes

Vote(q, v, a) ==
    /\ q \in published /\ votes[q][v] = NoVote
    /\ votes' = [votes EXCEPT ![q][v] = a]
    /\ UNCHANGED published

Forget ==
    /\ Forgetful
    /\ published' = {}
    /\ UNCHANGED votes

Next ==
    \/ Forget
    \/ \E q \in Questions :
          \/ Publish(q)
          \/ \E v \in Voters, a \in Options : Vote(q, v, a)

Spec == Init /\ [][Next]_pollVars

=============================================================================
