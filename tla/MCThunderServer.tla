---------------------------- MODULE MCThunderServer ----------------------------
(* Finite instances of ThunderServer: which requests the clients send. *)
EXTENDS ThunderServer, TLC

CONSTANTS a1, t1, s1, s2

MCAdmins == {a1}
MCTeachers == {t1}
MCStudents == {s1, s2}
MCAnswerRequests == {0, 2}
NoRecords == {}

\* The administrator creates the teacher's account.
FirstAccounts == MCAdmins \cup MCStudents

Symmetries == Permutations(MCStudents)

AllRequests == RequestTypes

\* A bound: rolls are called before anything is published, shared or said, and before the
\* restart.  Who has checked in decides nothing that the properties of this run tell apart.
EarlyRollCalls ==
    \A c \in ClassIds : checkins[c] # CM!NoCheckin =>
        /\ restarts = 0 /\ nextQuestionId = 1
        /\ screenSharing = {} /\ audioActive = {}

=============================================================================
