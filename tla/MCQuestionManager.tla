--------------------------- MODULE MCQuestionManager ---------------------------
(* Finite instances of QuestionManager. *)
EXTENDS QuestionManager, TLC

CONSTANTS c1, c2, s1, s2

MCClasses == {c1, c2}
MCStudents == {s1, s2}
MCAnswerRequests == -1 .. 2

Symmetries == Permutations(MCClasses) \cup Permutations(MCStudents)

=============================================================================
