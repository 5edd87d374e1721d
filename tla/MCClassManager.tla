---------------------------- MODULE MCClassManager ----------------------------
(* Finite instances of ClassManager. *)
EXTENDS ClassManager, TLC

CONSTANTS t1, t2, s1, s2

MCTeachers == {t1, t2}
MCOneTeacher == {t1}
MCStudents == {s1, s2}

StudentSymmetry == Permutations(MCStudents)

NoRecords == {}
MicRecords == {"MIC_REVOKED", "AUDIO_STOPPED"}
LogRecords == SessionTypes \cup MicRecords

=============================================================================
