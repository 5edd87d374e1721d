----------------------------- MODULE MCClassReport -----------------------------
(* Finite instances of ClassReport. *)
EXTENDS ClassReport, TLC

CONSTANTS t1, s1, s2

MCTeachers == {t1}
MCStudents == {s1, s2}

StudentSymmetry == Permutations(MCStudents)

AttendanceRecords == SessionTypes
SummaryRecords == SessionTypes \cup {"CHECKIN_OPENED", "STUDENT_CHECKED_IN"}

=============================================================================
