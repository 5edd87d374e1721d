------------------------------ MODULE MCClassStore ------------------------------
(* A finite instance of ClassStore. *)
EXTENDS ClassStore, TLC

CONSTANTS t1, t2, s1

MCTeachers == {t1, t2}
MCStudents == {s1}

TeacherSymmetry == Permutations(MCTeachers)

=============================================================================
