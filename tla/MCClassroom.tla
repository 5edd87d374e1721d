------------------------------ MODULE MCClassroom ------------------------------
(* Finite instances of Classroom: what is clicked in a lesson. *)
EXTENDS Classroom, TLC

CONSTANTS a1, t1, t2, s1, s2

MCAdmins == {a1}
MCTeachers == {t1, t2}
MCStudents == {s1, s2}
AllAccounts == Users
AllRequests == RequestTypes
MCAnswerRequests == {0}
NoRecords == {}

Symmetries == Permutations(MCStudents)

\* The teacher shares the screen, in two classes that both run.
Sharing ==
    [clicks |-> {"START_SCREEN_SHARE_REQ", "STOP_SCREEN_SHARE_REQ", "SCREEN_FRAME",
                 "END_CLASS_REQ", "ENTER"},
     who |-> {t1}, classes |-> {1, 2}, running |-> {1, 2},
     owners |-> {t1}, queue |-> 2]

\* The same with sound.
Lecture ==
    [clicks |-> {"START_AUDIO_REQ", "STOP_AUDIO_REQ", "AUDIO_FRAME",
                 "END_CLASS_REQ", "DROP", "ENTER"},
     who |-> {t1}, classes |-> {1, 2}, running |-> {1, 2},
     owners |-> {t1}, queue |-> 1]

\* The microphone goes round.
Microphone ==
    [clicks |-> {"START_AUDIO_REQ", "STOP_AUDIO_REQ", "GRANT_MIC_REQ",
                 "REVOKE_MIC_REQ"},
     who |-> {t1, s1, s2}, classes |-> {1}, running |-> {1},
     owners |-> {t1}, queue |-> 2]

\* Students leave, whoever has the microphone.
Leaving ==
    [clicks |-> {"START_AUDIO_REQ", "STOP_AUDIO_REQ", "GRANT_MIC_REQ",
                 "REVOKE_MIC_REQ", "LEAVE_CLASS_REQ"},
     who |-> {t1, s1, s2}, classes |-> {1}, running |-> {1},
     owners |-> {t1}, queue |-> 1]

\* Students come and go while questions are asked.
Quiz ==
    [clicks |-> {"JOIN_CLASS_REQ", "PUBLISH_QUESTION_REQ", "SUBMIT_ANSWER_REQ",
                 "DROP"},
     who |-> {t1, s1, s2}, classes |-> {1}, running |-> {1},
     owners |-> {t1}, queue |-> 1]

\* A class starts; check-in and random call open message boxes.
RollCall ==
    [clicks |-> {"START_CLASS_REQ", "JOIN_CLASS_REQ",
                 "OPEN_CHECKIN_REQ", "CHECKIN_REQ", "RANDOM_CALL_REQ"},
     who |-> {t1, s1, s2}, classes |-> {1}, running |-> {},
     owners |-> {t1}, queue |-> 1]

\* A student with the microphone talks, in whatever room the page is.
Talk ==
    [clicks |-> {"START_AUDIO_REQ", "GRANT_MIC_REQ", "AUDIO_FRAME", "ENTER"},
     who |-> {t1, s1, s2}, classes |-> {1, 2}, running |-> {1},
     owners |-> {t1}, queue |-> 1]

\* Teachers lose their connections and take turns at the windows.
Returning ==
    [clicks |-> {"START_SCREEN_SHARE_REQ", "STOP_SCREEN_SHARE_REQ", "SCREEN_FRAME",
                 "LOGOUT_REQ", "DROP", "MOVE"},
     who |-> {t1, t2}, classes |-> {1}, running |-> {1},
     owners |-> {t1}, queue |-> 1]

AllLessons == {Sharing, Lecture, Microphone, Leaving, Talk, Quiz, RollCall, Returning}
SharingOnly == {Sharing}

=============================================================================
